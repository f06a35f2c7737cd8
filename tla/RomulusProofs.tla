--------------------------- MODULE RomulusProofs ----------------------------
(***************************************************************************)
(* Romulus as a whole does to the provider what the engine does when it is *)
(* given lists of resources: the engine's theorems hold of it, for any     *)
(* clusters and any trouble, and every entry of the table is accounted     *)
(* for.  If only calls to the provider fail, what no service asks for at   *)
(* rest is what a handler gave up; if nothing fails and a service has one  *)
(* port, there is nothing.                                                 *)
(***************************************************************************)
EXTENDS Leftovers, ResourceProofs

Resource == [id : Ids, route : Routes, servers : SUBSET Servers,
             builds : {"all", "delete", "never"}]

(* The engine on its own, which may be given any list.                     *)
Alone == INSTANCE EngineProofs WITH
            Controllers <- AllKinds, Lists <- Seq(Resource), CallsEnd <- TRUE

LEMMA AloneAssumptions ==
    /\ Alone!NoneAssumption /\ Alone!ListsAssumption
    /\ Alone!AttemptsAssumption /\ Alone!CallsEndAssumption
    BY EngineAssumption DEF Alone!NoneAssumption, Alone!ListsAssumption,
          Alone!AttemptsAssumption, Alone!CallsEndAssumption, Resource, Alone!Resource

-----------------------------------------------------------------------------
(***************************************************************************)
(* The lists that the engine is given.                                     *)
(***************************************************************************)
Fits(r) == r.id \in Ids /\ r.route \in Routes /\ r.servers \in SUBSET Servers

LEMMA BuiltFits ==
    ASSUME NEW list, IsList(list), \A r \in ToSet(list) : Fits(r)
    PROVE  Built(list) \in Seq(Resource)
    <1>1. PICK len \in Nat : DOMAIN list = 1..len
        BY DEF IsList
    <1>2. \A k \in 1..len : Fits(list[k])
        BY <1>1 DEF ToSet
    <1>3. Built(list) = [k \in 1..len |->
             [id |-> list[k].id, route |-> list[k].route, servers |-> list[k].servers,
              builds |-> "all"]]
        BY <1>1 DEF Built
    <1>4. \A k \in 1..len :
             [id |-> list[k].id, route |-> list[k].route, servers |-> list[k].servers,
              builds |-> "all"] \in Resource
        BY <1>2 DEF Fits, Resource
    <1>5. Built(list) \in [1..len -> Resource]
        BY <1>3, <1>4
    <1> QED
        BY <1>5

(* A port of a service, with or without Endpoints.                         *)
LEMMA PortFits ==
    ASSUME InformerInv, NEW n, NEW svc, IsVersion("Service", n, svc),
           NEW k \in DOMAIN svc.ports
    PROVE  /\ GenResourceID(n, svc.ports[k]) \in Ids
           /\ NewRoute(svc.ports[k].name, svc.annos) \in Routes
           /\ \A i, ing : IsVersion("Ingress", i, ing) =>
                 \A m \in DOMAIN ing.rules :
                    RuleRoute(NewRoute(svc.ports[k].name, svc.annos), ing.rules[m]) \in Routes
           /\ AddServers(svc, None, svc.ports[k]) \in SUBSET Servers
           /\ \A e, en : IsVersion("Endpoints", e, en) =>
                 AddServers(svc, en, svc.ports[k]) \in SUBSET Servers
    <1>1. cluster \in Clusters /\ n \in DOMAIN cluster.Service
        BY DEF InformerInv, IsVersion
    <1>2. PICK v \in 1..Len(cluster.Service[n]) : svc = cluster.Service[n][v]
        BY DEF IsVersion
    <1>3. /\ GenResourceID(n, svc.ports[k]) \in Ids
          /\ NewRoute(svc.ports[k].name, svc.annos) \in Routes
          /\ \A i \in DOMAIN cluster.Ingress : \A w \in 1..Len(cluster.Ingress[i]) :
                \A m \in DOMAIN cluster.Ingress[i][w].rules :
                    RuleRoute(NewRoute(svc.ports[k].name, svc.annos),
                              cluster.Ingress[i][w].rules[m]) \in Routes
          /\ AddServers(svc, None, svc.ports[k]) \subseteq Servers
          /\ \A e \in DOMAIN cluster.Endpoints : \A w \in 1..Len(cluster.Endpoints[e]) :
                AddServers(svc, cluster.Endpoints[e][w], svc.ports[k]) \subseteq Servers
        BY <1>1, <1>2, TableAssumption
    <1> QED
        BY <1>3 DEF IsVersion

IsIngress(ing) == ing = None \/ \E i : IsVersion("Ingress", i, ing)
IsEndpoints(en) == en = None \/ \E e : IsVersion("Endpoints", e, en)

LEMMA IngressFound ==
    ASSUME InformerInv, NEW c, IsCache(c), NEW answers, IsAnswers(answers),
           NEW n \in ServiceNames
    PROVE  IsIngress(GetIngress(c, n, answers))
    <1>1. PICK i : i = c.ingMap[n]
        OBVIOUS
    <1>2. i = None \/ i \in DOMAIN cluster["Ingress"]
        BY <1>1 DEF IsCache, IngressNames
    <1>3. PICK v : v = MappedVersion(c, n)
        OBVIOUS
    <1>4. CASE v # 0
        <2>1. i # None /\ v = c.stored["Ingress"][i]
            BY <1>1, <1>3, <1>4 DEF MappedVersion
        <2>2. v \in 0..Len(cluster["Ingress"][i]) /\ Len(cluster["Ingress"][i]) \in Nat
            BY <1>2, <2>1, ClustersAssumption DEF IsCache, IsState, InformerInv, AllKinds
        <2>3. v \in 1..Len(cluster["Ingress"][i])
            BY <1>4, <2>2
        <2>4. GetIngress(c, n, answers) = cluster["Ingress"][i][v]
            BY <1>1, <1>3, <1>4 DEF GetIngress, Object
        <2> QED
            BY <1>2, <2>1, <2>3, <2>4 DEF IsVersion, IsIngress
    <1>5. CASE v = 0
        <2>1. PICK a : a = AskedVersion(c, n, answers)
            OBVIOUS
        <2>2. GetIngress(c, n, answers) = Object("Ingress", n, a)
            BY <1>3, <1>5, <2>1 DEF GetIngress
        <2>3. CASE a # 0
            <3>1. n \in DOMAIN cluster["Ingress"] /\ a = answers["Ingress"][n]
                BY <2>1, <2>3 DEF AskedVersion, IngressNames
            <3>2. a \in 0..Len(cluster["Ingress"][n]) /\ Len(cluster["Ingress"][n]) \in Nat
                BY <3>1, ClustersAssumption DEF IsAnswers, IsState, InformerInv, AllKinds
            <3>3. a \in 1..Len(cluster["Ingress"][n])
                BY <2>3, <3>2
            <3>4. Object("Ingress", n, a) = cluster["Ingress"][n][a]
                BY <2>3 DEF Object
            <3> QED
                BY <2>2, <3>1, <3>3, <3>4 DEF IsVersion, IsIngress
        <2>4. CASE a = 0
            BY <2>2, <2>4 DEF Object, IsIngress
        <2> QED
            BY <2>3, <2>4
    <1> QED
        BY <1>4, <1>5

LEMMA EndpointsFound ==
    ASSUME InformerInv, NEW c, IsCache(c), NEW answers, IsAnswers(answers), NEW n
    PROVE  IsEndpoints(GetEndpoints(c, n, answers))
    BY EndpointsFacts DEF IsEndpoints

LEMMA PortsFit ==
    ASSUME InformerInv, NEW n, NEW svc, IsVersion("Service", n, svc),
           NEW en, IsEndpoints(en), NEW ing, IsIngress(ing)
    PROVE  Built(resourcesFromPorts(svc, en, ing)) \in Seq(Resource)
    <1>1. ASSUME NEW k \in DOMAIN svc.ports PROVE Fits(PortResource(svc, en, ing, k))
        <2>1. PICK p, route, used :
                 /\ p = svc.ports[k] /\ route = NewRoute(p.name, svc.annos)
                 /\ used = IF ing = None THEN route
                           ELSE routePartsFromIngress(route, ing, svc.name, p)
            OBVIOUS
        <2>2. PortResource(svc, en, ing, k) = NewResource(svc, en, p, used)
            BY <2>1 DEF PortResource
        <2>3. used \in Routes
            <3>1. route \in Routes /\ {} \in Routes
                BY <2>1, PortFits, TableAssumption
            <3>2. CASE ing = None
                BY <2>1, <3>1, <3>2
            <3>3. CASE ing # None
                <4>1. PICK i : IsVersion("Ingress", i, ing)
                    BY <3>3 DEF IsIngress
                <4>2. PICK hits : hits = {m \in DOMAIN ing.rules :
                                 matchIngressBackend(svc.name, p, ing.rules[m])}
                    OBVIOUS
                <4>3. hits # {} =>
                        (CHOOSE h \in hits : \A m \in hits : h <= m) \in DOMAIN ing.rules
                    <5>1. hits \in SUBSET Nat
                        BY <4>1, <4>2, RuleFacts
                    <5>2. hits # {} => \E h \in hits : \A m \in hits : h <= m
                        BY <5>1, Least
                    <5>3. hits # {} => (CHOOSE h \in hits : \A m \in hits : h <= m) \in hits
                        BY <5>2
                    <5> QED
                        BY <4>2, <5>3
                <4>4. \A m \in DOMAIN ing.rules : RuleRoute(route, ing.rules[m]) \in Routes
                    BY <2>1, <4>1, PortFits
                <4>5. \/ used = {} \/ used = route
                      \/ /\ hits # {}
                         /\ used = RuleRoute(route,
                               ing.rules[CHOOSE h \in hits : \A m \in hits : h <= m])
                    BY <2>1, <3>3, <4>2 DEF routePartsFromIngress
                <4> QED
                    BY <3>1, <4>3, <4>4, <4>5
            <3> QED
                BY <3>2, <3>3
        <2>4. AddServers(svc, en, p) \in SUBSET Servers
            BY <2>1, PortFits DEF IsEndpoints
        <2>5. GenResourceID(svc.name, p) \in Ids
            BY <2>1, PortFits, VersionFacts DEF AllKinds
        <2> QED
            BY <2>2, <2>3, <2>4, <2>5 DEF Fits, NewResource
    <1> QED
        BY <1>1, PortsList, BuiltFits

LEMMA IngressFits ==
    ASSUME InformerInv, NEW c, IsCache(c), NEW answers, IsAnswers(answers),
           NEW i, NEW ing, IsVersion("Ingress", i, ing)
    PROVE  Built(FromIngress(c, ing, answers)) \in Seq(Resource)
    <1>1. ASSUME NEW k \in Usable(c, ing, answers)
          PROVE  Fits(EntryResource(c, ing, k, answers))
        <2>1. PICK entry, svc, en :
                 /\ entry = Entry(ing, k)
                 /\ svc = GetService(c, entry.svc, answers)
                 /\ en = GetEndpoints(c, entry.svc, answers)
            OBVIOUS
        <2>2. IsVersion("Service", entry.svc, svc)
            BY <2>1, EntryFacts
        <2>3. PICK m \in DOMAIN svc.ports : GetServicePort(svc, entry.ref) = svc.ports[m]
            BY <2>1, EntryFacts
        <2>4. PICK p, route, used :
                 /\ p = svc.ports[m] /\ route = NewRoute(p.name, svc.annos)
                 /\ used = IF k = 0 THEN {} ELSE RuleRoute(route, entry)
            OBVIOUS
        <2>5. EntryResource(c, ing, k, answers) = NewResource(svc, en, p, used)
            BY <2>1, <2>3, <2>4 DEF EntryResource
        <2>6. used \in Routes
            <3>1. CASE k = 0
                BY <2>4, <3>1, TableAssumption
            <3>2. CASE k # 0
                <4>1. k \in DOMAIN ing.rules /\ entry = ing.rules[k]
                    BY <2>1, <3>2 DEF Usable, Positions, Entry
                <4>2. RuleRoute(route, ing.rules[k]) \in Routes
                    BY <2>2, <2>4, <4>1, PortFits
                <4> QED
                    BY <2>4, <3>2, <4>1, <4>2
            <3> QED
                BY <3>1, <3>2
        <2>7. AddServers(svc, en, p) \in SUBSET Servers
            <3>1. IsEndpoints(en)
                BY <2>1, EndpointsFound
            <3> QED
                BY <2>2, <2>4, <3>1, PortFits DEF IsEndpoints
        <2>8. GenResourceID(svc.name, p) \in Ids
            <3>1. svc.name = entry.svc
                BY <2>2, VersionFacts DEF AllKinds
            <3> QED
                BY <2>2, <2>4, <3>1, PortFits
        <2> QED
            BY <2>5, <2>6, <2>7, <2>8 DEF Fits, NewResource
    <1> QED
        BY <1>1, IngressList, BuiltFits

LEMMA GeneratedFits ==
    ASSUME InformerInv, NEW c, IsCache(c), NEW answers, IsAnswers(answers),
           NEW kind \in AllKinds, NEW n \in DOMAIN cluster[kind],
           NEW v \in 1..Len(cluster[kind][n])
    PROVE  Generated(c, kind, Object(kind, n, v), answers) \in Seq(Resource)
    <1>1. PICK obj : obj = cluster[kind][n][v]
        OBVIOUS
    <1>2. Object(kind, n, v) = obj
        BY <1>1, ClusterFacts DEF Object, InformerInv, IsObjs
    <1>3. IsVersion(kind, n, obj)
        BY <1>1 DEF IsVersion
    <1>4. obj.name = n
        BY <1>3, VersionFacts
    <1>5. CASE kind = "Ingress"
        BY <1>2, <1>3, <1>5, IngressFits DEF Generated, GenResources
    <1>6. CASE kind = "Service"
        <2>1. n \in ServiceNames
            BY <1>6 DEF ServiceNames
        <2>2. IsEndpoints(GetEndpoints(c, n, answers)) /\ IsIngress(GetIngress(c, n, answers))
            BY <2>1, EndpointsFound, IngressFound
        <2>3. Generated(c, kind, obj, answers)
              = Built(resourcesFromPorts(obj, GetEndpoints(c, n, answers),
                                         GetIngress(c, n, answers)))
            BY <1>4, <1>6 DEF Generated, GenResources, FromService
        <2> QED
            BY <1>2, <1>3, <1>6, <2>2, <2>3, PortsFit
    <1>7. CASE kind = "Endpoints"
        <2>1. PICK svc : svc = GetService(c, n, answers)
            OBVIOUS
        <2>2. CASE svc = None
            <3>1. Generated(c, kind, obj, answers) = Built(<<>>)
                BY <1>4, <1>7, <2>1, <2>2 DEF Generated, GenResources, FromEndpoints
            <3>2. IsList(<<>>) /\ \A r \in ToSet(<<>>) : Fits(r)
                BY DEF IsList, ToSet
            <3> QED
                BY <1>2, <3>1, <3>2, BuiltFits
        <2>3. CASE svc # None
            <3>1. IsVersion("Service", n, svc)
                BY <2>1, <2>3, GetServiceFacts
            <3>2. n \in ServiceNames
                BY <3>1 DEF IsVersion, ServiceNames
            <3>3. IsEndpoints(obj) /\ IsIngress(GetIngress(c, n, answers))
                BY <1>3, <1>7, <3>2, IngressFound DEF IsEndpoints
            <3>4. Generated(c, kind, obj, answers)
                  = Built(resourcesFromPorts(svc, obj, GetIngress(c, n, answers)))
                BY <1>4, <1>7, <2>1, <2>3 DEF Generated, GenResources, FromEndpoints
            <3> QED
                BY <1>2, <3>1, <3>3, <3>4, PortsFit
        <2> QED
            BY <2>2, <2>3
    <1> QED
        BY <1>5, <1>6, <1>7 DEF AllKinds

-----------------------------------------------------------------------------
(***************************************************************************)
(* Informers and cache inside the whole.  A restart is a new beginning     *)
(* with events that wait.                                                  *)
(***************************************************************************)
LEMMA KindRestart ==
    ASSUME NEW objs, IsObjs(objs), NEW z, z = [n \in DOMAIN objs |-> 0],
           NEW f, f = NewDeltaFIFO(DOMAIN objs),
           NEW w, IsWire(objs, w), \A k \in 1..Len(w) : w[k].obj # 0
    PROVE  KindInv(objs, z, w, f, z, <<>>, <<>>, z)
    <1>1. KindInv(objs, z, <<>>, f, z, <<>>, <<>>, z)
        BY KindInit
    <1>2. Fresh(z, w)
        BY DEF Fresh
    <1> QED
        BY <1>1, <1>2 DEF KindInv

(* The list of the objects there are, in some order.                       *)
LEMMA ListedAgain ==
    ASSUME NEW objs, IsObjs(objs), NEW s, IsState(objs, s),
           NEW live, live \in SUBSET DOMAIN objs, \A n \in live : s[n] # 0,
           NEW order \in Orders(live),
           NEW w, w = [k \in DOMAIN order |-> [name |-> order[k], obj |-> s[order[k]]]]
    PROVE  IsWire(objs, w) /\ \A k \in 1..Len(w) : w[k].obj # 0
    <1>1. IsFiniteSet(DOMAIN objs)
        BY DEF IsObjs
    <1>2. IsFiniteSet(live)
        BY <1>1, FS_Subset
    <1>3. order \in Seq(live)
        BY <1>2, OrdersFacts
    <1>4. Len(order) \in Nat /\ DOMAIN order = 1..Len(order)
              /\ \A k \in 1..Len(order) : order[k] \in live
        BY <1>3
    <1>5. \A n \in live : s[n] \in Nat \ {0} /\ s[n] \in 0..Len(objs[n])
        <2>1. \A n \in DOMAIN objs : s[n] \in 0..Len(objs[n]) /\ Len(objs[n]) \in Nat
            BY DEF IsState, IsObjs
        <2>2. \A n \in live : n \in DOMAIN objs /\ s[n] # 0
            OBVIOUS
        <2> QED
            BY <2>1, <2>2
    <1>6. w = [k \in 1..Len(order) |-> [name |-> order[k], obj |-> s[order[k]]]]
        BY <1>4
    <1>7. \A k \in 1..Len(order) :
             [name |-> order[k], obj |-> s[order[k]]] \in [name : DOMAIN objs, obj : Nat]
        BY <1>4, <1>5
    <1>8. w \in Seq([name : DOMAIN objs, obj : Nat]) /\ Len(w) = Len(order)
        BY <1>4, <1>6, <1>7
    <1>9. \A k \in 1..Len(w) : w[k].name = order[k] /\ w[k].obj = s[order[k]]
        BY <1>6, <1>8
    <1> QED
        BY <1>4, <1>5, <1>8, <1>9 DEF IsWire

LEMMA RestartStep == CacheInv /\ Restart => CacheInv'
    <1> SUFFICES ASSUME CacheInv, Restart PROVE CacheInv'
        OBVIOUS
    <1>1. InformerInv /\ cluster \in Clusters /\ cluster' = cluster
        BY DEF CacheInv, InformerInv, Restart
    <1>2. Kinds = AllKinds /\ \A kind \in AllKinds : IsObjs(cluster[kind])
        BY <1>1, ClusterFacts
    <1>3. \A kind \in AllKinds : IsState(cluster[kind], base[kind])
                                    /\ IsState(cluster[kind], server[kind])
        BY <1>1, ServerFacts DEF InformerInv, OfKind, KindInv, IsAnswers
    <1>4. /\ base' = [kind \in AllKinds |-> [n \in DOMAIN cluster[kind] |-> 0]]
          /\ fifo' = [kind \in AllKinds |-> NewDeltaFIFO(DOMAIN cluster[kind])]
          /\ known' = base' /\ told' = base'
          /\ cur' = [kind \in AllKinds |-> <<>>]
          /\ call' = [kind \in AllKinds |-> <<>>]
        <2>1. \A kind \in AllKinds : DOMAIN base[kind] = DOMAIN cluster[kind]
            BY <1>3 DEF IsState
        <2> QED
            BY <1>2, <2>1 DEF Restart
    <1>5. PICK order :
             /\ \A kind \in AllKinds : order[kind] \in
                   Orders({n \in DOMAIN cluster[kind] : server[kind][n] # 0})
             /\ wire' = [kind \in AllKinds |-> [k \in DOMAIN order[kind] |->
                   [name |-> order[kind][k], obj |-> server[kind][order[kind][k]]]]]
        BY <1>2 DEF Restart
    <1>6. ASSUME NEW kind \in AllKinds PROVE OfKind(kind)'
        <2>1. PICK z, f, w : /\ z = [n \in DOMAIN cluster[kind] |-> 0]
                             /\ f = NewDeltaFIFO(DOMAIN cluster[kind])
                             /\ w = [k \in DOMAIN order[kind] |->
                                       [name |-> order[kind][k],
                                        obj |-> server[kind][order[kind][k]]]]
            OBVIOUS
        <2>2. IsWire(cluster[kind], w) /\ \A k \in 1..Len(w) : w[k].obj # 0
            <3>1. PICK o, s, live :
                     /\ o = order[kind] /\ s = server[kind]
                     /\ live = {n \in DOMAIN cluster[kind] : server[kind][n] # 0}
                OBVIOUS
            <3>2. /\ IsObjs(cluster[kind]) /\ IsState(cluster[kind], s)
                  /\ live \in SUBSET DOMAIN cluster[kind] /\ \A n \in live : s[n] # 0
                  /\ o \in Orders(live)
                  /\ w = [k \in DOMAIN o |-> [name |-> o[k], obj |-> s[o[k]]]]
                BY <1>2, <1>3, <1>5, <2>1, <3>1
            <3> QED
                BY <3>2, ListedAgain
        <2>3. KindInv(cluster[kind], z, w, f, z, <<>>, <<>>, z)
            BY <1>2, <2>1, <2>2, KindRestart
        <2>4. /\ base'[kind] = z /\ known'[kind] = z /\ told'[kind] = z
              /\ fifo'[kind] = f /\ wire'[kind] = w
              /\ cur'[kind] = <<>> /\ call'[kind] = <<>>
            BY <1>4, <1>5, <2>1
        <2> QED
            BY <1>1, <2>3, <2>4 DEF OfKind
    <1>7. InformerInv'
        <2>1. /\ OnAllKinds(base)' /\ OnAllKinds(wire)' /\ OnAllKinds(fifo)'
              /\ OnAllKinds(known)' /\ OnAllKinds(cur)' /\ OnAllKinds(call)'
              /\ OnAllKinds(told)'
            BY <1>4, <1>5 DEF OnAllKinds
        <2> QED
            BY <1>1, <1>6, <2>1 DEF InformerInv
    <1>8. IsCache(cache)'
        <2>1. PICK s, g, d : /\ s = IF "lag" \in Trouble THEN base' ELSE server
                             /\ g = [n \in ServiceNames |-> None]
                             /\ d = [stored |-> s, ingMap |-> g]
            OBVIOUS
        <2>2. cache' = d
            BY <2>1 DEF Restart
        <2>3. s = [kind \in AllKinds |-> s[kind]]
                  /\ \A kind \in AllKinds : IsState(cluster[kind], s[kind])
            <3>1. \A kind \in AllKinds : IsState(cluster[kind], base'[kind])
                <4>1. \A kind \in AllKinds : \A n \in DOMAIN cluster[kind] :
                         0 \in 0..Len(cluster[kind][n])
                    BY <1>2 DEF IsObjs
                <4>2. \A kind \in AllKinds : base'[kind] = [n \in DOMAIN cluster[kind] |-> 0]
                    BY <1>4
                <4> QED
                    BY <4>1, <4>2 DEF IsState
            <3>2. base' = [kind \in AllKinds |-> base'[kind]]
                BY <1>4
            <3>3. server = [kind \in AllKinds |-> server[kind]]
                BY <1>2 DEF server
            <3> QED
                BY <1>3, <2>1, <3>1, <3>2, <3>3
        <2>4. g \in [ServiceNames -> {None} \cup IngressNames]
            BY <2>1
        <2>5. d.stored = s /\ d.ingMap = g
            BY <2>1
        <2>6. IsCache(d)
            BY <2>1, <2>3, <2>4, <2>5 DEF IsCache
        <2> QED
            BY <1>1, <2>2, <2>6 DEF IsCache, ServiceNames, IngressNames
    <1> QED
        BY <1>7, <1>8 DEF CacheInv

(* The stores when an object changes and they do not lag.                  *)
LEMMA StoredAtOnce ==
    ASSUME CacheInv, NEW kind \in AllKinds, NEW n \in DOMAIN cluster[kind],
           NEW v \in Versions(kind, n), cluster' = cluster,
           cache' = [cache EXCEPT !.stored[kind][n] = v]
    PROVE  IsCache(cache)'
    <1>1. v \in 0..Len(cluster[kind][n])
        BY DEF Versions
    <1>2. IsState(cluster[kind], cache.stored[kind])
        BY DEF CacheInv, IsCache
    <1>3. PICK s : s = [cache.stored[kind] EXCEPT ![n] = v]
        OBVIOUS
    <1>4. IsState(cluster[kind], s)
        BY <1>1, <1>2, <1>3 DEF IsState
    <1>5. PICK d : d = cache'
        OBVIOUS
    <1>6. d = [stored |-> [cache.stored EXCEPT ![kind] = s], ingMap |-> cache.ingMap]
        BY <1>3, <1>5 DEF CacheInv, IsCache
    <1>7. d.stored = [cache.stored EXCEPT ![kind] = s] /\ d.ingMap = cache.ingMap
        BY <1>6
    <1>8. /\ d.stored = [k \in AllKinds |-> d.stored[k]]
          /\ d.stored[kind] = s
          /\ \A k \in AllKinds \ {kind} : d.stored[k] = cache.stored[k]
        BY <1>7 DEF CacheInv, IsCache
    <1>9. \A k \in AllKinds : IsState(cluster[k], d.stored[k])
        BY <1>4, <1>8 DEF CacheInv, IsCache
    <1>10. IsCache(d)
        BY <1>6, <1>7, <1>8, <1>9 DEF CacheInv, IsCache
    <1> QED
        BY <1>5, <1>10 DEF IsCache, ServiceNames, IngressNames

LEMMA SameCache ==
    ASSUME CacheInv, UNCHANGED cacheVars
    PROVE  CacheInv'
    BY DEF cacheVars, controllerVars, informerVars, CacheInv, InformerInv, OfKind,
           OnAllKinds, IsCache, ServiceNames, IngressNames

LEMMA CallbackHandles ==
    ASSUME NEW kind, Callback(kind)
    PROVE  \E k \in DOMAIN call[kind] : Handle(kind, call[kind][k])
    BY DEF Callback, Handle, EngineAdd, EngineUpdate, EngineDelete

LEMMA WholeStep == CacheInv /\ [Next]_vars => CacheInv'
    <1> SUFFICES ASSUME CacheInv, [Next]_vars PROVE CacheInv'
        OBVIOUS
    <1>1. InformerInv /\ IsCache(cache) /\ Kinds = AllKinds
        BY ClusterFacts DEF CacheInv, InformerInv
    <1>2. ASSUME NEW kind \in AllKinds, NEW n \in DOMAIN cluster[kind],
                 NEW v \in Versions(kind, n), ChangeObject(kind, n, v)
          PROVE  CacheInv'
        <2>1. Change(kind, n, v) /\ UNCHANGED told
            BY <1>2 DEF ChangeObject
        <2>2. InformerInv' /\ cluster' = cluster
            BY <1>1, <2>1, ChangeStep DEF Change
        <2>3. IsCache(cache)'
            <3>1. CASE "lag" \in Trouble
                BY <1>1, <1>2, <2>2, <3>1 DEF ChangeObject, IsCache, ServiceNames,
                                              IngressNames
            <3>2. CASE "lag" \notin Trouble
                BY <1>2, <2>2, <3>2, StoredAtOnce DEF ChangeObject
            <3> QED
                BY <3>1, <3>2
        <2> QED
            BY <2>2, <2>3 DEF CacheInv
    <1>3. ASSUME NEW kind \in AllKinds, NEW n \in DOMAIN cluster[kind], CatchUp(kind, n)
          PROVE  CacheInv'
        <2>1. Reflect(kind, n)
            BY <1>3 DEF CatchUp
        <2>2. IsCache(cache)'
            BY <2>1, ReflectStep
        <2>3. InformerInv'
            BY <1>1, <2>1 DEF Reflect, controllerVars, informerVars, InformerInv, OfKind,
                              OnAllKinds
        <2> QED
            BY <2>2, <2>3 DEF CacheInv
    <1>4. ASSUME NEW kind \in AllKinds, Inform(kind) \/ ProcessNext(kind)
          PROVE  CacheInv'
        <2>1. UNCHANGED told /\ UNCHANGED cache
            BY <1>4 DEF Inform, ProcessNext
        <2>2. InformerInv' /\ cluster' = cluster
            <3>1. CASE Watch(kind)
                <4>1. InformerInv'
                    BY <1>1, <2>1, <3>1, WatchStep
                <4> QED
                    BY <3>1, <4>1 DEF Watch
            <3>2. ASSUME NEW missed \in 0..Len(wire[kind]), Relist(kind, missed)
                  PROVE  InformerInv' /\ cluster' = cluster
                <4>1. InformerInv'
                    BY <1>1, <2>1, <3>2, RelistStep
                <4> QED
                    BY <3>2, <4>1 DEF Relist
            <3>3. CASE Process(kind)
                <4>1. InformerInv'
                    BY <1>1, <2>1, <3>3, ProcessStep
                <4> QED
                    BY <3>3, <4>1 DEF Process
            <3>4. Len(wire[kind]) \in Nat
                BY <1>1 DEF InformerInv, OfKind, KindInv, IsWire
            <3>5. 0 \in 0..Len(wire[kind])
                BY <3>4
            <3> QED
                BY <1>4, <3>1, <3>2, <3>3, <3>5 DEF Inform, ProcessNext
        <2>3. IsCache(cache)'
            BY <1>1, <2>1, <2>2 DEF IsCache, ServiceNames, IngressNames
        <2> QED
            BY <2>2, <2>3 DEF CacheInv
    <1>5. ASSUME NEW kind \in AllKinds, Callback(kind)
          PROVE  CacheInv'
        BY <1>5, CallbackHandles, HandleStep DEF CacheInv
    <1>6. ASSUME NEW kind \in AllKinds, EngineStep(kind)
          PROVE  CacheInv'
        BY <1>6, SameCache DEF EngineStep
    <1>7. CASE Restart
        BY <1>7, RestartStep
    <1>8. CASE UNCHANGED vars
        BY <1>8, SameCache DEF vars
    <1> QED
        BY <1>1, <1>2, <1>3, <1>4, <1>5, <1>6, <1>7, <1>8 DEF Next

LEMMA WholeInductive == Spec => []CacheInv
    <1>1. Init => CacheInv
        BY CacheStarts DEF Init
    <1> QED
        BY <1>1, WholeStep, PTL DEF Spec

-----------------------------------------------------------------------------
(***************************************************************************)
(* The engine inside the whole does what it does alone.                    *)
(***************************************************************************)
LEMMA SameCommit ==
    ASSUME NEW c
    PROVE  /\ E!CommitDone(c) => Alone!CommitDone(c)
           /\ E!CommitStop(c) => Alone!CommitStop(c)
           /\ E!CommitTry(c) => Alone!CommitTry(c)
           /\ E!Return(c) => Alone!Return(c)
    BY DEF E!CommitDone, Alone!CommitDone, E!CommitStop, Alone!CommitStop,
           E!CommitTry, Alone!CommitTry, E!Return, Alone!Return,
           E!Goto, Alone!Goto, E!CommitOK, Alone!CommitOK, E!AfterCommit, Alone!AfterCommit,
           E!NoJob, Alone!NoJob, E!NewJob, Alone!NewJob

LEMMA SameUpserts ==
    ASSUME NEW c
    PROVE  /\ E!UpsertBackend(c) => Alone!UpsertBackend(c)
           /\ E!BackendsUpserted(c) => Alone!BackendsUpserted(c)
           /\ E!UpsertFrontend(c) => Alone!UpsertFrontend(c)
           /\ E!FrontendsUpserted(c) => Alone!FrontendsUpserted(c)
    <1>1. /\ E!MoreToAdd(c) <=> Alone!MoreToAdd(c)
          /\ E!Adding(c) = Alone!Adding(c)
        BY DEF E!MoreToAdd, Alone!MoreToAdd, E!Adding, Alone!Adding
    <1>2. /\ \A rsc : E!Upserted(rsc) = Alone!Upserted(rsc)
          /\ \A rsc : E!Broken(rsc) = Alone!Broken(rsc)
        BY DEF E!Upserted, Alone!Upserted, E!Broken, Alone!Broken,
               E!UpsertedBackend, Alone!UpsertedBackend,
               E!BrokenBackend, Alone!BrokenBackend, E!Held, Alone!Held
    <1>3. /\ \A next, j : E!Goto(c, next, j) <=> Alone!Goto(c, next, j)
          /\ \A error : E!FailedAttempt(c, error) <=> Alone!FailedAttempt(c, error)
          /\ E!CommitOK(c) <=> Alone!CommitOK(c)
        BY DEF E!Goto, Alone!Goto, E!FailedAttempt, Alone!FailedAttempt,
               E!CommitOK, Alone!CommitOK, E!AfterCommit, Alone!AfterCommit
    <1> QED
        BY <1>1, <1>2, <1>3
        DEF E!UpsertBackend, Alone!UpsertBackend, E!BackendsUpserted, Alone!BackendsUpserted,
            E!UpsertFrontend, Alone!UpsertFrontend,
            E!FrontendsUpserted, Alone!FrontendsUpserted

LEMMA SameDeletions ==
    ASSUME NEW c
    PROVE  /\ E!DeleteNext(c) => Alone!DeleteNext(c)
           /\ E!DeleteFrontend(c) => Alone!DeleteFrontend(c)
           /\ E!DeleteBackend(c) => Alone!DeleteBackend(c)
    BY DEF E!DeleteNext, Alone!DeleteNext, E!DeleteFrontend, Alone!DeleteFrontend,
           E!DeleteBackend, Alone!DeleteBackend, E!Deleting, Alone!Deleting,
           E!MoreToDelete, Alone!MoreToDelete, E!Removal, Alone!Removal, E!IDs, Alone!IDs,
           E!DeleteBuilds, Alone!DeleteBuilds, E!FailedAttempt, Alone!FailedAttempt,
           E!Goto, Alone!Goto, E!CommitOK, Alone!CommitOK, E!AfterCommit, Alone!AfterCommit

LEMMA SameStep ==
    ASSUME NEW c, E!Step(c)
    PROVE  Alone!Step(c)
    BY SameCommit, SameUpserts, SameDeletions DEF E!Step, Alone!Step

LEMMA SameEvents ==
    ASSUME NEW c, NEW list, NEW previous
    PROVE  /\ E!Add(c, list) => Alone!Add(c, list)
           /\ E!Delete(c, list) => Alone!Delete(c, list)
           /\ E!Update(c, list, previous) => Alone!Update(c, list, previous)
    BY DEF E!Add, Alone!Add, E!Delete, Alone!Delete, E!Update, Alone!Update,
           E!BeginAdd, Alone!BeginAdd, E!Begin, Alone!Begin, E!AddBuilds, Alone!AddBuilds,
           E!NewJob, Alone!NewJob

(* A callback gives the engine lists of resources.                         *)
LEMMA CallbackIsEvent ==
    ASSUME CacheInv, NEW kind \in AllKinds, Callback(kind)
    PROVE  Alone!Event(kind) \/ UNCHANGED engineVars
    <1>1. PICK k \in DOMAIN call[kind] :
             LET c == call[kind][k] IN
             /\ Tell(kind, c)
             /\ \/ \E answers \in Answers : \/ EngineAdd(kind, c, answers)
                                            \/ EngineDelete(kind, c, answers)
                                            \/ EngineUpdate(kind, c, answers)
                \/ DropUnknown(c) /\ UNCHANGED engineVars
        BY DEF Callback
    <1>2. PICK c : c = call[kind][k]
        OBVIOUS
    <1>3. InformerInv /\ IsCache(cache)
        BY DEF CacheInv
    <1>4. IsCall(cluster[kind], known[kind], told[kind], c)
        BY <1>1, <1>2, <1>3, TellStep
    <1>5. /\ c.name \in DOMAIN cluster[kind]
          /\ c.event \in {"add", "update"} => c.new \in 1..Len(cluster[kind][c.name])
          /\ c.event \in {"update", "delete"} => c.old \in 1..Len(cluster[kind][c.name])
        <2>1. IsState(cluster[kind], known[kind]) /\ IsObjs(cluster[kind])
            BY <1>3, ClusterFacts DEF InformerInv, OfKind, KindInv
        <2>2. /\ c.name \in DOMAIN cluster[kind]
              /\ c.new = known[kind][c.name]
              /\ c.event \in {"add", "update"} => c.new # 0
              /\ c.event \in {"update", "delete"} => c.old \in 1..Len(cluster[kind][c.name])
            BY <1>4 DEF IsCall
        <2>3. /\ Len(cluster[kind][c.name]) \in Nat
              /\ known[kind][c.name] \in 0..Len(cluster[kind][c.name])
            BY <2>1, <2>2 DEF IsState, IsObjs
        <2> QED
            BY <2>2, <2>3
    <1>6. ASSUME NEW answers \in Answers,
                 \/ EngineAdd(kind, c, answers)
                 \/ EngineDelete(kind, c, answers)
                 \/ EngineUpdate(kind, c, answers)
          PROVE  Alone!Event(kind)
        <2>1. IsAnswers(answers)
            BY <1>3, ServerFacts
        <2>2. CASE EngineAdd(kind, c, answers)
            <3>1. PICK list :
                     list = Generated(cache, kind, Object(kind, c.name, c.new), answers)
                OBVIOUS
            <3>2. c.event = "add" /\ E!Add(kind, list)
                BY <2>2, <3>1 DEF EngineAdd, HandleAdd
            <3>3. list \in Seq(Resource)
                BY <1>3, <1>5, <2>1, <3>1, <3>2, GeneratedFits
            <3>4. Alone!Add(kind, list)
                BY <3>2, SameEvents
            <3> QED
                BY <3>3, <3>4 DEF Alone!Event
        <2>3. CASE EngineDelete(kind, c, answers)
            <3>1. PICK list :
                     list = Generated(cache, kind, Object(kind, c.name, c.old), answers)
                OBVIOUS
            <3>2. c.event = "delete" /\ E!Delete(kind, list)
                BY <2>3, <3>1 DEF EngineDelete, HandleDelete
            <3>3. list \in Seq(Resource)
                BY <1>3, <1>5, <2>1, <3>1, <3>2, GeneratedFits
            <3>4. Alone!Delete(kind, list)
                BY <3>2, SameEvents
            <3> QED
                BY <3>3, <3>4 DEF Alone!Event
        <2>4. CASE EngineUpdate(kind, c, answers)
            <3>1. PICK mid : mid = Gen(cache, kind, Object(kind, c.name, c.old), answers)
                OBVIOUS
            <3>2. PICK list, previous :
                     /\ list = Generated(mid, kind, Object(kind, c.name, c.new), answers)
                     /\ previous = Generated(cache, kind, Object(kind, c.name, c.old), answers)
                OBVIOUS
            <3>3. c.event = "update" /\ E!Update(kind, list, previous)
                BY <2>4, <3>1, <3>2 DEF EngineUpdate, HandleUpdate
            <3>4. IsCache(mid)
                BY <1>3, <1>5, <2>1, <3>1, <3>3, GenFacts
            <3>5. list \in Seq(Resource)
                BY <1>3, <1>5, <2>1, <3>2, <3>3, <3>4, GeneratedFits
            <3>6. previous \in Seq(Resource)
                BY <1>3, <1>5, <2>1, <3>2, <3>3, GeneratedFits
            <3>7. Alone!Update(kind, list, previous)
                BY <3>3, SameEvents
            <3> QED
                BY <3>5, <3>6, <3>7 DEF Alone!Event
        <2> QED
            BY <1>6, <2>2, <2>3, <2>4
    <1> QED
        BY <1>1, <1>2, <1>6

(* Seen from the provider, romulus is the engine: a step of the whole is a *)
(* step of Engine, given some lists of resources, or none.                 *)
LEMMA StepOfEngine == CacheInv /\ [Next]_vars => [Alone!Next]_(Alone!vars)
    <1> SUFFICES ASSUME CacheInv, [Next]_vars, ~UNCHANGED engineVars
                 PROVE  Alone!Next
        BY DEF engineVars, Alone!vars
    <1>1. Kinds = AllKinds
        BY ClusterFacts DEF CacheInv, InformerInv
    <1>2. \/ \E kind \in AllKinds : Callback(kind) \/ EngineStep(kind)
          \/ Restart
        BY <1>1 DEF Next, vars, ChangeObject, CatchUp, Inform, ProcessNext
    <1>3. ASSUME NEW kind \in AllKinds, Callback(kind) PROVE Alone!Next
        BY <1>3, CallbackIsEvent DEF Alone!Next
    <1>4. ASSUME NEW kind \in AllKinds, EngineStep(kind) PROVE Alone!Next
        BY <1>4, SameStep DEF EngineStep, Alone!Next
    <1>5. CASE Restart
        BY <1>5 DEF Restart, E!Restart, Alone!Restart, Alone!Next, E!NoJob, Alone!NoJob,
                    E!NewJob, Alone!NewJob
    <1> QED
        BY <1>2, <1>3, <1>4, <1>5

(* The composition implements Engine: whatever the informers deliver and   *)
(* the stores hold, and with any trouble, the engine is only ever given    *)
(* lists that it can be given alone.                                       *)
THEOREM ImplementsEngine == Spec => Alone!Spec
    <1>1. Init => Alone!Init
        BY DEF Init, E!Init, Alone!Init, E!NoJob, Alone!NoJob, E!NewJob, Alone!NewJob
    <1> QED
        BY <1>1, StepOfEngine, WholeInductive, PTL DEF Spec, Alone!Spec

(* The provider's table changes as RoutingTable lets it, in the whole      *)
(* system: one entry at a time, and no frontend is put without a backend   *)
(* or outlives it.                                                         *)
THEOREM WholeImplementsTable == Spec => RefinesTable
    <1>1. Alone!Spec => Alone!RefinesTable
        BY AloneAssumptions, Alone!ImplementsTable, PTL
    <1>2. Alone!Table!TableInit => Table!TableInit
        BY DEF Alone!Table!TableInit, Table!TableInit
    <1>3. [Alone!Table!TableNext]_(Alone!Table!tableVars)
              => [Table!TableNext]_(Table!tableVars)
        BY DEF Alone!Table!TableNext, Table!TableNext,
               Alone!Table!PutBackend, Table!PutBackend,
               Alone!Table!PutFrontend, Table!PutFrontend,
               Alone!Table!DropFrontend, Table!DropFrontend,
               Alone!Table!DropBackend, Table!DropBackend,
               Alone!Table!tableVars, Table!tableVars
    <1> QED
        BY <1>1, <1>2, <1>3, ImplementsEngine, PTL
        DEF Alone!RefinesTable, RefinesTable, Alone!Table!TableSpec, Table!TableSpec

(* What the engine keeps alone it keeps in the whole: a published frontend *)
(* has its backend, Update removes only while all that is to be there is,  *)
(* and a handler that returns without an error has done its work, also     *)
(* with lists from lagging stores and after restarts.                      *)
THEOREM EngineInTheWhole ==
    Spec => [](/\ Alone!FrontendHasBackend
               /\ Alone!MakeBeforeBreak
               /\ Alone!Settled)
    <1>1. Alone!Spec => []Alone!FrontendHasBackend
        BY AloneAssumptions, Alone!NoDanglingFrontend, PTL
    <1>2. Alone!Spec => []Alone!MakeBeforeBreak
        BY AloneAssumptions, Alone!MakesBeforeItBreaks, PTL
    <1>3. Alone!Spec => []Alone!Settled
        BY AloneAssumptions, Alone!HandlersSettle, PTL
    <1> QED
        BY <1>1, <1>2, <1>3, ImplementsEngine, PTL

(* What informers and cache keep alone they keep in the whole, where the   *)
(* callbacks wait for the engine and the process is restarted: the old     *)
(* object of an event is the one the engine was told of last, and it does  *)
(* not matter whose event is handled last.                                 *)
THEOREM CacheInTheWhole ==
    Spec => [](/\ QueueMatchesItems
               /\ OldIsWhatWasTold
               /\ LastEventIrrelevant)
    BY WholeInductive, QueueConsistent, OldTold, AnyEventLast, PTL

-----------------------------------------------------------------------------
(***************************************************************************)
(* A calm environment: an object changes only when its last change has     *)
(* been handled, no event is missed and no store lags.                     *)
(*                                                                         *)
(* What waits for one object, as Awaits, but to the letter: the deltas p   *)
(* and s lead from the version k to the version x, a deletion included,    *)
(* and a deletion of unknown final state comes only after one that is      *)
(* known.                                                                  *)
(***************************************************************************)
UnknownLate(s, v) ==
    \A k \in 1..Len(s) : s[k].type = "Unknown" => k = 1 /\ v = 0

Timely(x, s, p, k) ==
    /\ UnknownLate(p, k)
    /\ UnknownLate(s, EndsAs(p, k))
    /\ x = EndsAs(s, EndsAs(p, k))

(* Nothing new waits: every delta repeats the version x.                   *)
Repeats(s, x) == \A k \in 1..Len(s) : s[k].type = "Set" /\ s[k].obj = x

LEMMA TimelySet ==
    ASSUME NEW V, NEW s \in Seq(DeltasOf(V)), NEW x, NEW p, NEW k, Timely(x, s, p, k),
           NEW v \in V, NEW r, r = dedupDeltas(Append(s, Delta("Set", v)))
    PROVE  /\ Timely(v, r, p, k)
           /\ Repeats(s, v) => Repeats(r, v)
    <1>1. PICK d : d = Delta("Set", v)
        OBVIOUS
    <1>2. d \in DeltasOf(V) /\ d.type = "Set" /\ d.obj = v
        BY <1>1 DEF Delta, DeltasOf
    <1>3. r \in Seq(DeltasOf(V)) /\ (Follows(s, d, r) \/ Merges(s, d, r))
        BY <1>1, <1>2, Dedup
    <1>4. /\ Len(s) \in Nat /\ Len(r) = Len(s) + 1 /\ r[Len(r)] = d
          /\ \A m \in 1..Len(s) : r[m] = s[m]
        BY <1>2, <1>3 DEF Follows, Merges
    <1>5. \A m \in 1..Len(r) : m \in 1..Len(s) \/ m = Len(r)
        BY <1>4
    <1>6. UnknownLate(r, EndsAs(p, k))
        BY <1>2, <1>4, <1>5 DEF Timely, UnknownLate
    <1>7. EndsAs(r, EndsAs(p, k)) = v
        BY <1>2, <1>4 DEF EndsAs
    <1>8. Repeats(s, v) => Repeats(r, v)
        BY <1>2, <1>4, <1>5 DEF Repeats
    <1> QED
        BY <1>6, <1>7, <1>8 DEF Timely

LEMMA TimelyDeleted ==
    ASSUME NEW V, NEW s \in Seq(DeltasOf(V)), NEW x \in V, NEW p, NEW k,
           Timely(x, s, p, k), Repeats(s, x),
           NEW r, r = dedupDeltas(Append(s, Delta("Deleted", x)))
    PROVE  Timely(0, r, p, k)
    <1>1. PICK d : d = Delta("Deleted", x)
        OBVIOUS
    <1>2. d \in DeltasOf(V) /\ d.type = "Deleted"
        BY <1>1 DEF Delta, DeltasOf
    <1>3. r \in Seq(DeltasOf(V)) /\ (Follows(s, d, r) \/ Merges(s, d, r))
        BY <1>1, <1>2, Dedup
    <1>4. Len(s) \in Nat /\ (Len(s) > 0 => s[Len(s)].type = "Set")
        BY DEF Repeats
    <1>5. /\ Len(r) = Len(s) + 1 /\ r[Len(r)] = d
          /\ \A m \in 1..Len(s) : r[m] = s[m]
        BY <1>2, <1>3, <1>4 DEF Follows, Merges
    <1>6. \A m \in 1..Len(r) : m \in 1..Len(s) \/ m = Len(r)
        BY <1>4, <1>5
    <1>7. UnknownLate(r, EndsAs(p, k))
        BY <1>2, <1>5, <1>6 DEF Timely, UnknownLate
    <1>8. EndsAs(r, EndsAs(p, k)) = 0
        BY <1>2, <1>4, <1>5 DEF EndsAs
    <1> QED
        BY <1>7, <1>8 DEF Timely

LEMMA TimelyUnknown ==
    ASSUME NEW V, 0 \notin V, NEW s \in Seq(DeltasOf(V)), NEW p, NEW k,
           Timely(0, s, p, k), NEW o \in V \cup {0},
           NEW r, r = dedupDeltas(Append(s, Delta("Unknown", o)))
    PROVE  Timely(0, r, p, k)
    <1>1. PICK d : d = Delta("Unknown", o)
        OBVIOUS
    <1>2. d \in DeltasOf(V) /\ d.type = "Unknown"
        BY <1>1 DEF Delta, DeltasOf
    <1>3. r \in Seq(DeltasOf(V)) /\ (Follows(s, d, r) \/ Merges(s, d, r))
        BY <1>1, <1>2, Dedup
    <1>4. PICK e : e = EndsAs(p, k)
        OBVIOUS
    <1>5. UnknownLate(s, e) /\ EndsAs(s, e) = 0 /\ Len(s) \in Nat
        BY <1>4 DEF Timely
    <1>6. CASE Len(s) = 0
        <2>1. e = 0
            BY <1>5, <1>6 DEF EndsAs
        <2>2. Len(r) = 1 /\ r[1] = d
            BY <1>3, <1>6 DEF Follows, Merges
        <2>3. UnknownLate(r, e) /\ EndsAs(r, e) = 0
            BY <1>2, <2>1, <2>2 DEF UnknownLate, EndsAs
        <2> QED
            BY <1>4, <2>3 DEF Timely
    <1>7. CASE Len(s) > 0
        <2>1. s[Len(s)] \in DeltasOf(V) /\ Len(s) \in 1..Len(s)
            BY <1>5, <1>7
        <2>2. s[Len(s)].type # "Set"
            BY <1>5, <1>7, <2>1 DEF EndsAs, DeltasOf
        <2>3. /\ Len(r) = Len(s) /\ \A m \in 1..(Len(s) - 1) : r[m] = s[m]
              /\ r[Len(r)] = IF s[Len(s)].type = "Unknown" THEN d ELSE s[Len(s)]
            BY <1>2, <1>3, <1>7, <2>2 DEF Follows, Merges
        <2>4. \A m \in 1..Len(r) : m \in 1..(Len(s) - 1) \/ m = Len(s)
            BY <1>5, <2>3
        <2>5. \A m \in 1..(Len(s) - 1) : m \in 1..Len(s)
            BY <1>5
        <2>6. UnknownLate(r, e)
            BY <1>5, <2>1, <2>3, <2>4, <2>5 DEF UnknownLate
        <2>7. EndsAs(r, e) = 0
            BY <1>2, <1>7, <2>2, <2>3 DEF EndsAs
        <2> QED
            BY <1>4, <2>6, <2>7 DEF Timely
    <1> QED
        BY <1>5, <1>6, <1>7

(* The first of the popped deltas is processed.                            *)
LEMMA TimelyProcess ==
    ASSUME NEW V, 0 \notin V, NEW p \in Seq(DeltasOf(V)), Len(p) > 0,
           NEW x, NEW s, NEW k,
           Timely(x, s, p, k), Truthful(p, k),
           NEW u, u = IF p[1].type = "Set" THEN p[1].obj ELSE 0
    PROVE  /\ Timely(x, s, Tail(p), u)
           /\ p[1].type = "Unknown" => k = 0
           /\ \A y : Repeats(p, y) => Repeats(Tail(p), y) /\ u = y
    <1>1. EndsAs(Tail(p), u) = EndsAs(p, k)
        BY TruthfulTail
    <1>2. PICK r : r = Tail(p)
        OBVIOUS
    <1>3. /\ Len(p) \in Nat /\ Len(r) \in Nat /\ 1 \in 1..Len(p)
          /\ \A m \in 1..Len(r) : m + 1 \in 1..Len(p) /\ r[m] = p[m + 1] /\ m + 1 # 1
        BY <1>2
    <1>4. UnknownLate(p, k)
        BY DEF Timely
    <1>5. UnknownLate(r, u)
        BY <1>3, <1>4 DEF UnknownLate
    <1>6. p[1].type = "Unknown" => k = 0
        BY <1>3, <1>4 DEF UnknownLate
    <1>7. \A y : Repeats(p, y) => Repeats(r, y) /\ u = y
        BY <1>3 DEF Repeats
    <1> QED
        BY <1>1, <1>2, <1>5, <1>6, <1>7 DEF Timely

(* All deltas are popped.                                                  *)
LEMMA TimelyPop ==
    ASSUME NEW x, NEW s, NEW k, Timely(x, s, <<>>, k)
    PROVE  Timely(x, <<>>, s, k)
    <1>1. EndsAs(<<>>, k) = k /\ EndsAs(<<>>, EndsAs(s, k)) = EndsAs(s, k)
        BY DEF EndsAs
    <1>2. UnknownLate(<<>>, EndsAs(s, k))
        BY DEF UnknownLate
    <1> QED
        BY <1>1, <1>2 DEF Timely

(***************************************************************************)
(* One kind of objects, with the parameters of KindInv.                    *)
(***************************************************************************)
(* The engine was told what the client state has, unless a call is due;    *)
(* what is added, or was gone before, it had not.                          *)
Informed(n, kn, ca, t) ==
    /\ ~Due(ca, n) => t[n] = kn[n]
    /\ Due(ca, n) /\ ca[1].event \in {"add", "unknown"} => t[n] = 0

Resting(n, b, f, kn, cu, t) ==
    /\ kn[n] = b[n] /\ t[n] = b[n]
    /\ Repeats(f.items[n], b[n]) /\ Repeats(Pending(cu, n), b[n])

Prompt(objs, b, w, f, kn, cu, ca, t) ==
    /\ Len(w) <= 1
    /\ \A n \in DOMAIN objs :
          /\ Timely(b[n], f.items[n], Pending(cu, n), kn[n])
          /\ Informed(n, kn, ca, t)
          /\ Len(w) = 1 => Resting(n, b, f, kn, cu, t)

LEMMA NothingWaits ==
    ASSUME NEW objs, NEW b, NEW f, NEW kn, NEW t, IsFifo(objs, f), f.queue = <<>>,
           Prompt(objs, b, <<>>, f, kn, <<>>, <<>>, t), NEW n \in DOMAIN objs
    PROVE  Resting(n, b, f, kn, <<>>, t)
    <1>1. f.items[n] = <<>> /\ Pending(<<>>, n) = <<>>
        BY DEF IsFifo, Listed, Pending
    <1>2. b[n] = EndsAs(<<>>, EndsAs(<<>>, kn[n])) /\ t[n] = kn[n]
        BY <1>1 DEF Prompt, Timely, Informed, Due
    <1> QED
        BY <1>1, <1>2 DEF Resting, EndsAs, Repeats

LEMMA PromptChange ==
    ASSUME NEW objs, NEW b, NEW f, NEW kn, NEW t, IsFifo(objs, f), f.queue = <<>>,
           Prompt(objs, b, <<>>, f, kn, <<>>, <<>>, t),
           NEW w, Len(w) = 1
    PROVE  Prompt(objs, b, w, f, kn, <<>>, <<>>, t)
    <1>1. \A n \in DOMAIN objs : Resting(n, b, f, kn, <<>>, t)
        BY NothingWaits
    <1> QED
        BY <1>1 DEF Prompt

LEMMA PromptWatch ==
    ASSUME NEW objs, IsObjs(objs), NEW b, NEW w, NEW f, NEW kn, NEW cu, NEW ca, NEW t,
           KindInv(objs, b, w, f, kn, cu, ca, t), Prompt(objs, b, w, f, kn, cu, ca, t),
           NEW n, NEW v, NEW a, NEW r, NEW g, Watched(b, w, f, kn, n, v, a, r, g)
    PROVE  /\ Prompt(objs, a, r, g, kn, cu, ca, t)
           /\ Len(w) = 1 /\ w[1].name = n /\ w[1].obj = v /\ n \in DOMAIN objs /\ r = <<>>
    <1>0. /\ w # <<>> /\ n = Head(w).name /\ v = Head(w).obj
          /\ a = [b EXCEPT ![n] = v]
          /\ r = Tail(w)
          /\ g = IF v # 0 THEN Set(f, n, v) ELSE Delete(f, kn, n, b[n])
        BY DEF Watched
    <1>1. IsState(objs, b) /\ IsState(objs, kn) /\ IsWire(objs, w) /\ IsFifo(objs, f)
        BY DEF KindInv
    <1>2. w \in Seq([name : DOMAIN objs, obj : Nat]) /\ Len(w) = 1 /\ r = <<>>
        <2>1. w \in Seq([name : DOMAIN objs, obj : Nat]) /\ Len(w) \in Nat \ {0}
            BY <1>0, <1>1 DEF IsWire
        <2>2. Len(w) <= 1
            BY DEF Prompt
        <2>3. Len(w) = 1
            <3>1. PICK l : l = Len(w)
                OBVIOUS
            <3>2. l \in Nat /\ l # 0 /\ l <= 1
                BY <2>1, <2>2, <3>1
            <3>3. l = 1
                BY <3>2
            <3> QED
                BY <3>1, <3>3
        <2>4. r \in Seq([name : DOMAIN objs, obj : Nat]) /\ Len(r) = 0
            BY <1>0, <2>1, <2>3
        <2>5. r = <<>>
            BY <2>4
        <2> QED
            BY <2>1, <2>3, <2>5
    <1>3. w[1].name = n /\ w[1].obj = v /\ n \in DOMAIN objs /\ Len(objs[n]) \in Nat
              /\ v \in 0..Len(objs[n])
        <2>1. 1 \in 1..Len(w) /\ Head(w) = w[1]
            BY <1>2
        <2>2. w[1] \in [name : DOMAIN objs, obj : Nat]
            BY <1>2, <2>1, ElementOfSeq
        <2> QED
            BY <1>0, <1>1, <2>1, <2>2 DEF IsWire, IsObjs
    <1>4. a[n] = v /\ \A m \in DOMAIN objs \ {n} : a[m] = b[m]
        BY <1>0, <1>1, <1>3 DEF IsState
    <1>5. PICK V : V = VersionsOf(objs, n)
        OBVIOUS
    <1>6. /\ f.items[n] \in Seq(DeltasOf(V))
          /\ Timely(b[n], f.items[n], Pending(cu, n), kn[n])
          /\ Resting(n, b, f, kn, cu, t)
        BY <1>2, <1>3, <1>5 DEF KindInv, Awaits, Prompt
    <1>7. /\ Timely(v, g.items[n], Pending(cu, n), kn[n])
          /\ \A m \in DOMAIN objs \ {n} : g.items[m] = f.items[m]
        <2>1. CASE v # 0
            <3>1. v \in V
                BY <1>3, <1>5, <2>1 DEF VersionsOf
            <3>2. PICK s : s = dedupDeltas(Append(f.items[n], Delta("Set", v)))
                OBVIOUS
            <3>3. Timely(v, s, Pending(cu, n), kn[n])
                BY <1>6, <3>1, <3>2, TimelySet
            <3>4. s # <<>>
                <4>1. Delta("Set", v) \in DeltasOf(V)
                    BY <3>1 DEF Delta, DeltasOf
                <4> QED
                    BY <1>6, <3>2, <4>1, Dedup
            <3>5. g = queueAction(f, n, Delta("Set", v))
                BY <1>0, <2>1 DEF Set
            <3> QED
                BY <1>1, <1>3, <3>2, <3>3, <3>4, <3>5, FifoQueue
        <2>2. CASE v = 0 /\ kn[n] = 0
            <3>1. g = f
                BY <1>0, <2>2 DEF Delete
            <3> QED
                BY <1>6, <2>2, <3>1 DEF Resting
        <2>3. CASE v = 0 /\ kn[n] # 0
            <3>1. b[n] \in V
                BY <1>1, <1>3, <1>5, <1>6, <2>3 DEF Resting, IsState, VersionsOf
            <3>2. PICK s : s = dedupDeltas(Append(f.items[n], Delta("Deleted", b[n])))
                OBVIOUS
            <3>3. Timely(0, s, Pending(cu, n), kn[n])
                BY <1>6, <3>1, <3>2, TimelyDeleted DEF Resting
            <3>4. s # <<>>
                <4>1. Delta("Deleted", b[n]) \in DeltasOf(V)
                    BY <3>1 DEF Delta, DeltasOf
                <4> QED
                    BY <1>6, <3>2, <4>1, Dedup
            <3>5. g = queueAction(f, n, Delta("Deleted", b[n]))
                BY <1>0, <2>3 DEF Delete
            <3> QED
                BY <1>1, <1>3, <2>3, <3>2, <3>3, <3>4, <3>5, FifoQueue
        <2> QED
            BY <2>1, <2>2, <2>3
    <1>8. Len(r) = 0
        BY <1>2
    <1>9. ASSUME NEW m \in DOMAIN objs
          PROVE  Timely(a[m], g.items[m], Pending(cu, m), kn[m]) /\ Informed(m, kn, ca, t)
        <2>1. CASE m = n
            BY <1>4, <1>7, <2>1 DEF Prompt
        <2>2. CASE m # n
            BY <1>4, <1>7, <2>2 DEF Prompt
        <2> QED
            BY <2>1, <2>2
    <1>10. Prompt(objs, a, r, g, kn, cu, ca, t)
        BY <1>8, <1>9 DEF Prompt
    <1> QED
        BY <1>2, <1>3, <1>10

LEMMA PromptRelist ==
    ASSUME NEW objs, IsObjs(objs), NEW b, NEW w, NEW f, NEW kn, NEW cu, NEW ca, NEW t,
           KindInv(objs, b, w, f, kn, cu, ca, t), Prompt(objs, b, w, f, kn, cu, ca, t),
           NEW o, \A n \in DOMAIN objs : o[n] \in 0..Len(objs[n]),
           NEW g \in Replaced(f, kn, o, b)
    PROVE  Prompt(objs, b, w, g, kn, cu, ca, t)
    <1>1. IsState(objs, b) /\ IsState(objs, kn) /\ IsFifo(objs, f)
        BY DEF KindInv
    <1>2. ASSUME NEW n \in DOMAIN objs
          PROVE  LET item == RelistedItem(f.items[n], kn[n], o[n], b[n]) IN
                 /\ b[n] # 0 \/ kn[n] # 0 => item # <<>>
                 /\ Timely(b[n], item, Pending(cu, n), kn[n])
                 /\ kn[n] = b[n] /\ Repeats(f.items[n], b[n]) => Repeats(item, b[n])
        <2>1. PICK V, s, x, k, q, i :
                 /\ V = VersionsOf(objs, n) /\ s = f.items[n] /\ x = b[n] /\ k = kn[n]
                 /\ q = o[n] /\ i = RelistedItem(s, k, q, x)
            OBVIOUS
        <2>2. 0 \notin V /\ (x # 0 => x \in V) /\ q \in V \cup {0}
            BY <1>1, <2>1 DEF IsState, IsObjs, VersionsOf
        <2>3. s \in Seq(DeltasOf(V)) /\ Timely(x, s, Pending(cu, n), k)
            BY <2>1 DEF KindInv, Awaits, Prompt
        <2>4. CASE x # 0
            <3>1. i = dedupDeltas(Append(s, Delta("Set", x))) /\ x \in V
                BY <2>1, <2>2, <2>4 DEF RelistedItem
            <3>2. Timely(x, i, Pending(cu, n), k) /\ (Repeats(s, x) => Repeats(i, x))
                BY <2>3, <3>1, TimelySet
            <3>3. Delta("Set", x) \in DeltasOf(V)
                BY <3>1 DEF Delta, DeltasOf
            <3>4. i # <<>>
                BY <2>3, <3>1, <3>3, Dedup
            <3> QED
                BY <2>1, <3>2, <3>4
        <2>5. CASE x = 0 /\ k # 0
            <3>1. i = dedupDeltas(Append(s, Delta("Unknown", q)))
                BY <2>1, <2>5 DEF RelistedItem
            <3>2. Timely(x, i, Pending(cu, n), k)
                BY <2>2, <2>3, <2>5, <3>1, TimelyUnknown
            <3>3. Delta("Unknown", q) \in DeltasOf(V)
                BY <2>2 DEF Delta, DeltasOf
            <3>4. i # <<>>
                BY <2>3, <3>1, <3>3, Dedup
            <3> QED
                BY <2>1, <2>5, <3>2, <3>4
        <2>6. CASE x = 0 /\ k = 0
            <3>1. i = s
                BY <2>1, <2>6 DEF RelistedItem
            <3> QED
                BY <2>1, <2>3, <2>6, <3>1
        <2> QED
            BY <2>4, <2>5, <2>6
    <1>3. DOMAIN b = DOMAIN objs /\ IsFiniteSet(DOMAIN objs)
        BY <1>1 DEF IsState, IsObjs
    <1>4. \A n \in DOMAIN objs : g.items[n] = RelistedItem(f.items[n], kn[n], o[n], b[n])
        BY <1>1, <1>2, <1>3, FifoReplace
    <1>5. ASSUME NEW n \in DOMAIN objs
          PROVE  /\ Timely(b[n], g.items[n], Pending(cu, n), kn[n])
                 /\ Informed(n, kn, ca, t)
                 /\ Len(w) = 1 => Resting(n, b, g, kn, cu, t)
        <2>1. /\ Informed(n, kn, ca, t)
              /\ Len(w) = 1 => Resting(n, b, f, kn, cu, t)
            BY DEF Prompt
        <2>2. /\ Timely(b[n], g.items[n], Pending(cu, n), kn[n])
              /\ kn[n] = b[n] /\ Repeats(f.items[n], b[n]) => Repeats(g.items[n], b[n])
            BY <1>2, <1>4
        <2> QED
            BY <2>1, <2>2 DEF Resting
    <1>6. Len(w) <= 1
        BY DEF Prompt
    <1> QED
        BY <1>5, <1>6 DEF Prompt

(* Process, up to the call: what is popped.                                *)
LEMMA PromptPop ==
    ASSUME NEW objs, NEW b, NEW w, NEW f, NEW kn, NEW cu, NEW t,
           KindInv(objs, b, w, f, kn, cu, <<>>, t), Prompt(objs, b, w, f, kn, cu, <<>>, t),
           NEW todo, NEW h, ToDo(f, cu, todo, h)
    PROVE  /\ Prompt(objs, b, w, h, kn, todo, <<>>, t)
           /\ IsCur(objs, todo) /\ Len(todo) > 0
           /\ \A m \in DOMAIN objs :
                 /\ Pending(todo, m) \in Seq(DeltasOf(VersionsOf(objs, m)))
                 /\ Truthful(Pending(todo, m), kn[m])
    <1>1. CASE cu # <<>> /\ todo = cu /\ h = f
        <2>1. IsCur(objs, cu)
            BY DEF KindInv
        <2>2. Len(cu) > 0
            BY <1>1, <2>1 DEF IsCur
        <2>3. \A m \in DOMAIN objs :
                 /\ Pending(cu, m) \in Seq(DeltasOf(VersionsOf(objs, m)))
                 /\ Truthful(Pending(cu, m), kn[m])
            BY DEF KindInv, Awaits
        <2> QED
            BY <1>1, <2>1, <2>2, <2>3
    <1>2. CASE /\ cu = <<>> /\ f.queue # <<>>
               /\ todo = Tagged(Head(f.queue), Popped(f)) /\ h = AfterPop(f)
        <2>1. PICK x : x = Head(f.queue)
            OBVIOUS
        <2>2. PICK s : s = f.items[x]
            OBVIOUS
        <2>3. /\ x \in DOMAIN objs /\ s # <<>>
              /\ h.items[x] = <<>>
              /\ \A m \in DOMAIN objs \ {x} : h.items[m] = f.items[m]
            <3>1. IsFifo(objs, f)
                BY DEF KindInv
            <3>2. IsPopped(objs, f, x, h)
                BY <1>2, <2>1, <3>1, FifoPop
            <3> QED
                BY <2>2, <3>2 DEF IsPopped
        <2>4. todo = Tagged(x, s)
            BY <1>2, <2>1, <2>2 DEF Popped
        <2>5. \A m : Pending(cu, m) = <<>>
            BY <1>2 DEF Pending
        <2>6. /\ s \in Seq(DeltasOf(VersionsOf(objs, x)))
              /\ Truthful(s, kn[x])
            <3>1. Awaits(VersionsOf(objs, x), b[x], s, <<>>, kn[x])
                BY <2>2, <2>3, <2>5 DEF KindInv
            <3>2. EndsAs(<<>>, kn[x]) = kn[x]
                BY DEF EndsAs
            <3> QED
                BY <3>1, <3>2 DEF Awaits
        <2>7. Pending(todo, x) = s /\ \A m : m # x => Pending(todo, m) = <<>>
            BY <2>4, <2>6, PendingTagged
        <2>8. ASSUME NEW m \in DOMAIN objs
              PROVE  /\ Timely(b[m], h.items[m], Pending(todo, m), kn[m])
                     /\ Repeats(f.items[m], b[m]) =>
                           Repeats(h.items[m], b[m]) /\ Repeats(Pending(todo, m), b[m])
            <3>1. Timely(b[m], f.items[m], <<>>, kn[m]) /\ Repeats(<<>>, b[m])
                BY <2>5 DEF Prompt, Repeats
            <3>2. CASE m = x
                BY <2>2, <2>3, <2>7, <3>1, <3>2, TimelyPop
            <3>3. CASE m # x
                BY <2>3, <2>7, <3>1, <3>3
            <3> QED
                BY <3>2, <3>3
        <2>9. ASSUME NEW m \in DOMAIN objs
              PROVE  /\ Informed(m, kn, <<>>, t)
                     /\ Len(w) = 1 => Resting(m, b, h, kn, todo, t)
            <3>1. Informed(m, kn, <<>>, t) /\ (Len(w) = 1 => Resting(m, b, f, kn, cu, t))
                BY DEF Prompt
            <3> QED
                BY <2>8, <3>1 DEF Resting
        <2>10. Prompt(objs, b, w, h, kn, todo, <<>>, t)
            <3>1. Len(w) <= 1
                BY DEF Prompt
            <3> QED
                BY <2>8, <2>9, <3>1 DEF Prompt
        <2>11. \A m \in DOMAIN objs :
                 /\ Pending(todo, m) \in Seq(DeltasOf(VersionsOf(objs, m)))
                 /\ Truthful(Pending(todo, m), kn[m])
            <3>1. \A m : <<>> \in Seq(DeltasOf(VersionsOf(objs, m))) /\ Truthful(<<>>, kn[m])
                BY DEF Truthful
            <3> QED
                BY <2>6, <2>7, <3>1
        <2>12. IsCur(objs, todo) /\ Len(todo) > 0
            <3>1. /\ Len(s) \in Nat /\ DOMAIN s = 1..Len(s) /\ Len(s) > 0
                  /\ \A k \in 1..Len(s) : s[k] \in DeltasOf(VersionsOf(objs, x))
                BY <2>3, <2>6
            <3>2. todo = [k \in 1..Len(s) |-> [name |-> x, delta |-> s[k]]]
                BY <2>4, <3>1 DEF Tagged
            <3>3. \A k \in 1..Len(s) : s[k] \in DeltasOf(Nat)
                BY <3>1 DEF DeltasOf, VersionsOf
            <3>4. todo \in Seq([name : DOMAIN objs, delta : DeltasOf(Nat)])
                      /\ Len(todo) = Len(s)
                BY <2>3, <3>1, <3>2, <3>3
            <3>5. \A k \in 1..Len(todo) : todo[k].name = todo[1].name
                BY <3>1, <3>2, <3>4
            <3> QED
                BY <3>1, <3>4, <3>5 DEF IsCur
        <2> QED
            BY <2>10, <2>11, <2>12
    <1> QED
        BY <1>1, <1>2 DEF ToDo

LEMMA PromptProcess ==
    ASSUME NEW objs, IsObjs(objs), NEW b, NEW w, NEW f, NEW kn, NEW cu, NEW t,
           KindInv(objs, b, w, f, kn, cu, <<>>, t), Prompt(objs, b, w, f, kn, cu, <<>>, t),
           NEW todo, NEW h, ToDo(f, cu, todo, h),
           NEW n, NEW c, NEW u, NEW r, Processed(kn, todo, n, c, u, r),
           NEW one, one = <<c>>
    PROVE  Prompt(objs, b, w, h, u, r, one, t)
    <1>1. /\ n = Head(todo).name /\ c = CallOf(kn, n, Head(todo).delta)
          /\ u = UpdateState(kn, n, c) /\ r = Tail(todo)
        BY DEF Processed
    <1>2. /\ Prompt(objs, b, w, h, kn, todo, <<>>, t)
          /\ IsCur(objs, todo) /\ Len(todo) > 0
          /\ \A m \in DOMAIN objs :
                 /\ Pending(todo, m) \in Seq(DeltasOf(VersionsOf(objs, m)))
                 /\ Truthful(Pending(todo, m), kn[m])
        BY PromptPop
    <1>3. /\ todo \in Seq([name : DOMAIN objs, delta : DeltasOf(Nat)])
          /\ Len(todo) \in Nat /\ 1 \in 1..Len(todo) /\ Head(todo) = todo[1]
        BY <1>2 DEF IsCur
    <1>4. n = todo[1].name /\ n \in DOMAIN objs
        <2>1. todo[1] \in [name : DOMAIN objs, delta : DeltasOf(Nat)]
            BY <1>3, ElementOfSeq
        <2> QED
            BY <1>1, <1>3, <2>1
    <1>5. PICK d, p, x : /\ d = todo[1].delta /\ p = Pending(todo, n)
                         /\ x = IF d.type = "Set" THEN d.obj ELSE 0
        OBVIOUS
    <1>6. Len(p) > 0 /\ p[1] = d
        BY <1>2, <1>3, <1>4, <1>5 DEF Pending
    <1>7. /\ p \in Seq(DeltasOf(VersionsOf(objs, n))) /\ Truthful(p, kn[n])
          /\ 0 \notin VersionsOf(objs, n)
          /\ Timely(b[n], h.items[n], p, kn[n])
        <2>1. 0 \notin VersionsOf(objs, n)
            BY <1>4 DEF IsObjs, VersionsOf
        <2> QED
            BY <1>2, <1>4, <1>5, <2>1 DEF Prompt
    <1>8. /\ Timely(b[n], h.items[n], Tail(p), x)
          /\ d.type = "Unknown" => kn[n] = 0
          /\ \A y : Repeats(p, y) => Repeats(Tail(p), y) /\ x = y
        BY <1>5, <1>6, <1>7, TimelyProcess
    <1>9. d.type \in {"Set", "Deleted", "Unknown"}
        <2>1. p[1] \in DeltasOf(VersionsOf(objs, n))
            BY <1>6, <1>7
        <2> QED
            BY <1>6, <2>1 DEF DeltasOf
    <1>10. /\ c.name = n /\ c.new = x
           /\ c.event = "add" => kn[n] = 0
           /\ c.event = "unknown" => kn[n] = 0
        <2>1. c = CallOf(kn, n, d)
            BY <1>1, <1>3, <1>5
        <2> QED
            BY <1>5, <1>8, <1>9, <2>1 DEF CallOf
    <1>11. u[n] = x /\ \A m \in DOMAIN objs \ {n} : u[m] = kn[m]
        <2>1. u = [kn EXCEPT ![n] = x] /\ DOMAIN kn = DOMAIN objs
            BY <1>1, <1>10 DEF UpdateState, KindInv, IsState
        <2> QED
            BY <1>4, <2>1
    <1>12. /\ Pending(r, n) = Tail(p)
           /\ \A m : m # n => Pending(r, m) = <<>> /\ Pending(todo, m) = <<>>
        <2>1. \A m : Pending(r, m) = IF m = todo[1].name THEN Tail(Pending(todo, m)) ELSE <<>>
            BY <1>1, <1>2, PendingTail
        <2>2. \A m : m # n => Pending(todo, m) = <<>>
            BY <1>4 DEF Pending
        <2> QED
            BY <1>4, <1>5, <2>1, <2>2
    <1>13. \A m \in DOMAIN objs : t[m] = kn[m]
        BY <1>2 DEF Prompt, Informed, Due
    <1>14. one[1] = c /\ Len(one) = 1
        OBVIOUS
    <1>15. ASSUME NEW m \in DOMAIN objs
           PROVE  /\ Timely(b[m], h.items[m], Pending(r, m), u[m])
                  /\ Informed(m, u, one, t)
                  /\ Len(w) = 1 => Resting(m, b, h, u, r, t)
        <2>1. /\ Timely(b[m], h.items[m], Pending(todo, m), kn[m])
              /\ Len(w) = 1 => Resting(m, b, h, kn, todo, t)
            BY <1>2 DEF Prompt
        <2>2. CASE m = n
            <3>1. Timely(b[m], h.items[m], Pending(r, m), u[m])
                BY <1>8, <1>11, <1>12, <2>2
            <3>2. Informed(m, u, one, t)
                BY <1>10, <1>13, <1>14, <2>2 DEF Informed, Due
            <3>3. Len(w) = 1 => Resting(m, b, h, u, r, t)
                BY <1>5, <1>8, <1>11, <1>12, <2>1, <2>2 DEF Resting
            <3> QED
                BY <3>1, <3>2, <3>3
        <2>3. CASE m # n
            <3>1. Timely(b[m], h.items[m], Pending(r, m), u[m])
                BY <1>11, <1>12, <2>1, <2>3
            <3>2. Informed(m, u, one, t)
                BY <1>10, <1>11, <1>13, <1>14, <2>3 DEF Informed, Due
            <3>3. Len(w) = 1 => Resting(m, b, h, u, r, t)
                BY <1>11, <1>12, <2>1, <2>3 DEF Resting
            <3> QED
                BY <3>1, <3>2, <3>3
        <2> QED
            BY <2>2, <2>3
    <1>16. Len(w) <= 1
        BY DEF Prompt
    <1> QED
        BY <1>15, <1>16 DEF Prompt

LEMMA PromptTell ==
    ASSUME NEW objs, NEW b, NEW w, NEW f, NEW kn, NEW cu, NEW ca, NEW t,
           KindInv(objs, b, w, f, kn, cu, ca, t), Prompt(objs, b, w, f, kn, cu, ca, t),
           NEW c, ca = <<c>>,
           NEW u, u = IF logCallback(c) THEN [t EXCEPT ![c.name] = c.new] ELSE t
    PROVE  /\ Prompt(objs, b, w, f, kn, cu, <<>>, u)
           /\ c.event = "add" => t[c.name] = 0
    <1>1. IsCall(objs, kn, t, c) /\ IsState(objs, t)
        BY KindTell DEF KindInv
    <1>2. /\ c.name \in DOMAIN objs /\ c.new = kn[c.name]
          /\ c.new # 0 <=> c.event \in {"add", "update"}
          /\ DOMAIN t = DOMAIN objs
        BY <1>1 DEF IsCall, IsState
    <1>3. /\ \A m \in DOMAIN objs : m # c.name => t[m] = kn[m]
          /\ c.event \in {"add", "unknown"} => t[c.name] = 0
        <2>1. ca[1] = c /\ Len(ca) = 1
            OBVIOUS
        <2> QED
            BY <1>2, <2>1 DEF Prompt, Informed, Due
    <1>4. \A m \in DOMAIN objs : u[m] = kn[m]
        <2>1. CASE logCallback(c)
            BY <1>2, <1>3, <2>1
        <2>2. CASE ~logCallback(c)
            BY <1>2, <1>3, <2>2 DEF logCallback
        <2> QED
            BY <2>1, <2>2
    <1>5. ASSUME NEW m \in DOMAIN objs
          PROVE  /\ Timely(b[m], f.items[m], Pending(cu, m), kn[m])
                 /\ Informed(m, kn, <<>>, u)
                 /\ Len(w) = 1 => Resting(m, b, f, kn, cu, u)
        <2>1. /\ Timely(b[m], f.items[m], Pending(cu, m), kn[m])
              /\ Len(w) = 1 => Resting(m, b, f, kn, cu, t)
            BY DEF Prompt
        <2>2. Informed(m, kn, <<>>, u)
            BY <1>4 DEF Informed, Due
        <2> QED
            BY <1>4, <2>1, <2>2 DEF Resting
    <1>6. Len(w) <= 1
        BY DEF Prompt
    <1> QED
        BY <1>3, <1>5, <1>6 DEF Prompt

-----------------------------------------------------------------------------
(***************************************************************************)
(* The services in a calm environment.                                     *)
(***************************************************************************)
NoTrouble == Trouble = {}

(* Calls to the provider may fail, and nothing else goes wrong.            *)
OnlyFaults == Trouble \subseteq {"fault"}

PromptService ==
    Prompt(cluster["Service"], base["Service"], wire["Service"], fifo["Service"],
           known["Service"], cur["Service"], call["Service"], told["Service"])

(* The store has what the API server has.                                  *)
StoreIsServer == cache.stored["Service"] = After(base["Service"], wire["Service"])

CalmCache == PromptService /\ StoreIsServer

LEMMA AfterNothing ==
    ASSUME NEW objs, NEW b, IsState(objs, b)
    PROVE  After(b, <<>>) = b
    <1>1. IsWire(objs, <<>>)
        BY DEF IsWire
    <1>2. PICK a : a = After(b, <<>>)
        OBVIOUS
    <1>3. IsState(objs, a) /\ \A n \in DOMAIN objs : IsAfter(a[n], b[n], <<>>, n)
        BY <1>1, <1>2, AfterFacts
    <1>4. \A n \in DOMAIN objs : a[n] = b[n]
        BY <1>3 DEF IsAfter
    <1>5. a = b
        BY <1>3, <1>4 DEF IsState
    <1> QED
        BY <1>2, <1>5

LEMMA AfterOne ==
    ASSUME NEW objs, NEW b, IsState(objs, b), NEW w, IsWire(objs, w), Len(w) = 1
    PROVE  After(b, w) = [b EXCEPT ![w[1].name] = w[1].obj]
    <1>1. PICK a : a = After(b, w)
        OBVIOUS
    <1>2. IsState(objs, a) /\ \A n \in DOMAIN objs : IsAfter(a[n], b[n], w, n)
        BY <1>1, AfterFacts
    <1>3. PICK c : c = [b EXCEPT ![w[1].name] = w[1].obj]
        OBVIOUS
    <1>4. 1..Len(w) = {1}
        OBVIOUS
    <1>5. \A n \in DOMAIN objs : a[n] = IF n = w[1].name THEN w[1].obj ELSE b[n]
        BY <1>2, <1>4 DEF IsAfter, LastOf
    <1>6. \A n \in DOMAIN objs : c[n] = IF n = w[1].name THEN w[1].obj ELSE b[n]
        BY <1>3 DEF IsState
    <1>7. DOMAIN a = DOMAIN objs /\ DOMAIN c = DOMAIN objs
        BY <1>2, <1>3 DEF IsState
    <1>8. a = [n \in DOMAIN objs |-> a[n]] /\ c = [n \in DOMAIN objs |-> c[n]]
        BY <1>2, <1>3, <1>7 DEF IsState
    <1>9. a = c
        BY <1>5, <1>6, <1>8
    <1> QED
        BY <1>1, <1>3, <1>9

(* What the engine was told, or may find in the store, is not forgotten.   *)
Remembers ==
    /\ cluster' = cluster
    /\ told'["Service"] = told["Service"]
    /\ \A m \in ServiceNames :
          \/ cache'.stored["Service"][m] = cache.stored["Service"][m]
          \/ cache.stored["Service"][m] = told["Service"][m]

Untouched ==
    /\ cluster' = cluster
    /\ base'["Service"] = base["Service"] /\ wire'["Service"] = wire["Service"]
    /\ fifo'["Service"] = fifo["Service"] /\ known'["Service"] = known["Service"]
    /\ cur'["Service"] = cur["Service"] /\ call'["Service"] = call["Service"]
    /\ told'["Service"] = told["Service"]
    /\ cache'.stored["Service"] = cache.stored["Service"]

LEMMA UntouchedStep ==
    ASSUME CalmCache, Untouched
    PROVE  CalmCache' /\ Remembers
    BY DEF CalmCache, Untouched, PromptService, StoreIsServer, Remembers

LEMMA ServiceFacts ==
    ASSUME CacheInv
    PROVE  /\ Kinds = AllKinds /\ IsObjs(cluster["Service"]) /\ OfKind("Service")
           /\ IsState(cluster["Service"], base["Service"])
           /\ IsWire(cluster["Service"], wire["Service"])
           /\ IsState(cluster["Service"], cache.stored["Service"])
           /\ IsState(cluster["Service"], told["Service"])
           /\ IsFifo(cluster["Service"], fifo["Service"])
           /\ server["Service"] = After(base["Service"], wire["Service"])
    <1>1. Kinds = AllKinds /\ IsObjs(cluster["Service"]) /\ OfKind("Service")
              /\ IsState(cluster["Service"], cache.stored["Service"])
        BY ClusterFacts DEF CacheInv, InformerInv, AllKinds, IsCache
    <1>2. server["Service"] = After(base["Service"], wire["Service"])
        BY <1>1 DEF server, AllKinds
    <1> QED
        BY <1>1, <1>2 DEF OfKind, KindInv

(* At rest the engine was told of what there is.                           *)
LEMMA DrainedTold ==
    ASSUME CacheInv, CalmCache, Drained("Service")
    PROVE  \A n \in ServiceNames :
              /\ cache.stored["Service"][n] = base["Service"][n]
              /\ told["Service"][n] = base["Service"][n]
    <1>1. PICK b, w, f, kn, cu, ca, t :
             /\ b = base["Service"] /\ w = wire["Service"] /\ f = fifo["Service"]
             /\ kn = known["Service"] /\ cu = cur["Service"] /\ ca = call["Service"]
             /\ t = told["Service"]
        OBVIOUS
    <1>2. w = <<>> /\ f.queue = <<>> /\ cu = <<>> /\ ca = <<>>
        BY <1>1 DEF Drained
    <1>3. Prompt(cluster["Service"], b, <<>>, f, kn, <<>>, <<>>, t)
              /\ IsFifo(cluster["Service"], f)
        BY <1>1, <1>2, ServiceFacts DEF CalmCache, PromptService
    <1>4. \A n \in ServiceNames : t[n] = b[n]
        <2>1. \A n \in DOMAIN cluster["Service"] : Resting(n, b, f, kn, <<>>, t)
            BY <1>2, <1>3, NothingWaits
        <2> QED
            BY <2>1 DEF Resting, ServiceNames
    <1>5. cache.stored["Service"] = b
        BY <1>1, <1>2, ServiceFacts, AfterNothing DEF CalmCache, StoreIsServer
    <1> QED
        BY <1>1, <1>4, <1>5

LEMMA CalmChange ==
    ASSUME OnlyFaults, CacheInv, CalmCache, NEW kind \in AllKinds,
           NEW n \in DOMAIN cluster[kind], NEW v \in Versions(kind, n),
           ChangeObject(kind, n, v)
    PROVE  CalmCache' /\ Remembers
    <1>1. /\ Idle(kind) /\ Change(kind, n, v) /\ UNCHANGED told
          /\ cache' = [cache EXCEPT !.stored[kind][n] = v]
        BY DEF ChangeObject, OnlyFaults
    <1>2. IsCache(cache) /\ InformerInv
        BY DEF CacheInv
    <1>3. cache'.stored = [cache.stored EXCEPT ![kind] = [@ EXCEPT ![n] = v]]
        BY <1>1, <1>2 DEF IsCache
    <1>4. PICK r : r = Append(wire[kind], [name |-> n, obj |-> v])
        OBVIOUS
    <1>5. /\ wire' = [wire EXCEPT ![kind] = r] /\ cluster' = cluster /\ base' = base
          /\ fifo' = fifo /\ known' = known /\ cur' = cur /\ call' = call
        BY <1>1, <1>4 DEF Change
    <1>6. CASE kind # "Service"
        <2>1. Untouched
            BY <1>1, <1>2, <1>3, <1>5, <1>6 DEF Untouched, InformerInv, OnAllKinds, IsCache
        <2> QED
            BY <2>1, UntouchedStep
    <1>7. CASE kind = "Service"
        <2>1. /\ wire[kind] = <<>> /\ fifo[kind].queue = <<>> /\ cur[kind] = <<>>
              /\ call[kind] = <<>>
            BY <1>1 DEF Idle, Drained
        <2>2. r = <<[name |-> n, obj |-> v]>>
            BY <1>4, <2>1
        <2>3. Len(r) = 1 /\ r[1].name = n /\ r[1].obj = v
            BY <2>2
        <2>4. wire'[kind] = r /\ cache'.stored[kind] = [cache.stored[kind] EXCEPT ![n] = v]
            BY <1>2, <1>3, <1>5 DEF InformerInv, OnAllKinds, IsCache
        <2>5. PromptService'
            <3>1. Prompt(cluster[kind], base[kind], <<>>, fifo[kind], known[kind], <<>>, <<>>,
                         told[kind])
                BY <1>7, <2>1 DEF CalmCache, PromptService
            <3>2. IsFifo(cluster[kind], fifo[kind])
                BY <1>7, ServiceFacts
            <3>3. Prompt(cluster[kind], base[kind], r, fifo[kind], known[kind], <<>>, <<>>,
                         told[kind])
                BY <2>1, <2>3, <3>1, <3>2, PromptChange
            <3> QED
                BY <1>1, <1>5, <1>7, <2>1, <2>4, <3>3 DEF PromptService
        <2>6. StoreIsServer'
            <3>1. cache.stored[kind] = base[kind] /\ IsState(cluster[kind], base[kind])
                BY <1>7, <2>1, ServiceFacts, AfterNothing DEF CalmCache, StoreIsServer
            <3>2. InformerInv'
                BY <1>1, <1>2, ChangeStep
            <3>3. IsWire(cluster[kind], r)
                BY <1>5, <2>4, <3>2 DEF InformerInv, OfKind, KindInv
            <3>4. After(base[kind], r) = [base[kind] EXCEPT ![n] = v]
                BY <2>3, <3>1, <3>3, AfterOne
            <3> QED
                BY <1>5, <1>7, <2>4, <3>1, <3>4 DEF StoreIsServer
        <2>7. Remembers
            BY <1>1, <1>5, <1>7, DrainedTold DEF Remembers, Idle
        <2> QED
            BY <2>5, <2>6, <2>7 DEF CalmCache
    <1> QED
        BY <1>6, <1>7

LEMMA CalmWatch ==
    ASSUME CacheInv, CalmCache, NEW kind \in AllKinds, Watch(kind),
           UNCHANGED told, UNCHANGED cache
    PROVE  CalmCache' /\ Remembers
    <1>1. PICK n, v, r, a, g :
             Watched(base[kind], wire[kind], fifo[kind], known[kind], n, v, a, r, g)
        BY DEF Watched, Watch
    <1>2. /\ base' = [base EXCEPT ![kind] = a] /\ wire' = [wire EXCEPT ![kind] = r]
          /\ fifo' = [fifo EXCEPT ![kind] = g] /\ cluster' = cluster
          /\ known' = known /\ cur' = cur /\ call' = call
        BY <1>1 DEF Watched, Watch, CacheInv, InformerInv, OnAllKinds
    <1>3. CASE kind # "Service"
        <2>1. Untouched
            BY <1>2, <1>3 DEF Untouched, CacheInv, InformerInv, OnAllKinds, AllKinds
        <2> QED
            BY <2>1, UntouchedStep
    <1>4. CASE kind = "Service"
        <2>1. /\ IsObjs(cluster[kind]) /\ IsState(cluster[kind], base[kind])
              /\ IsWire(cluster[kind], wire[kind])
              /\ KindInv(cluster[kind], base[kind], wire[kind], fifo[kind], known[kind],
                         cur[kind], call[kind], told[kind])
            BY <1>4, ServiceFacts DEF OfKind
        <2>2. /\ Prompt(cluster[kind], a, r, g, known[kind], cur[kind], call[kind], told[kind])
              /\ Len(wire[kind]) = 1 /\ wire[kind][1].name = n /\ wire[kind][1].obj = v
              /\ r = <<>>
            BY <1>1, <1>4, <2>1, PromptWatch DEF CalmCache, PromptService
        <2>3. base'[kind] = a /\ wire'[kind] = r /\ fifo'[kind] = g
            BY <1>2 DEF CacheInv, InformerInv, OnAllKinds
        <2>4. After(base[kind], wire[kind]) = a
            BY <1>1, <2>1, <2>2, AfterOne DEF Watched
        <2>5. IsState(cluster[kind], a)
            BY <2>1, <2>4, AfterFacts
        <2>6. After(a, r) = a
            BY <2>2, <2>5, AfterNothing
        <2>7. PromptService' /\ StoreIsServer'
            BY <1>2, <1>4, <2>2, <2>3, <2>4, <2>6
               DEF PromptService, StoreIsServer, CalmCache
        <2> QED
            BY <1>2, <2>7 DEF CalmCache, Remembers
    <1> QED
        BY <1>3, <1>4

LEMMA CalmRelist ==
    ASSUME CacheInv, CalmCache, NEW kind \in AllKinds, Relist(kind, 0),
           UNCHANGED told, UNCHANGED cache
    PROVE  CalmCache' /\ Remembers
    <1>1. PICK list, r : /\ list = After(base[kind], SubSeq(wire[kind], 1, 0))
                         /\ r = SubSeq(wire[kind], 0 + 1, Len(wire[kind]))
        OBVIOUS
    <1>2a. PICK o \in FoundLater(kind) :
              \E g \in Replaced(fifo[kind], known[kind], o, list) :
                 fifo' = [fifo EXCEPT ![kind] = g]
        BY <1>1 DEF Relist
    <1>2. PICK g \in Replaced(fifo[kind], known[kind], o, list) :
             fifo' = [fifo EXCEPT ![kind] = g]
        BY <1>2a
    <1>3. /\ base' = [base EXCEPT ![kind] = list] /\ wire' = [wire EXCEPT ![kind] = r]
          /\ cluster' = cluster /\ known' = known /\ cur' = cur /\ call' = call
        BY <1>1 DEF Relist, CacheInv, InformerInv, OnAllKinds
    <1>4. CASE kind # "Service"
        <2>1. Untouched
            BY <1>2, <1>3, <1>4 DEF Untouched, CacheInv, InformerInv, OnAllKinds, AllKinds
        <2> QED
            BY <2>1, UntouchedStep
    <1>5. CASE kind = "Service"
        <2>1. /\ IsObjs(cluster[kind]) /\ IsState(cluster[kind], base[kind])
              /\ IsWire(cluster[kind], wire[kind])
              /\ KindInv(cluster[kind], base[kind], wire[kind], fifo[kind], known[kind],
                         cur[kind], call[kind], told[kind])
            BY <1>5, ServiceFacts DEF OfKind
        <2>2. list = base[kind] /\ r = wire[kind]
            <3>1. PICK w : w = wire[kind]
                OBVIOUS
            <3>2. w \in Seq([name : DOMAIN cluster[kind], obj : Nat])
                BY <2>1, <3>1 DEF IsWire
            <3>3. SubSeq(w, 1, 0) = <<>>
                BY <3>2
            <3>4. SubSeq(w, 0 + 1, Len(w)) = w
                BY <3>2
            <3> QED
                BY <1>1, <2>1, <3>1, <3>3, <3>4, AfterNothing
        <2>3. Prompt(cluster[kind], base[kind], wire[kind], g, known[kind], cur[kind],
                     call[kind], told[kind])
            <3>1. \A n \in DOMAIN cluster[kind] : o[n] \in 0..Len(cluster[kind][n])
                BY <1>5, <2>1, ServiceFacts, FoundVersions
            <3> QED
                BY <1>2, <1>5, <2>1, <2>2, <3>1, PromptRelist DEF CalmCache, PromptService
        <2>4. base'[kind] = base[kind] /\ wire'[kind] = wire[kind] /\ fifo'[kind] = g
            BY <1>2, <1>3, <2>2 DEF CacheInv, InformerInv, OnAllKinds
        <2>5. PromptService' /\ StoreIsServer'
            BY <1>3, <1>5, <2>3, <2>4 DEF PromptService, StoreIsServer, CalmCache
        <2> QED
            BY <1>3, <2>5 DEF CalmCache, Remembers
    <1> QED
        BY <1>4, <1>5

LEMMA CalmProcess ==
    ASSUME CacheInv, CalmCache, NEW kind \in AllKinds, Process(kind),
           UNCHANGED told, UNCHANGED cache
    PROVE  CalmCache' /\ Remembers
    <1>2. cur[kind] # <<>> \/ fifo[kind].queue # <<>>
        BY DEF Process
    <1>3. PICK todo, h : ToDo(fifo[kind], cur[kind], todo, h)
        BY <1>2 DEF ToDo
    <1>4. PICK n, c, u, r : Processed(known[kind], todo, n, c, u, r)
        BY DEF Processed
    <1>5. /\ todo = IF cur[kind] # <<>> THEN cur[kind]
                    ELSE Tagged(Head(fifo[kind].queue), Popped(fifo[kind]))
          /\ h = IF cur[kind] # <<>> THEN fifo[kind] ELSE AfterPop(fifo[kind])
        BY <1>3 DEF ToDo
    <1>6. /\ fifo' = [fifo EXCEPT ![kind] = h] /\ cur' = [cur EXCEPT ![kind] = r]
          /\ call' = [call EXCEPT ![kind] = <<c>>] /\ known' = [known EXCEPT ![kind] = u]
          /\ cluster' = cluster /\ base' = base /\ wire' = wire
          /\ call[kind] = <<>>
        BY <1>4, <1>5 DEF Process, Processed
    <1>7. CASE kind # "Service"
        <2>1. Untouched
            BY <1>6, <1>7 DEF Untouched, CacheInv, InformerInv, OnAllKinds, AllKinds
        <2> QED
            BY <2>1, UntouchedStep
    <1>8. CASE kind = "Service"
        <2>1. /\ IsObjs(cluster[kind])
              /\ KindInv(cluster[kind], base[kind], wire[kind], fifo[kind], known[kind],
                         cur[kind], <<>>, told[kind])
            BY <1>6, <1>8, ServiceFacts DEF OfKind
        <2>2. Prompt(cluster[kind], base[kind], wire[kind], fifo[kind], known[kind],
                         cur[kind], <<>>, told[kind])
            BY <1>6, <1>8 DEF CalmCache, PromptService
        <2>3. Prompt(cluster[kind], base[kind], wire[kind], h, u, r, <<c>>, told[kind])
            BY <1>3, <1>4, <2>1, <2>2, PromptProcess
        <2>4. fifo'[kind] = h /\ cur'[kind] = r /\ call'[kind] = <<c>> /\ known'[kind] = u
            BY <1>6 DEF CacheInv, InformerInv, OnAllKinds
        <2>5. PromptService' /\ StoreIsServer'
            BY <1>6, <1>8, <2>3, <2>4 DEF PromptService, StoreIsServer, CalmCache
        <2> QED
            BY <1>6, <2>5 DEF CalmCache, Remembers
    <1> QED
        BY <1>7, <1>8

-----------------------------------------------------------------------------
(***************************************************************************)
(* What the lists ask for.                                                 *)
(***************************************************************************)
(* A condition on clusters: no version of a service has two ports.         *)
OnePort ==
    \A cl \in Clusters : \A n \in DOMAIN cl.Service : \A v \in 1..Len(cl.Service[n]) :
        \A j, k \in DOMAIN cl.Service[n][v].ports : j = k

Ported == UNION {PortsOf(n, server["Service"][n]) : n \in ServiceNames}

LEMMA AnswersOfServices ==
    ASSUME InformerInv, NEW answers \in Answers, NEW n \in ServiceNames
    PROVE  answers["Service"][n] \in {0, server["Service"][n]}
    <1>1. Kinds = AllKinds /\ IsState(cluster["Service"], server["Service"])
        BY ClusterFacts, ServerFacts DEF InformerInv, IsAnswers, AllKinds
    <1>2. n \in DOMAIN server["Service"]
        BY <1>1 DEF IsState, ServiceNames
    <1>3. CASE Reliable
        BY <1>3 DEF Answers
    <1>4. CASE ~Reliable
        <2>1. PICK up : answers =
                 [kind \in AllKinds |-> [m \in DOMAIN server[kind] |->
                     IF <<kind, m>> \in up THEN server[kind][m] ELSE 0]]
            BY <1>1, <1>4 DEF Answers
        <2> QED
            BY <1>2, <2>1 DEF AllKinds
    <1> QED
        BY <1>3, <1>4

(* A lookup of a service finds the version of the API server.              *)
LEMMA FoundService ==
    ASSUME InformerInv, NEW c, c.stored["Service"] = server["Service"],
           NEW answers \in Answers, NEW n \in ServiceNames
    PROVE  Found(c, "Service", n, answers) = server["Service"][n]
    BY AnswersOfServices DEF Found, ServiceNames

LEMMA FetchKeeps ==
    ASSUME InformerInv, NEW c, IsCache(c), c.stored["Service"] = server["Service"],
           NEW answers \in Answers, NEW keys
    PROVE  Fetch(c, keys, answers).stored["Service"] = server["Service"]
    <1>1. Kinds = AllKinds /\ IsState(cluster["Service"], server["Service"])
        BY ClusterFacts, ServerFacts DEF InformerInv, IsAnswers, AllKinds
    <1>2. PICK s : s = [kind \in AllKinds |-> [n \in DOMAIN c.stored[kind] |->
                    IF <<kind, n>> \in keys THEN Found(c, kind, n, answers)
                    ELSE c.stored[kind][n]]]
        OBVIOUS
    <1>3. Fetch(c, keys, answers).stored = s
        BY <1>1, <1>2 DEF Fetch, IsCache
    <1>4. s["Service"] = [n \in ServiceNames |->
                    IF <<"Service", n>> \in keys THEN Found(c, "Service", n, answers)
                    ELSE server["Service"][n]]
        BY <1>1, <1>2 DEF IsState, ServiceNames, AllKinds
    <1>5. \A n \in ServiceNames : s["Service"][n] = server["Service"][n]
        BY <1>4, FoundService
    <1>6. server["Service"] = [n \in ServiceNames |-> server["Service"][n]]
        BY <1>1 DEF IsState, ServiceNames
    <1> QED
        BY <1>3, <1>4, <1>5, <1>6

LEMMA FetchIngressKeeps ==
    ASSUME NEW c, IsCache(c), NEW answers, NEW n
    PROVE  FetchIngress(c, n, answers).stored["Service"] = c.stored["Service"]
    BY DEF FetchIngress, IsCache, AllKinds

LEMMA GenKeeps ==
    ASSUME InformerInv, NEW c, IsCache(c), c.stored["Service"] = server["Service"],
           NEW answers \in Answers, NEW kind \in AllKinds, NEW obj
    PROVE  Gen(c, kind, obj, answers).stored["Service"] = server["Service"]
    <1>1. IsAnswers(answers)
        BY ServerFacts
    <1>2. ASSUME NEW keys, NEW d, d = Fetch(c, keys, answers)
          PROVE  IsCache(d) /\ d.stored["Service"] = server["Service"]
        BY <1>1, <1>2, FetchFacts, FetchKeeps
    <1>3. CASE kind = "Ingress"
        <2>1. PICK keys, names :
                 Gen(c, kind, obj, answers) =
                    MapServiceToIngress(Fetch(c, keys, answers), names, obj.name)
            BY <1>3 DEF Gen, GenIngress
        <2>2. PICK d : d = Fetch(c, keys, answers)
            OBVIOUS
        <2>3. IsCache(d) /\ d.stored["Service"] = server["Service"]
            BY <1>2, <2>2
        <2>4. MapServiceToIngress(d, names, obj.name).stored = d.stored
            BY <2>3 DEF MapServiceToIngress, IsCache
        <2> QED
            BY <2>1, <2>2, <2>3, <2>4
    <1>4. CASE kind = "Service"
        <2>1. PICK d : d = Fetch(c, {<<"Endpoints", obj.name>>}, answers)
            OBVIOUS
        <2>2. Gen(c, kind, obj, answers) = FetchIngress(d, obj.name, answers)
            BY <1>4, <2>1 DEF Gen, GenService
        <2> QED
            BY <1>2, <2>1, <2>2, FetchIngressKeeps
    <1>5. CASE kind = "Endpoints"
        <2>1. PICK d : d = Fetch(c, {<<"Service", obj.name>>}, answers)
            OBVIOUS
        <2>2. Gen(c, kind, obj, answers) \in {c, FetchIngress(d, obj.name, answers)}
            BY <1>5, <2>1 DEF Gen, GenEndpoints
        <2> QED
            BY <1>2, <2>1, <2>2, FetchIngressKeeps
    <1> QED
        BY <1>3, <1>4, <1>5 DEF AllKinds

(* The service that a lookup finds, and its ports.                         *)
LEMMA FoundPorts ==
    ASSUME InformerInv, NEW c, IsCache(c), c.stored["Service"] = server["Service"],
           NEW answers \in Answers, NEW n, NEW svc, svc = GetService(c, n, answers),
           svc # None, NEW k \in DOMAIN svc.ports
    PROVE  n \in ServiceNames /\ GenResourceID(n, svc.ports[k]) \in Ported
    <1>1. IsAnswers(answers)
        BY ServerFacts
    <1>2. n \in ServiceNames
        BY <1>1, GetServiceFacts DEF IsVersion, ServiceNames
    <1>3. PICK v : v = server["Service"][n]
        OBVIOUS
    <1>4. v # 0 /\ svc = cluster["Service"][n][v]
        BY <1>2, <1>3, FoundService DEF GetService, Object
    <1>5. GenResourceID(n, svc.ports[k]) \in PortsOf(n, v)
        BY <1>4 DEF PortsOf
    <1> QED
        BY <1>2, <1>3, <1>5 DEF Ported

LEMMA PortId ==
    ASSUME InformerInv, NEW n, NEW svc, IsVersion("Service", n, svc), NEW en, NEW ing, NEW k
    PROVE  PortResource(svc, en, ing, k).id = GenResourceID(n, svc.ports[k])
    <1>1. svc.name = n
        BY VersionFacts DEF AllKinds
    <1> QED
        BY <1>1 DEF PortResource, NewResource

(* The positions of a sorted list of resources of ports.                   *)
LEMMA OneResource ==
    ASSUME NEW svc, \A j, k \in DOMAIN svc.ports : j = k, NEW en, NEW ing
    PROVE  \A j, k \in DOMAIN resourcesFromPorts(svc, en, ing) : j = k
    <1>1. PICK list : /\ DOMAIN list = DOMAIN svc.ports
                      /\ resourcesFromPorts(svc, en, ing) = SortByID(list)
        BY DEF resourcesFromPorts
    <1>2. DOMAIN SortByID(list) = 1..Cardinality(DOMAIN svc.ports)
        BY <1>1 DEF SortByID
    <1>3. Cardinality(DOMAIN svc.ports) \in {0, 1}
        <2>1. CASE DOMAIN svc.ports = {}
            BY <2>1, FS_EmptySet
        <2>2. ASSUME NEW x \in DOMAIN svc.ports PROVE Cardinality(DOMAIN svc.ports) = 1
            <3>1. DOMAIN svc.ports = {x}
                OBVIOUS
            <3> QED
                BY <3>1, FS_Singleton
        <2> QED
            BY <2>1, <2>2
    <1> QED
        BY <1>1, <1>2, <1>3

LEMMA BuiltIds ==
    ASSUME NEW list, NEW b, b = Built(list)
    PROVE  /\ DOMAIN b = DOMAIN list
           /\ \A k \in DOMAIN b : b[k].id = list[k].id /\ b[k].builds = "all"
    BY DEF Built

LEMMA ServiceList ==
    ASSUME InformerInv, NEW c, IsCache(c), NEW answers, IsAnswers(answers),
           NEW n \in ServiceNames, NEW v \in 1..Len(cluster["Service"][n]),
           NEW list, list = Generated(c, "Service", Object("Service", n, v), answers)
    PROVE  /\ Alone!IDs(list) = PortsOf(n, v)
           /\ OnePort => \A j, k \in DOMAIN list : j = k
    <1>1. PICK svc : svc = cluster["Service"][n][v]
        OBVIOUS
    <1>2. v # 0 /\ n \in DOMAIN cluster["Service"] /\ cluster \in Clusters
        <2>1. Len(cluster["Service"][n]) \in Nat
            BY ClusterFacts DEF InformerInv, IsObjs, ServiceNames, AllKinds
        <2> QED
            BY <2>1 DEF ServiceNames, InformerInv
    <1>3. IsVersion("Service", n, svc) /\ Object("Service", n, v) = svc
        BY <1>1, <1>2 DEF IsVersion, Object
    <1>4. PICK en, ing, l : /\ l = resourcesFromPorts(svc, en, ing)
                            /\ list = Built(l)
        BY <1>3 DEF Generated, GenResources, FromService
    <1>5. /\ DOMAIN list = DOMAIN l
          /\ \A k \in DOMAIN list : list[k].id = l[k].id
        BY <1>4, BuiltIds
    <1>6. \A r : r \in ToSet(l) <=>
                    \E k \in DOMAIN svc.ports : r = PortResource(svc, en, ing, k)
        BY <1>3, <1>4, PortsList
    <1>7. \A k \in DOMAIN svc.ports :
             PortResource(svc, en, ing, k).id = GenResourceID(n, svc.ports[k])
        BY <1>3, PortId
    <1>8. PortsOf(n, v) = {GenResourceID(n, svc.ports[k]) : k \in DOMAIN svc.ports}
        BY <1>1, <1>2 DEF PortsOf
    <1>9. ASSUME NEW id \in Alone!IDs(list) PROVE id \in PortsOf(n, v)
        <2>1. PICK k \in DOMAIN list : id = list[k].id
            BY DEF Alone!IDs
        <2>2. l[k] \in ToSet(l) /\ id = l[k].id
            BY <1>5, <2>1 DEF ToSet
        <2>3. PICK m \in DOMAIN svc.ports : l[k] = PortResource(svc, en, ing, m)
            BY <1>6, <2>2
        <2> QED
            BY <1>7, <1>8, <2>2, <2>3
    <1>10. ASSUME NEW id \in PortsOf(n, v) PROVE id \in Alone!IDs(list)
        <2>1. PICK m \in DOMAIN svc.ports : id = GenResourceID(n, svc.ports[m])
            BY <1>8
        <2>2. PortResource(svc, en, ing, m) \in ToSet(l)
            BY <1>6
        <2>3. PICK k \in DOMAIN l : PortResource(svc, en, ing, m) = l[k]
            BY <2>2 DEF ToSet
        <2> QED
            BY <1>5, <1>7, <2>1, <2>3 DEF Alone!IDs
    <1>11. ASSUME OnePort PROVE \A j, k \in DOMAIN list : j = k
        <2>1. \A j, k \in DOMAIN svc.ports : j = k
            BY <1>1, <1>2, <1>11 DEF OnePort
        <2> QED
            BY <1>4, <1>5, <2>1, OneResource
    <1> QED
        BY <1>9, <1>10, <1>11

(* What Endpoints and Ingresses ask for are ports that services have.      *)
LEMMA OtherLists ==
    ASSUME InformerInv, NEW c, IsCache(c), c.stored["Service"] = server["Service"],
           NEW answers \in Answers, NEW kind \in AllKinds, kind # "Service",
           NEW n \in DOMAIN cluster[kind], NEW v \in 1..Len(cluster[kind][n]),
           NEW list, list = Generated(c, kind, Object(kind, n, v), answers)
    PROVE  Alone!IDs(list) \subseteq Ported
    <1>1. PICK obj : obj = cluster[kind][n][v]
        OBVIOUS
    <1>2. Object(kind, n, v) = obj /\ IsVersion(kind, n, obj)
        BY <1>1, ClusterFacts DEF Object, InformerInv, IsObjs, IsVersion
    <1>3. obj.name = n /\ IsAnswers(answers)
        BY <1>2, VersionFacts, ServerFacts
    <1>4. PICK l : l = GenResources(c, kind, obj, answers)
        OBVIOUS
    <1>5. /\ DOMAIN list = DOMAIN l
          /\ \A k \in DOMAIN list : list[k].id = l[k].id
        BY <1>2, <1>4, BuiltIds DEF Generated
    <1>6. ASSUME NEW r \in ToSet(l) PROVE r.id \in Ported
        <2>1. CASE kind = "Ingress"
            <3>1. l = FromIngress(c, obj, answers) /\ IsVersion("Ingress", n, obj)
                BY <1>2, <1>4, <2>1 DEF GenResources
            <3>2. PICK k \in Usable(c, obj, answers) : r = EntryResource(c, obj, k, answers)
                BY <1>3, <3>1, IngressList
            <3>3. PICK s, svc : s = Entry(obj, k).svc /\ svc = GetService(c, s, answers)
                OBVIOUS
            <3>4. /\ IsVersion("Service", s, svc)
                  /\ \E m \in DOMAIN svc.ports : r.id = GenResourceID(s, svc.ports[m])
                BY <1>3, <3>2, <3>3, EntryFacts
            <3>5. svc # None
                BY <3>4, VersionFacts DEF AllKinds
            <3> QED
                BY <3>3, <3>4, <3>5, FoundPorts
        <2>2. CASE kind = "Endpoints"
            <3>1. PICK svc : svc = GetService(c, n, answers)
                OBVIOUS
            <3>2. svc # None
                BY <1>3, <1>4, <2>2, <3>1 DEF GenResources, FromEndpoints, ToSet
            <3>3. IsVersion("Service", n, svc)
                BY <1>3, <3>1, <3>2, GetServiceFacts
            <3>4. PICK ing : l = resourcesFromPorts(svc, obj, ing)
                BY <1>3, <1>4, <2>2, <3>1, <3>2 DEF GenResources, FromEndpoints
            <3>5. PICK k \in DOMAIN svc.ports : r = PortResource(svc, obj, ing, k)
                BY <3>3, <3>4, PortsList
            <3>6. r.id = GenResourceID(n, svc.ports[k])
                BY <3>3, <3>5, PortId
            <3> QED
                BY <3>1, <3>2, <3>6, FoundPorts
        <2> QED
            BY <2>1, <2>2 DEF AllKinds
    <1>7. \A k \in DOMAIN list : list[k].id \in Ported
        BY <1>5, <1>6 DEF ToSet
    <1> QED
        BY <1>7 DEF Alone!IDs

-----------------------------------------------------------------------------
(***************************************************************************)
(* The table in a calm environment: the engine's Orderly, for the IDs that *)
(* services ask for.                                                       *)
(***************************************************************************)
(* What a service of the stores, or one that the engine was told of, asks  *)
(* for.                                                                    *)
AskedIds == UNION {PortsOf(n, cache.stored["Service"][n])
                      \cup PortsOf(n, told["Service"][n]) : n \in ServiceNames}

OrderlyTable == Alone!Orderly(AskedIds)

CalmInv == CacheInv /\ Alone!IndInv /\ CalmCache /\ OrderlyTable

LEMMA SamePorts ==
    ASSUME cluster' = cluster
    PROVE  /\ ServiceNames' = ServiceNames
           /\ \A id : id \in AskedIds' <=>
                 \E n \in ServiceNames : \/ id \in PortsOf(n, cache'.stored["Service"][n])
                                         \/ id \in PortsOf(n, told'["Service"][n])
    <1>1. ServiceNames' = ServiceNames
        BY DEF ServiceNames
    <1>2. AskedIds' = UNION {PortsOf(n, cache'.stored["Service"][n])
                      \cup PortsOf(n, told'["Service"][n]) : n \in ServiceNames}
        BY <1>1 DEF AskedIds, PortsOf
    <1> QED
        BY <1>1, <1>2

LEMMA AskedFacts ==
    \A id : id \in AskedIds <=>
       \E n \in ServiceNames : \/ id \in PortsOf(n, cache.stored["Service"][n])
                               \/ id \in PortsOf(n, told["Service"][n])
    BY DEF AskedIds

LEMMA StillAsked ==
    ASSUME Remembers
    PROVE  AskedIds \subseteq AskedIds'
    BY SamePorts, AskedFacts DEF Remembers

(* A step of the informers.                                                *)
LEMMA EngineWaits ==
    ASSUME OrderlyTable, Remembers, UNCHANGED engineVars
    PROVE  OrderlyTable'
    <1>1. PICK A, C : A = AskedIds /\ C = AskedIds'
        OBVIOUS
    <1>2. Alone!Orderly(A)
        BY <1>1 DEF OrderlyTable
    <1>3. A \subseteq C
        BY <1>1, StillAsked
    <1>4. Alone!Orderly(C)
        BY <1>2, <1>3, AloneAssumptions, Alone!OrderlyGrows
    <1> QED
        BY <1>1, <1>4 DEF OrderlyTable, Alone!Orderly, engineVars

(* A step of a handler.                                                    *)
LEMMA EngineWorks ==
    ASSUME NoTrouble, MaxAttempts # 0, Alone!IndInv, OrderlyTable,
           NEW kind \in AllKinds, EngineStep(kind)
    PROVE  OrderlyTable'
    <1>1. Alone!Step(kind) /\ Untroubled(kind) /\ UNCHANGED cacheVars
        BY SameStep DEF EngineStep, NoTrouble
    <1>2. PICK A : A = AskedIds
        OBVIOUS
    <1>3. Alone!Orderly(A)
        BY <1>2 DEF OrderlyTable
    <1>4. /\ job'[kind].err # "fault"
          /\ job'[kind].outcome = "timeout" => job[kind].tries = MaxAttempts
        BY <1>1 DEF Untroubled
    <1>5. Alone!Orderly(A)'
        BY <1>1, <1>3, <1>4, AloneAssumptions, Alone!StepOrderly
    <1>6. cluster' = cluster /\ cache' = cache /\ told' = told
        BY <1>1 DEF cacheVars, controllerVars, informerVars
    <1>7. A = AskedIds'
        BY <1>2, <1>6, SamePorts, AskedFacts
    <1> QED
        BY <1>5, <1>7 DEF OrderlyTable, Alone!Orderly

-----------------------------------------------------------------------------
(***************************************************************************)
(* A callback.                                                             *)
(***************************************************************************)
LEMMA ListOf ==
    ASSUME InformerInv, NEW c, IsCache(c), c.stored["Service"] = server["Service"],
           NEW answers \in Answers, NEW kind \in AllKinds,
           NEW n \in DOMAIN cluster[kind], NEW v \in 1..Len(cluster[kind][n]),
           NEW list, list = Generated(c, kind, Object(kind, n, v), answers)
    PROVE  /\ list \in Seq(Resource)
           /\ \A k \in DOMAIN list : list[k].builds = "all"
           /\ kind = "Service" => /\ Alone!IDs(list) = PortsOf(n, v)
                                  /\ OnePort => \A j, k \in DOMAIN list : j = k
           /\ kind # "Service" => Alone!IDs(list) \subseteq Ported
    <1>1. IsAnswers(answers)
        BY ServerFacts
    <1>2. list \in Seq(Resource)
        BY <1>1, GeneratedFits
    <1>3. \A k \in DOMAIN list : list[k].builds = "all"
        BY BuiltIds DEF Generated
    <1>4. CASE kind = "Service"
        <2>1. n \in ServiceNames
            BY <1>4 DEF ServiceNames
        <2> QED
            BY <1>1, <1>2, <1>3, <1>4, <2>1, ServiceList
    <1>5. CASE kind # "Service"
        BY <1>2, <1>3, <1>5, OtherLists
    <1> QED
        BY <1>4, <1>5

(* GenResources leaves the services in the stores alone.                   *)
LEMMA HandledStore ==
    ASSUME CacheInv, CalmCache, NEW kind \in AllKinds, NEW answers \in Answers,
           NEW c, c.name \in DOMAIN cluster[kind],
           c.event \in {"update", "delete"} => c.old \in 1..Len(cluster[kind][c.name]),
           \/ HandleAdd(kind, c, answers)
           \/ HandleUpdate(kind, c, answers)
           \/ HandleDelete(kind, c, answers)
    PROVE  cache'.stored["Service"] = cache.stored["Service"]
    <1>1. /\ InformerInv /\ IsCache(cache) /\ IsAnswers(answers)
          /\ cache.stored["Service"] = server["Service"]
        BY ServerFacts, ServiceFacts DEF CacheInv, CalmCache, StoreIsServer
    <1>2. CASE HandleAdd(kind, c, answers)
        BY <1>1, <1>2, GenKeeps DEF HandleAdd
    <1>3. ASSUME c.event \in {"update", "delete"},
                 NEW mid, mid = Gen(cache, kind, Object(kind, c.name, c.old), answers)
          PROVE  IsCache(mid) /\ mid.stored["Service"] = server["Service"]
        BY <1>1, <1>3, GenFacts, GenKeeps
    <1>4. PICK mid : mid = Gen(cache, kind, Object(kind, c.name, c.old), answers)
        OBVIOUS
    <1>5. CASE HandleUpdate(kind, c, answers)
        <2>1. /\ IsCache(mid) /\ mid.stored["Service"] = server["Service"]
              /\ cache' = Gen(mid, kind, Object(kind, c.name, c.new), answers)
            BY <1>3, <1>4, <1>5 DEF HandleUpdate
        <2> QED
            BY <1>1, <2>1, GenKeeps
    <1>6. CASE HandleDelete(kind, c, answers)
        <2>1. IsCache(mid) /\ mid.stored["Service"] = server["Service"]
            BY <1>3, <1>4, <1>6 DEF HandleDelete
        <2>2. ServiceDeleted(mid, c.name).stored = mid.stored
            BY <2>1 DEF ServiceDeleted, IsCache
        <2> QED
            BY <1>1, <1>4, <1>6, <2>1, <2>2 DEF HandleDelete
    <1> QED
        BY <1>2, <1>5, <1>6

LEMMA CalmTell ==
    ASSUME CacheInv, CalmCache, NEW kind \in AllKinds, NEW c, Tell(kind, c),
           cache'.stored["Service"] = cache.stored["Service"]
    PROVE  /\ CalmCache' /\ cluster' = cluster
           /\ kind # "Service" => Remembers
           /\ kind = "Service" =>
                 /\ c.event = "unknown" => Remembers
                 /\ c.event = "add" => told["Service"][c.name] = 0
                 /\ c.event # "unknown" =>
                       told'["Service"] = [told["Service"] EXCEPT ![c.name] = c.new]
    <1>1. PICK u : u = IF logCallback(c) THEN [told[kind] EXCEPT ![c.name] = c.new]
                       ELSE told[kind]
        OBVIOUS
    <1>2. InformerInv
        BY DEF CacheInv
    <1>3. /\ call' = [call EXCEPT ![kind] = <<>>] /\ told' = [told EXCEPT ![kind] = u]
          /\ cluster' = cluster /\ base' = base /\ wire' = wire /\ fifo' = fifo
          /\ known' = known /\ cur' = cur /\ call[kind] = <<c>>
        BY <1>1, <1>2 DEF Tell, Called, InformerInv, OnAllKinds
    <1>4. CASE kind # "Service"
        <2>1. Untouched
            BY <1>2, <1>3, <1>4 DEF Untouched, InformerInv, OnAllKinds, AllKinds
        <2> QED
            BY <1>3, <1>4, <2>1, UntouchedStep
    <1>5. CASE kind = "Service"
        <2>1. call'[kind] = <<>> /\ told'[kind] = u
            BY <1>2, <1>3 DEF InformerInv, OnAllKinds
        <2>2. KindInv(cluster[kind], base[kind], wire[kind], fifo[kind], known[kind],
                      cur[kind], call[kind], told[kind])
            BY <1>5, ServiceFacts DEF OfKind
        <2>3. Prompt(cluster[kind], base[kind], wire[kind], fifo[kind], known[kind],
                     cur[kind], call[kind], told[kind])
            BY <1>5 DEF CalmCache, PromptService
        <2>4. /\ Prompt(cluster[kind], base[kind], wire[kind], fifo[kind], known[kind],
                        cur[kind], <<>>, u)
              /\ c.event = "add" => told[kind][c.name] = 0
            BY <1>1, <1>3, <2>2, <2>3, PromptTell
        <2>5. PromptService' /\ StoreIsServer'
            BY <1>3, <1>5, <2>1, <2>4 DEF PromptService, StoreIsServer, CalmCache
        <2>6. c.event = "unknown" => Remembers
            BY <1>1, <1>3, <1>5, <2>1 DEF Remembers, logCallback
        <2> QED
            BY <1>1, <1>3, <1>5, <2>1, <2>4, <2>5, <2>6 DEF CalmCache, logCallback
    <1> QED
        BY <1>4, <1>5

LEMMA HandlerBegins ==
    ASSUME Alone!IndInv, OrderlyTable, NEW kind \in AllKinds,
           NEW op, NEW stage \in {"add", "delete"}, NEW adds, NEW old \in Seq(Resource),
           NEW j, j = Alone!NewJob(op, stage, adds, old),
           NEW p, p = IF stage = "add" THEN "commit" ELSE "delete",
           Alone!Begin(kind, j, p),
           NEW C, C = AskedIds', Alone!Removes(j, C),
           AskedIds \subseteq C \cup Alone!IDs(old)
    PROVE  OrderlyTable'
    <1>1. PICK A : A = AskedIds
        OBVIOUS
    <1>2. Alone!Orderly(A) /\ A \subseteq C \cup Alone!IDs(old)
        BY <1>1 DEF OrderlyTable
    <1>3. old \in Seq(Alone!Resource)
        BY DEF Resource, Alone!Resource
    <1>4. Alone!Orderly(C)'
        BY <1>2, <1>3, AloneAssumptions, Alone!BeginOrderly
    <1> QED
        BY <1>4 DEF OrderlyTable, Alone!Orderly

LEMMA NoIDs == Alone!IDs(<<>>) = {} /\ \A n : PortsOf(n, 0) = {}
    BY DEF Alone!IDs, PortsOf

(* A handler is given what replaces what the engine was told of, and the   *)
(* ports of that to remove.                                                *)
Replaces(kind, n, x, y, adds, old) ==
    /\ \A k \in DOMAIN old : old[k].builds = "all"
    /\ kind # "Service" => Alone!IDs(adds) \subseteq Ported /\ Alone!IDs(old) \subseteq Ported
    /\ kind = "Service" => /\ n \in ServiceNames
                           /\ Alone!IDs(adds) = PortsOf(n, x)
                           /\ Alone!IDs(old) = PortsOf(n, y)
                           /\ \A k, m \in DOMAIN old : k = m

(* The engine is told that an object is x now, it was told y before.       *)
Tells(kind, n, x, y) ==
    /\ cluster' = cluster
    /\ cache'.stored["Service"] = cache.stored["Service"]
    /\ kind # "Service" => Remembers
    /\ kind = "Service" => /\ told["Service"][n] = y
                           /\ told'["Service"] = [told["Service"] EXCEPT ![n] = x]

LEMMA PortedAsked ==
    ASSUME CacheInv, CalmCache
    PROVE  Ported \subseteq AskedIds
    <1>1. cache.stored["Service"] = server["Service"]
        BY ServiceFacts DEF CalmCache, StoreIsServer
    <1> QED
        BY <1>1, AskedFacts DEF Ported

LEMMA WorkRemoves ==
    ASSUME CacheInv, CalmCache, NEW kind \in AllKinds, NEW n, NEW x, NEW y,
           NEW adds, NEW old, Replaces(kind, n, x, y, adds, old), Tells(kind, n, x, y),
           NEW op, NEW stage, NEW j, j = Alone!NewJob(op, stage, adds, old),
           NEW C, C = AskedIds'
    PROVE  /\ Alone!Removes(j, C) /\ AskedIds \subseteq C \cup Alone!IDs(old)
           /\ kind = "Service" => told'["Service"][n] = x
    <1>1. j.adds = adds /\ j.old = old
        BY DEF Alone!NewJob
    <1>2. CASE kind # "Service"
        <2>1. AskedIds \subseteq C
            BY <1>2, StillAsked DEF Tells
        <2>2. Alone!IDs(adds) \subseteq C /\ Alone!IDs(old) \subseteq C
            BY <1>2, <2>1, PortedAsked DEF Replaces
        <2> QED
            BY <1>1, <1>2, <2>1, <2>2 DEF Alone!Removes, Replaces
    <1>3. CASE kind = "Service"
        <2>1. PICK t, u, s : /\ t = told["Service"] /\ u = told'["Service"]
                             /\ s = cache.stored["Service"]
            OBVIOUS
        <2>2. /\ DOMAIN t = ServiceNames /\ n \in ServiceNames /\ cluster' = cluster
            BY <1>3, <2>1, ServiceFacts DEF IsState, ServiceNames, Replaces, Tells
        <2>3. u = [t EXCEPT ![n] = x] /\ t[n] = y /\ cache'.stored["Service"] = s
            BY <1>3, <2>1 DEF Tells
        <2>4. u[n] = x /\ \A m \in ServiceNames \ {n} : u[m] = t[m]
            BY <2>2, <2>3
        <2>5. \A id : id \in C <=> \E m \in ServiceNames : \/ id \in PortsOf(m, s[m])
                                                           \/ id \in PortsOf(m, u[m])
            BY <2>1, <2>2, <2>3, SamePorts
        <2>6. \A id : id \in AskedIds <=> \E m \in ServiceNames : \/ id \in PortsOf(m, s[m])
                                                                  \/ id \in PortsOf(m, t[m])
            BY <2>1, AskedFacts
        <2>7. Alone!IDs(adds) = PortsOf(n, x) /\ Alone!IDs(old) = PortsOf(n, y)
            BY <1>3 DEF Replaces
        <2>8. Alone!IDs(adds) \subseteq C
            BY <2>2, <2>4, <2>5, <2>7
        <2>9. AskedIds \subseteq C \cup Alone!IDs(old)
            BY <2>2, <2>3, <2>4, <2>5, <2>6, <2>7
        <2> QED
            BY <1>1, <1>3, <2>1, <2>4, <2>8, <2>9 DEF Alone!Removes, Replaces
    <1> QED
        BY <1>2, <1>3

LEMMA HandlerWorks ==
    ASSUME CacheInv, CalmCache, Alone!IndInv, OrderlyTable,
           NEW kind \in AllKinds, NEW n, NEW x, NEW y,
           NEW adds, NEW old \in Seq(Resource),
           Replaces(kind, n, x, y, adds, old), Tells(kind, n, x, y),
           NEW op, NEW stage \in {"add", "delete"},
           NEW j, j = Alone!NewJob(op, stage, adds, old),
           NEW p, p = IF stage = "add" THEN "commit" ELSE "delete",
           Alone!Begin(kind, j, p)
    PROVE  OrderlyTable'
    <1>1. PICK C : C = AskedIds'
        OBVIOUS
    <1>2. /\ Alone!Removes(j, C) /\ AskedIds \subseteq C \cup Alone!IDs(old)
          /\ kind = "Service" => told'["Service"][n] = x
        BY <1>1, WorkRemoves
    <1> QED
        BY <1>1, <1>2, HandlerBegins

LEMMA CalmCallback ==
    ASSUME OnePort, CacheInv, CalmCache, Alone!IndInv, OrderlyTable,
           NEW kind \in AllKinds, Callback(kind)
    PROVE  CalmCache' /\ OrderlyTable'
    <1>1. PICK k \in DOMAIN call[kind] :
             LET c == call[kind][k] IN
             /\ Tell(kind, c)
             /\ \/ \E answers \in Answers : \/ EngineAdd(kind, c, answers)
                                            \/ EngineDelete(kind, c, answers)
                                            \/ EngineUpdate(kind, c, answers)
                \/ DropUnknown(c) /\ UNCHANGED engineVars
        BY DEF Callback
    <1>2. PICK c : c = call[kind][k]
        OBVIOUS
    <1>3. /\ InformerInv /\ IsCache(cache) /\ Tell(kind, c)
          /\ cache.stored["Service"] = server["Service"]
        BY <1>1, <1>2, ServiceFacts DEF CacheInv, CalmCache, StoreIsServer
    <1>4. IsCall(cluster[kind], known[kind], told[kind], c)
        BY <1>3, TellStep
    <1>5. PICK n, x, y : n = c.name /\ x = c.new /\ y = IF c.event = "add" THEN 0 ELSE c.old
        OBVIOUS
    <1>6. /\ n \in DOMAIN cluster[kind]
          /\ c.event \in {"add", "update"} => x \in 1..Len(cluster[kind][n])
          /\ c.event \in {"update", "delete"} => y \in 1..Len(cluster[kind][n])
          /\ c.event \in {"update", "delete"} => y = told[kind][n] /\ y = c.old
          /\ c.event = "delete" => x = 0
        <2>1. IsState(cluster[kind], known[kind]) /\ IsObjs(cluster[kind])
            BY <1>3, ClusterFacts DEF InformerInv, OfKind, KindInv
        <2>2. /\ n \in DOMAIN cluster[kind]
              /\ x = known[kind][n]
              /\ c.event \in {"add", "update"} => x # 0
              /\ c.event = "delete" => x = 0
              /\ c.event \in {"update", "delete"} => y \in 1..Len(cluster[kind][n])
              /\ c.event \in {"update", "delete"} => y = told[kind][n] /\ y = c.old
            BY <1>4, <1>5 DEF IsCall
        <2>3. /\ Len(cluster[kind][n]) \in Nat
              /\ known[kind][n] \in 0..Len(cluster[kind][n])
            BY <2>1, <2>2 DEF IsState, IsObjs
        <2> QED
            BY <2>2, <2>3
    <1>7. ASSUME NEW answers \in Answers,
                 \/ EngineAdd(kind, c, answers)
                 \/ EngineDelete(kind, c, answers)
                 \/ EngineUpdate(kind, c, answers)
          PROVE  CalmCache' /\ OrderlyTable'
        <2>1. /\ \/ HandleAdd(kind, c, answers)
                 \/ HandleUpdate(kind, c, answers)
                 \/ HandleDelete(kind, c, answers)
              /\ c.event \in {"add", "update", "delete"}
            BY <1>7 DEF EngineAdd, EngineDelete, EngineUpdate, HandleAdd, HandleUpdate,
                        HandleDelete
        <2>2. cache'.stored["Service"] = cache.stored["Service"]
            BY <1>4, <1>5, <1>6, <2>1, HandledStore
        <2>3. CalmCache' /\ Tells(kind, n, x, y)
            <3>1. /\ CalmCache' /\ cluster' = cluster
                  /\ kind # "Service" => Remembers
                  /\ kind = "Service" =>
                        /\ c.event = "add" => told["Service"][c.name] = 0
                        /\ told'["Service"] = [told["Service"] EXCEPT ![c.name] = c.new]
                BY <1>3, <2>1, <2>2, CalmTell
            <3> QED
                BY <1>5, <1>6, <2>1, <2>2, <3>1 DEF Tells
        <2>4. \A d :
                 IsCache(d) /\ d.stored["Service"] = server["Service"] /\ c.event # "delete" =>
                 LET list == Generated(d, kind, Object(kind, n, x), answers) IN
                 /\ list \in Seq(Resource)
                 /\ \A m \in DOMAIN list : list[m].builds = "all"
                 /\ kind = "Service" => Alone!IDs(list) = PortsOf(n, x)
                 /\ kind # "Service" => Alone!IDs(list) \subseteq Ported
            BY <1>3, <1>6, <2>1, ListOf
        <2>5. c.event # "add" =>
                 LET list == Generated(cache, kind, Object(kind, n, y), answers) IN
                 /\ list \in Seq(Resource)
                 /\ \A m \in DOMAIN list : list[m].builds = "all"
                 /\ kind = "Service" => /\ Alone!IDs(list) = PortsOf(n, y)
                                        /\ \A h, m \in DOMAIN list : h = m
                 /\ kind # "Service" => Alone!IDs(list) \subseteq Ported
            BY <1>3, <1>6, <2>1, ListOf
        <2>6. kind = "Service" => n \in ServiceNames
            BY <1>6 DEF ServiceNames
        <2>7. <<>> \in Seq(Resource) /\ DOMAIN <<>> = {} /\ Alone!IDs(<<>>) = {}
                 /\ \A m : PortsOf(m, 0) = {}
            BY NoIDs
        <2>8. CASE EngineAdd(kind, c, answers)
            <3>1. PICK list, j :
                     /\ list = Generated(cache, kind, Object(kind, n, x), answers)
                     /\ j = Alone!NewJob("Add", "add", list, <<>>)
                OBVIOUS
            <3>2. c.event = "add" /\ E!Add(kind, list)
                BY <1>5, <2>8, <3>1 DEF EngineAdd, HandleAdd
            <3>3. /\ \A m \in DOMAIN list : list[m].builds = "all"
                  /\ kind = "Service" => Alone!IDs(list) = PortsOf(n, x)
                  /\ kind # "Service" => Alone!IDs(list) \subseteq Ported
                BY <1>3, <2>4, <3>1, <3>2
            <3>4. Replaces(kind, n, x, y, list, <<>>)
                BY <1>5, <2>6, <2>7, <3>2, <3>3 DEF Replaces
            <3>5. Alone!Add(kind, list) /\ j.adds = list
                BY <3>1, <3>2, SameEvents DEF Alone!NewJob
            <3>6. Alone!Begin(kind, j, "commit")
                BY <3>1, <3>3, <3>5 DEF Alone!Add, Alone!BeginAdd, Alone!AddBuilds
            <3> QED
                BY <2>3, <2>7, <3>1, <3>4, <3>6, HandlerWorks
        <2>9. CASE EngineDelete(kind, c, answers)
            <3>1. PICK list, j :
                     /\ list = Generated(cache, kind, Object(kind, n, y), answers)
                     /\ j = Alone!NewJob("Delete", "delete", <<>>, list)
                OBVIOUS
            <3>2. c.event = "delete" /\ E!Delete(kind, list)
                BY <1>5, <2>9, <3>1 DEF EngineDelete, HandleDelete
            <3>3. /\ list \in Seq(Resource)
                  /\ \A m \in DOMAIN list : list[m].builds = "all"
                  /\ kind = "Service" => /\ Alone!IDs(list) = PortsOf(n, y)
                                         /\ \A h, m \in DOMAIN list : h = m
                  /\ kind # "Service" => Alone!IDs(list) \subseteq Ported
                BY <2>5, <3>1, <3>2
            <3>4. Replaces(kind, n, x, y, <<>>, list)
                BY <1>6, <2>6, <2>7, <3>2, <3>3 DEF Replaces
            <3>5. Alone!Begin(kind, j, "delete")
                BY <3>1, <3>2, SameEvents DEF Alone!Delete
            <3> QED
                BY <2>3, <3>1, <3>3, <3>4, <3>5, HandlerWorks
        <2>10. CASE EngineUpdate(kind, c, answers)
            <3>1. PICK mid : mid = Gen(cache, kind, Object(kind, n, y), answers)
                OBVIOUS
            <3>2. PICK list, previous, j :
                     /\ list = Generated(mid, kind, Object(kind, n, x), answers)
                     /\ previous = Generated(cache, kind, Object(kind, n, y), answers)
                     /\ j = Alone!NewJob("Update", "add", list, previous)
                OBVIOUS
            <3>3. c.event = "update" /\ E!Update(kind, list, previous)
                BY <1>5, <2>10, <3>1, <3>2 DEF EngineUpdate, HandleUpdate
            <3>4. IsCache(mid) /\ mid.stored["Service"] = server["Service"]
                BY <1>3, <1>6, <3>1, <3>3, ServerFacts, GenFacts, GenKeeps
            <3>5. /\ \A m \in DOMAIN list : list[m].builds = "all"
                  /\ kind = "Service" => Alone!IDs(list) = PortsOf(n, x)
                  /\ kind # "Service" => Alone!IDs(list) \subseteq Ported
                BY <2>4, <3>2, <3>3, <3>4
            <3>6. /\ previous \in Seq(Resource)
                  /\ \A m \in DOMAIN previous : previous[m].builds = "all"
                  /\ kind = "Service" => /\ Alone!IDs(previous) = PortsOf(n, y)
                                         /\ \A h, m \in DOMAIN previous : h = m
                  /\ kind # "Service" => Alone!IDs(previous) \subseteq Ported
                BY <2>5, <3>2, <3>3
            <3>7. Replaces(kind, n, x, y, list, previous)
                BY <2>6, <3>5, <3>6 DEF Replaces
            <3>8. Alone!Update(kind, list, previous) /\ j.adds = list
                BY <3>2, <3>3, SameEvents DEF Alone!NewJob
            <3>9. Alone!Begin(kind, j, "commit")
                BY <3>2, <3>5, <3>8 DEF Alone!Update, Alone!BeginAdd, Alone!AddBuilds
            <3> QED
                BY <2>3, <3>2, <3>6, <3>7, <3>9, HandlerWorks
        <2> QED
            BY <1>7, <2>8, <2>9, <2>10
    <1>8. CASE DropUnknown(c) /\ UNCHANGED engineVars
        <2>1. c.event = "unknown" /\ cache' = cache
            BY <1>8 DEF DropUnknown, logCallback
        <2>2. CalmCache' /\ Remembers
            BY <1>3, <2>1, CalmTell
        <2> QED
            BY <1>8, <2>2, EngineWaits
    <1> QED
        BY <1>1, <1>2, <1>7, <1>8

-----------------------------------------------------------------------------
(***************************************************************************)
(* The steps together.                                                     *)
(***************************************************************************)
LEMMA CalmReflect ==
    ASSUME CacheInv, CalmCache, NEW kind \in AllKinds, NEW n \in DOMAIN cluster[kind],
           CatchUp(kind, n)
    PROVE  CalmCache' /\ Remembers
    <1>1. /\ cache.stored[kind][n] # server[kind][n]
          /\ cache' = [cache EXCEPT !.stored[kind][n] = server[kind][n]]
          /\ UNCHANGED controllerVars
        BY DEF CatchUp, Reflect
    <1>2. kind # "Service"
        BY <1>1, ServiceFacts DEF CalmCache, StoreIsServer
    <1>3. cache'.stored["Service"] = cache.stored["Service"]
        BY <1>1, <1>2 DEF CacheInv, IsCache, AllKinds
    <1>4. Untouched
        BY <1>1, <1>3 DEF Untouched, controllerVars, informerVars
    <1> QED
        BY <1>4, UntouchedStep

LEMMA CalmStep ==
    ASSUME NoTrouble, OnePort, MaxAttempts # 0, CalmInv, [Next]_vars
    PROVE  CalmCache' /\ OrderlyTable'
    <1>1. /\ CacheInv /\ Alone!IndInv /\ CalmCache /\ OrderlyTable
          /\ Kinds = AllKinds
        BY ServiceFacts DEF CalmInv
    <1>2. ASSUME CalmCache' /\ Remembers, UNCHANGED engineVars
          PROVE  CalmCache' /\ OrderlyTable'
        BY <1>1, <1>2, EngineWaits
    <1>3. ASSUME NEW kind \in AllKinds, NEW n \in DOMAIN cluster[kind],
                 NEW v \in Versions(kind, n), ChangeObject(kind, n, v)
          PROVE  CalmCache' /\ OrderlyTable'
        BY <1>1, <1>2, <1>3, CalmChange DEF ChangeObject, NoTrouble, OnlyFaults
    <1>4. ASSUME NEW kind \in AllKinds, NEW n \in DOMAIN cluster[kind], CatchUp(kind, n)
          PROVE  CalmCache' /\ OrderlyTable'
        BY <1>1, <1>2, <1>4, CalmReflect DEF CatchUp
    <1>5. ASSUME NEW kind \in AllKinds, Inform(kind)
          PROVE  CalmCache' /\ OrderlyTable'
        <2>1. /\ Watch(kind) \/ Relist(kind, 0)
              /\ UNCHANGED told /\ UNCHANGED cache /\ UNCHANGED engineVars
            BY <1>5 DEF Inform, NoTrouble
        <2> QED
            BY <1>1, <1>2, <2>1, CalmWatch, CalmRelist
    <1>6. ASSUME NEW kind \in AllKinds, ProcessNext(kind)
          PROVE  CalmCache' /\ OrderlyTable'
        <2>1. Process(kind) /\ UNCHANGED told /\ UNCHANGED cache /\ UNCHANGED engineVars
            BY <1>6 DEF ProcessNext
        <2> QED
            BY <1>1, <1>2, <2>1, CalmProcess
    <1>7. ASSUME NEW kind \in AllKinds, Callback(kind)
          PROVE  CalmCache' /\ OrderlyTable'
        BY <1>1, <1>7, CalmCallback
    <1>8. ASSUME NEW kind \in AllKinds, EngineStep(kind)
          PROVE  CalmCache' /\ OrderlyTable'
        <2>1. Untouched
            BY <1>8 DEF EngineStep, Untouched, cacheVars, controllerVars, informerVars
        <2> QED
            BY <1>1, <1>8, <2>1, EngineWorks, UntouchedStep
    <1>9. CASE UNCHANGED vars
        <2>1. Untouched /\ UNCHANGED engineVars
            BY <1>9 DEF vars, Untouched, cacheVars, controllerVars, informerVars
        <2> QED
            BY <1>1, <1>2, <2>1, UntouchedStep
    <1>10. ~Restart
        BY DEF Restart, NoTrouble
    <1> QED
        BY <1>1, <1>3, <1>4, <1>5, <1>6, <1>7, <1>8, <1>9, <1>10 DEF Next

LEMMA CalmInductive ==
    NoTrouble /\ OnePort /\ MaxAttempts # 0 /\ CalmInv /\ [Next]_vars => CalmInv'
    <1> SUFFICES ASSUME NoTrouble, OnePort, MaxAttempts # 0, CalmInv, [Next]_vars
                 PROVE  CalmInv'
        OBVIOUS
    <1>1. CalmCache' /\ OrderlyTable'
        BY CalmStep
    <1>2. CacheInv /\ Alone!IndInv
        BY DEF CalmInv
    <1>3. CacheInv'
        BY <1>2, WholeStep
    <1>4. Alone!IndInv'
        BY <1>2, StepOfEngine, AloneAssumptions, Alone!NextIndInv
    <1> QED
        BY <1>1, <1>3, <1>4 DEF CalmInv

LEMMA CalmStart == Init => CalmInv
    <1> SUFFICES ASSUME Init PROVE CalmInv
        OBVIOUS
    <1>1. CacheInv
        BY CacheStarts DEF Init
    <1>2. Alone!Init
        BY DEF Init, E!Init, Alone!Init, E!NoJob, Alone!NoJob, E!NewJob, Alone!NewJob
    <1>3. Alone!IndInv
        BY <1>2, AloneAssumptions, Alone!InitIndInv
    <1>4. Kinds = AllKinds /\ IsObjs(cluster["Service"])
        BY <1>1, ServiceFacts
    <1>5. PICK z : z = [n \in DOMAIN cluster["Service"] |-> 0]
        OBVIOUS
    <1>6. /\ base["Service"] = z /\ known["Service"] = z /\ told["Service"] = z
          /\ wire["Service"] = <<>> /\ cur["Service"] = <<>> /\ call["Service"] = <<>>
          /\ fifo["Service"] = NewDeltaFIFO(DOMAIN cluster["Service"])
          /\ cache.stored["Service"] = z
        BY <1>4, <1>5 DEF Init, CacheInit, ControllersInit, InformerInit, AllKinds
    <1>7. PromptService
        <2>1. PICK f : f = NewDeltaFIFO(DOMAIN cluster["Service"])
            OBVIOUS
        <2>2. \A n \in DOMAIN cluster["Service"] :
                 f.items[n] = <<>> /\ Pending(<<>>, n) = <<>> /\ z[n] = 0
            BY <1>5, <2>1 DEF NewDeltaFIFO, Pending
        <2>3. /\ Len(<<>>) = 0
              /\ \A n \in DOMAIN cluster["Service"] :
                    /\ Timely(z[n], f.items[n], Pending(<<>>, n), z[n])
                    /\ Informed(n, z, <<>>, z)
            BY <2>2 DEF Timely, UnknownLate, EndsAs, Informed, Due
        <2>4. Prompt(cluster["Service"], z, <<>>, f, z, <<>>, <<>>, z)
            BY <2>3 DEF Prompt
        <2> QED
            BY <1>6, <2>1, <2>4 DEF PromptService
    <1>8. StoreIsServer
        BY <1>1, <1>6, ServiceFacts, AfterNothing DEF StoreIsServer
    <1>9. OrderlyTable
        BY <1>2 DEF OrderlyTable, Alone!Orderly, Alone!Init
    <1> QED
        BY <1>1, <1>3, <1>7, <1>8, <1>9 DEF CalmInv, CalmCache

-----------------------------------------------------------------------------
(***************************************************************************)
(* What the invariant says at rest.                                        *)
(***************************************************************************)
LEMMA PortWanted ==
    ASSUME CacheInv, NEW n \in ServiceNames, NEW id \in PortsOf(n, server["Service"][n])
    PROVE  \E r \in Wanted : r.id = id
    <1>1. InformerInv /\ IsCache(cache) /\ "Service" \in AllKinds /\ Kinds = AllKinds
        BY ServiceFacts DEF CacheInv, AllKinds
    <1>2. PICK v, svc : v = server["Service"][n] /\ svc = Object("Service", n, v)
        OBVIOUS
    <1>3. v # 0 /\ svc = cluster["Service"][n][v]
        BY <1>2 DEF PortsOf, Object
    <1>4. PICK k \in DOMAIN svc.ports : id = GenResourceID(n, svc.ports[k])
        BY <1>2, <1>3 DEF PortsOf
    <1>5. IsVersion("Service", n, svc)
        <2>1. IsState(cluster["Service"], server["Service"]) /\ IsObjs(cluster["Service"])
            BY <1>1, ServerFacts, ServiceFacts DEF IsAnswers
        <2>2. v \in 0..Len(cluster["Service"][n]) /\ Len(cluster["Service"][n]) \in Nat
                 /\ n \in DOMAIN cluster["Service"]
            BY <1>2, <2>1 DEF IsState, IsObjs, ServiceNames
        <2> QED
            BY <1>3, <2>2 DEF IsVersion
    <1>6. PICK now : now = [cache EXCEPT !.stored = server]
        OBVIOUS
    <1>7. PICK en, ing, r :
              /\ FromService(now, svc, server) = resourcesFromPorts(svc, en, ing)
              /\ r = PortResource(svc, en, ing, k)
        BY DEF FromService
    <1>8. r.id = id
        BY <1>1, <1>4, <1>5, <1>7, PortId
    <1>9. r \in ToSet(FromService(now, svc, server))
        BY <1>1, <1>5, <1>7, PortsList
    <1>10. r \in Wanted
        BY <1>2, <1>3, <1>6, <1>9 DEF Wanted
    <1> QED
        BY <1>8, <1>10

LEMMA CalmRest ==
    ASSUME CalmInv
    PROVE  NoGhost
    <1> SUFFICES ASSUME AtRest, NEW id \in Ids, frontends[id] # None \/ backends[id] # None
                 PROVE  \E r \in Wanted : r.id = id
        BY DEF NoGhost
    <1>1. /\ CacheInv /\ Alone!IndInv /\ CalmCache
          /\ OrderlyTable /\ "Service" \in AllKinds /\ Kinds = AllKinds
        BY ServiceFacts DEF CalmInv, AllKinds
    <1>2. \A kind \in AllKinds : pc[kind] = "idle" /\ Drained(kind)
        BY <1>1 DEF AtRest, Idle
    <1>3. PICK A : A = AskedIds
        OBVIOUS
    <1>4. Alone!Orderly(A)
        BY <1>1, <1>3 DEF OrderlyTable
    <1>5. lock = None
        BY <1>1, <1>2, <1>4
           DEF Alone!Orderly, Alone!Steady, Alone!Calls, Alone!IndInv, Alone!TypeOK
    <1>6. id \in AskedIds
        BY <1>1, <1>3, <1>4, <1>5 DEF Alone!Orderly, Alone!IndInv, Alone!FrontendHasBackend
    <1>7. PICK n \in ServiceNames : id \in PortsOf(n, cache.stored["Service"][n])
        BY <1>1, <1>2, <1>6, AskedFacts, DrainedTold
    <1>8. id \in PortsOf(n, server["Service"][n])
        BY <1>7 DEF AtRest
    <1> QED
        BY <1>1, <1>8, PortWanted

LEMMA CalmInvariance ==
    ASSUME NoTrouble, OnePort, MaxAttempts # 0
    PROVE  Spec => []CalmInv
    <1>1. CalmInv /\ [Next]_vars => CalmInv'
        BY CalmInductive
    <1> QED
        BY <1>1, CalmStart, PTL DEF Spec

(* With no trouble around romulus (the stores have a change before any     *)
(* event tells of it, no event is lost, calls to the provider succeed), at *)
(* most one port per service and at least one attempt per Commit, nothing  *)
(* of a service that is gone, or of a port that was renamed, is in the     *)
(* table at rest: every ID that the engine published for an Ingress or     *)
(* Endpoints is in the list that the change or the deletion of its service *)
(* is given.  With two ports it is not so (romulus_ports).                 *)
THEOREM CalmLeavesNoGhost ==
    ASSUME NoTrouble, OnePort, MaxAttempts # 0
    PROVE  Spec => []NoGhost
    <1>1. CalmInv => NoGhost
        BY CalmRest
    <1> QED
        BY <1>1, CalmInvariance, PTL

-----------------------------------------------------------------------------
(***************************************************************************)
(* What stays in the table, with the history variables of Leftovers.       *)
(*                                                                         *)
(* What a handler is given, with any trouble.                              *)
(***************************************************************************)
LEMMA PortInPortIds ==
    ASSUME InformerInv, NEW n, NEW svc, IsVersion("Service", n, svc), NEW k \in DOMAIN svc.ports
    PROVE  GenResourceID(n, svc.ports[k]) \in PortIds(cluster)
    BY PortFacts

LEMMA AnyListIds ==
    ASSUME InformerInv, NEW c, IsCache(c), NEW answers, IsAnswers(answers),
           NEW kind \in AllKinds, NEW n \in DOMAIN cluster[kind],
           NEW v \in 1..Len(cluster[kind][n]),
           NEW list, list = Generated(c, kind, Object(kind, n, v), answers)
    PROVE  Alone!IDs(list) \subseteq PortIds(cluster)
    <1>1. PICK obj : obj = cluster[kind][n][v]
        OBVIOUS
    <1>2. Object(kind, n, v) = obj /\ IsVersion(kind, n, obj)
        BY <1>1, ClusterFacts DEF Object, InformerInv, IsObjs, IsVersion
    <1>3. obj.name = n
        BY <1>2, VersionFacts
    <1>4. PICK l : l = GenResources(c, kind, obj, answers)
        OBVIOUS
    <1>5. /\ DOMAIN list = DOMAIN l
          /\ \A k \in DOMAIN list : list[k].id = l[k].id
        BY <1>2, <1>4, BuiltIds DEF Generated
    <1>6. ASSUME NEW r \in ToSet(l) PROVE r.id \in PortIds(cluster)
        <2>1. ASSUME NEW s, NEW svc, IsVersion("Service", s, svc), NEW en, NEW ing,
                     l = resourcesFromPorts(svc, en, ing)
              PROVE  r.id \in PortIds(cluster)
            <3>1. PICK k \in DOMAIN svc.ports : r = PortResource(svc, en, ing, k)
                BY <2>1, PortsList
            <3>2. r.id = GenResourceID(s, svc.ports[k])
                BY <2>1, <3>1, PortId
            <3> QED
                BY <2>1, <3>2, PortInPortIds
        <2>2. CASE kind = "Ingress"
            <3>1. l = FromIngress(c, obj, answers) /\ IsVersion("Ingress", n, obj)
                BY <1>2, <1>4, <2>2 DEF GenResources
            <3>2. PICK k \in Usable(c, obj, answers) : r = EntryResource(c, obj, k, answers)
                BY <3>1, IngressList
            <3>3. PICK s, svc : s = Entry(obj, k).svc /\ svc = GetService(c, s, answers)
                OBVIOUS
            <3>4. /\ IsVersion("Service", s, svc)
                  /\ \E m \in DOMAIN svc.ports : r.id = GenResourceID(s, svc.ports[m])
                BY <3>2, <3>3, EntryFacts
            <3> QED
                BY <3>4, PortInPortIds
        <2>3. CASE kind = "Service"
            <3>1. PICK en, ing : l = resourcesFromPorts(obj, en, ing)
                BY <1>4, <2>3 DEF GenResources, FromService
            <3> QED
                BY <1>2, <2>1, <2>3, <3>1
        <2>4. CASE kind = "Endpoints"
            <3>1. PICK svc : svc = GetService(c, n, answers)
                OBVIOUS
            <3>2. svc # None
                BY <1>3, <1>4, <2>4, <3>1 DEF GenResources, FromEndpoints, ToSet
            <3>3. IsVersion("Service", n, svc)
                BY <3>1, <3>2, GetServiceFacts
            <3>4. PICK ing : l = resourcesFromPorts(svc, obj, ing)
                BY <1>3, <1>4, <2>4, <3>1, <3>2 DEF GenResources, FromEndpoints
            <3> QED
                BY <2>1, <3>3, <3>4
        <2> QED
            BY <2>2, <2>3, <2>4 DEF AllKinds
    <1>7. \A k \in DOMAIN list : list[k].id \in PortIds(cluster)
        BY <1>5, <1>6 DEF ToSet
    <1> QED
        BY <1>7 DEF Alone!IDs

(* A list for the version v of an object.                                  *)
Lists(kind, n, v, list) ==
    /\ list \in Seq(Resource)
    /\ \A k \in DOMAIN list : list[k].builds = "all"
    /\ Alone!IDs(list) \subseteq PortIds(cluster)
    /\ kind = "Service" => Alone!IDs(list) = PortsOf(n, v)
    /\ CalmCache /\ kind # "Service" => Alone!IDs(list) \subseteq Ported

LEMMA ListsFor ==
    ASSUME CacheInv, NEW c, IsCache(c),
           CalmCache => c.stored["Service"] = server["Service"],
           NEW answers \in Answers, NEW kind \in AllKinds,
           NEW n \in DOMAIN cluster[kind], NEW v \in 1..Len(cluster[kind][n]),
           NEW list, list = Generated(c, kind, Object(kind, n, v), answers)
    PROVE  Lists(kind, n, v, list)
    <1>1. InformerInv /\ IsAnswers(answers)
        BY ServerFacts DEF CacheInv
    <1>2. list \in Seq(Resource) /\ Alone!IDs(list) \subseteq PortIds(cluster)
        BY <1>1, GeneratedFits, AnyListIds
    <1>3. \A k \in DOMAIN list : list[k].builds = "all"
        BY BuiltIds DEF Generated
    <1>4. ASSUME kind = "Service" PROVE Alone!IDs(list) = PortsOf(n, v)
        <2>1. n \in ServiceNames /\ v \in 1..Len(cluster["Service"][n])
            BY <1>4 DEF ServiceNames
        <2> QED
            BY <1>1, <1>4, <2>1, ServiceList
    <1>5. ASSUME CalmCache, kind # "Service" PROVE Alone!IDs(list) \subseteq Ported
        BY <1>1, <1>5, OtherLists
    <1> QED
        BY <1>2, <1>3, <1>4, <1>5 DEF Lists

LEMMA ListsNothing ==
    ASSUME NEW kind, NEW n
    PROVE  Lists(kind, n, 0, <<>>)
    <1>1. <<>> \in Seq(Resource) /\ DOMAIN <<>> = {}
        OBVIOUS
    <1>2. Alone!IDs(<<>>) = {} /\ PortsOf(n, 0) = {}
        BY NoIDs DEF PortsOf
    <1> QED
        BY <1>1, <1>2 DEF Lists

(* A handler begins: it is given the lists adds and old for c.             *)
Handles(kind, c, adds, old, j) ==
    /\ call[kind] = <<c>> /\ Tell(kind, c) /\ cluster' = cluster
    /\ c.name \in DOMAIN cluster[kind] /\ c.event \in {"add", "update", "delete"}
    /\ told' = [told EXCEPT ![kind] = [told[kind] EXCEPT ![c.name] = c.new]]
    /\ c.event # "add" => c.old = told[kind][c.name]
    /\ Lists(kind, c.name, c.new, adds)
    /\ old \in Seq(Resource)
    /\ c.event # "add" => Lists(kind, c.name, c.old, old)
    /\ CalmCache => cache'.stored["Service"] = cache.stored["Service"]
    /\ j.adds = adds /\ j.old = old /\ j.i = 1
    /\ \E p : p # "idle" /\ Alone!Begin(kind, j, p)

(* The callback refuses its object.                                        *)
Dropped(kind) ==
    /\ \E c : Tell(kind, c) /\ c.event = "unknown"
    /\ UNCHANGED engineVars /\ told' = told /\ cluster' = cluster /\ cache' = cache

LEMMA CallbackBegins ==
    ASSUME CacheInv, NEW kind \in AllKinds, Callback(kind)
    PROVE  \/ \E b, adds, old, j : Handles(kind, b, adds, old, j)
           \/ Dropped(kind)
    <1>1. PICK k \in DOMAIN call[kind] :
             LET c == call[kind][k] IN
             /\ Tell(kind, c)
             /\ \/ \E answers \in Answers : \/ EngineAdd(kind, c, answers)
                                            \/ EngineDelete(kind, c, answers)
                                            \/ EngineUpdate(kind, c, answers)
                \/ DropUnknown(c) /\ UNCHANGED engineVars
        BY DEF Callback
    <1>2. PICK c : c = call[kind][k]
        OBVIOUS
    <1>3. InformerInv /\ IsCache(cache) /\ Tell(kind, c)
        BY <1>1, <1>2 DEF CacheInv
    <1>4. IsCall(cluster[kind], known[kind], told[kind], c)
        BY <1>3, TellStep
    <1>5. /\ c.name \in DOMAIN cluster[kind]
          /\ c.event \in {"add", "update"} => c.new \in 1..Len(cluster[kind][c.name])
          /\ c.event \in {"update", "delete"} => /\ c.old \in 1..Len(cluster[kind][c.name])
                                                 /\ c.old = told[kind][c.name]
          /\ c.event = "delete" => c.new = 0
        <2>1. IsState(cluster[kind], known[kind]) /\ IsObjs(cluster[kind])
            BY <1>3, ClusterFacts DEF InformerInv, OfKind, KindInv
        <2>2. /\ c.name \in DOMAIN cluster[kind]
              /\ c.new = known[kind][c.name]
              /\ c.event \in {"add", "update"} => c.new # 0
              /\ c.event = "delete" => c.new = 0
              /\ c.event \in {"update", "delete"} => /\ c.old \in 1..Len(cluster[kind][c.name])
                                                     /\ c.old = told[kind][c.name]
            BY <1>4 DEF IsCall
        <2>3. /\ Len(cluster[kind][c.name]) \in Nat
              /\ known[kind][c.name] \in 0..Len(cluster[kind][c.name])
            BY <2>1, <2>2 DEF IsState, IsObjs
        <2> QED
            BY <2>2, <2>3
    <1>6. /\ cluster' = cluster /\ call[kind] = <<c>>
          /\ told' = IF logCallback(c) THEN [told EXCEPT ![kind][c.name] = c.new] ELSE told
        BY <1>3 DEF Tell, Called, InformerInv, OnAllKinds
    <1>7. CalmCache => cache.stored["Service"] = server["Service"]
        BY ServiceFacts DEF CalmCache, StoreIsServer
    <1>8. ASSUME NEW answers \in Answers,
                 \/ EngineAdd(kind, c, answers)
                 \/ EngineDelete(kind, c, answers)
                 \/ EngineUpdate(kind, c, answers)
          PROVE  \E adds, old, j : Handles(kind, c, adds, old, j)
        <2>1. /\ \/ HandleAdd(kind, c, answers)
                 \/ HandleUpdate(kind, c, answers)
                 \/ HandleDelete(kind, c, answers)
              /\ c.event \in {"add", "update", "delete"}
            BY <1>8 DEF EngineAdd, EngineDelete, EngineUpdate, HandleAdd, HandleUpdate,
                        HandleDelete
        <2>2. CalmCache => cache'.stored["Service"] = cache.stored["Service"]
            BY <1>5, <2>1, HandledStore
        <2>3. told' = [told EXCEPT ![kind] = [told[kind] EXCEPT ![c.name] = c.new]]
            BY <1>6, <2>1 DEF logCallback
        <2>4. ASSUME NEW adds, NEW old \in Seq(Resource), NEW j, NEW p, p # "idle",
                     Lists(kind, c.name, c.new, adds),
                     c.event # "add" => Lists(kind, c.name, c.old, old),
                     j.adds = adds, j.old = old, j.i = 1, Alone!Begin(kind, j, p)
              PROVE  \E a, o, i : Handles(kind, c, a, o, i)
            <3>1. Handles(kind, c, adds, old, j)
                BY <1>3, <1>5, <1>6, <2>1, <2>2, <2>3, <2>4 DEF Handles
            <3> QED
                BY <3>1
        <2>5. CASE EngineAdd(kind, c, answers)
            <3>1. PICK list, j :
                     /\ list = Generated(cache, kind, Object(kind, c.name, c.new), answers)
                     /\ j = Alone!NewJob("Add", "add", list, <<>>)
                OBVIOUS
            <3>2. c.event = "add" /\ E!Add(kind, list)
                BY <2>5, <3>1 DEF EngineAdd, HandleAdd
            <3>3. Lists(kind, c.name, c.new, list)
                BY <1>3, <1>5, <1>7, <3>1, <3>2, ListsFor
            <3>4. Alone!Add(kind, list) /\ j.adds = list /\ j.old = <<>> /\ j.i = 1
                BY <3>1, <3>2, SameEvents DEF Alone!NewJob
            <3>5. Alone!Begin(kind, j, "commit")
                BY <3>1, <3>3, <3>4 DEF Alone!Add, Alone!BeginAdd, Alone!AddBuilds, Lists
            <3>6. <<>> \in Seq(Resource)
                OBVIOUS
            <3> QED
                BY <2>4, <3>2, <3>3, <3>4, <3>5, <3>6
        <2>6. CASE EngineDelete(kind, c, answers)
            <3>1. PICK list, j :
                     /\ list = Generated(cache, kind, Object(kind, c.name, c.old), answers)
                     /\ j = Alone!NewJob("Delete", "delete", <<>>, list)
                OBVIOUS
            <3>2. c.event = "delete" /\ E!Delete(kind, list)
                BY <2>6, <3>1 DEF EngineDelete, HandleDelete
            <3>3. Lists(kind, c.name, c.old, list)
                BY <1>3, <1>5, <1>7, <3>1, <3>2, ListsFor
            <3>4. Alone!Begin(kind, j, "delete") /\ j.adds = <<>> /\ j.old = list /\ j.i = 1
                BY <3>1, <3>2, SameEvents DEF Alone!Delete, Alone!NewJob
            <3>5. Lists(kind, c.name, c.new, <<>>)
                BY <1>5, <3>2, ListsNothing
            <3>6. list \in Seq(Resource)
                BY <3>3 DEF Lists
            <3> QED
                BY <2>4, <3>3, <3>4, <3>5, <3>6
        <2>7. CASE EngineUpdate(kind, c, answers)
            <3>1. PICK mid : mid = Gen(cache, kind, Object(kind, c.name, c.old), answers)
                OBVIOUS
            <3>2. PICK list, previous, j :
                     /\ list = Generated(mid, kind, Object(kind, c.name, c.new), answers)
                     /\ previous = Generated(cache, kind, Object(kind, c.name, c.old), answers)
                     /\ j = Alone!NewJob("Update", "add", list, previous)
                OBVIOUS
            <3>3. c.event = "update" /\ E!Update(kind, list, previous)
                BY <2>7, <3>1, <3>2 DEF EngineUpdate, HandleUpdate
            <3>4. /\ IsCache(mid)
                  /\ CalmCache => mid.stored["Service"] = server["Service"]
                BY <1>3, <1>5, <1>7, <3>1, <3>3, ServerFacts, GenFacts, GenKeeps
            <3>5. Lists(kind, c.name, c.new, list)
                BY <1>3, <1>5, <3>2, <3>3, <3>4, ListsFor
            <3>6. Lists(kind, c.name, c.old, previous)
                BY <1>3, <1>5, <1>7, <3>2, <3>3, ListsFor
            <3>7. Alone!Update(kind, list, previous) /\ j.adds = list /\ j.old = previous
                      /\ j.i = 1
                BY <3>2, <3>3, SameEvents DEF Alone!NewJob
            <3>8. Alone!Begin(kind, j, "commit")
                BY <3>2, <3>5, <3>7 DEF Alone!Update, Alone!BeginAdd, Alone!AddBuilds, Lists
            <3>9. previous \in Seq(Resource)
                BY <3>6 DEF Lists
            <3> QED
                BY <2>4, <3>5, <3>6, <3>7, <3>8, <3>9
        <2> QED
            BY <1>8, <2>5, <2>6, <2>7
    <1>9. ASSUME DropUnknown(c), UNCHANGED engineVars
          PROVE  Dropped(kind)
        <2>1. told' = told /\ cache' = cache /\ c.event = "unknown"
            BY <1>6, <1>9 DEF DropUnknown, logCallback
        <2> QED
            BY <1>3, <1>6, <1>9, <2>1 DEF Dropped
    <1>10. CASE DropUnknown(c) /\ UNCHANGED engineVars
        BY <1>9, <1>10
    <1>11. CASE \E answers \in Answers : \/ EngineAdd(kind, c, answers)
                                         \/ EngineDelete(kind, c, answers)
                                         \/ EngineUpdate(kind, c, answers)
        <2>1. PICK answers \in Answers : \/ EngineAdd(kind, c, answers)
                                         \/ EngineDelete(kind, c, answers)
                                         \/ EngineUpdate(kind, c, answers)
            BY <1>11
        <2>2. \E adds, old, j : Handles(kind, c, adds, old, j)
            BY <1>8, <2>1
        <2> QED
            BY <2>2
    <1> QED
        BY <1>1, <1>2, <1>10, <1>11

-----------------------------------------------------------------------------
(***************************************************************************)
(* Where the entries of the table come from.                               *)
(***************************************************************************)
LEMMA RemainingIs == \A j : Remaining(j) = Alone!ToRemove(j)
    BY DEF Remaining, Alone!ToRemove, Alone!StillThere, E!Removal, Alone!Removal,
           E!IDs, Alone!IDs

LEMMA NothingRemains == Alone!ToRemove(Alone!NoJob) = {}
    BY DEF Alone!ToRemove, Alone!StillThere, Alone!NoJob, Alone!NewJob

LEMMA IDsAre == \A list : E!IDs(list) = Alone!IDs(list)
    BY DEF E!IDs, Alone!IDs

(* The ways in which an entry is accounted for, one by one.                *)
Accounts(id) ==
    \/ \E n \in ServiceNames : id \in PortsOf(n, told["Service"][n])
    \/ \E kind \in AllKinds : id \in Alone!ToRemove(job[kind])
    \/ id \in givenUp \/ id \in untold \/ id \in overlooked

LEMMA KindsAre ==
    ASSUME CacheInv
    PROVE  Kinds = AllKinds /\ (cluster' = cluster => Kinds' = AllKinds)
    BY ServiceFacts DEF Kinds

LEMMA ToldAre == \A id : id \in ToldIds <=>
                    \E n \in ServiceNames : id \in PortsOf(n, told["Service"][n])
    BY DEF ToldIds

LEMMA ToldThen ==
    ASSUME cluster' = cluster
    PROVE  \A id : id \in ToldIds' <=>
              \E n \in ServiceNames : id \in PortsOf(n, told'["Service"][n])
    <1>1. ServiceNames' = ServiceNames
        BY DEF ServiceNames
    <1>2. ToldIds' = UNION {PortsOf(n, told'["Service"][n]) : n \in ServiceNames}
        BY <1>1 DEF ToldIds, PortsOf
    <1> QED
        BY <1>2

LEMMA AccountsNow ==
    ASSUME CacheInv
    PROVE  AccountedFor <=> \A id \in Ids : InUse(id) => Accounts(id)
    <1>1. \A id : id \in Leaving <=> \E kind \in AllKinds : id \in Alone!ToRemove(job[kind])
        BY KindsAre, RemainingIs DEF Leaving
    <1> QED
        BY <1>1, ToldAre DEF AccountedFor, Accounts

LEMMA AccountsThen ==
    ASSUME CacheInv, cluster' = cluster,
           \A id \in Ids : InUse(id)' =>
              \/ \E n \in ServiceNames : id \in PortsOf(n, told'["Service"][n])
              \/ \E kind \in AllKinds : id \in Alone!ToRemove(job'[kind])
              \/ id \in givenUp' \/ id \in untold' \/ id \in overlooked'
    PROVE  AccountedFor'
    <1>1. Leaving' = UNION {Remaining(job'[kind]) : kind \in AllKinds}
        BY KindsAre DEF Leaving, Remaining, E!Removal, E!IDs
    <1>2. \A id : id \in Leaving' <=>
                     \E kind \in AllKinds : id \in Alone!ToRemove(job'[kind])
        BY <1>1, RemainingIs
    <1> QED
        BY <1>2, ToldThen DEF AccountedFor

(* A step in which no handler begins or ends, and the engine is told       *)
(* nothing of a service, changes no history.                               *)
LEMMA QuietRecord ==
    ASSUME CacheInv, Record, told'["Service"] = told["Service"],
           \A kind \in AllKinds : pc'[kind] = "idle" <=> pc[kind] = "idle"
    PROVE  UNCHANGED leftovers
    <1>1. Begun = {} /\ Ended = {}
        BY KindsAre DEF Begun, Ended
    <1>2. ToAdd = {} /\ Given = {} /\ Forgotten = {}
        BY <1>1 DEF ToAdd, Given, Forgotten
    <1>3. UNION {Remaining(job[kind]) : kind \in Ended} = {}
        BY <1>1
    <1>4. UNION {PortsOf(n, told.Service[n]) : n \in Forgotten} = {}
        BY <1>2
    <1>5. UNION {E!IDs(job[kind].adds) : kind \in Unadded} = {}
        BY <1>1 DEF Unadded
    <1> QED
        BY <1>2, <1>3, <1>4, <1>5 DEF Record, leftovers

(***************************************************************************)
(* The inductive invariant: what a running handler adds is of a service    *)
(* that the engine was told of, or is recorded, and a handler that is not  *)
(* running has nothing to remove.                                          *)
(***************************************************************************)
AddsKnown == \A kind \in AllKinds : pc[kind] # "idle" =>
                 \A id \in Alone!IDs(job[kind].adds) : id \in ToldIds \/ id \in untold

IdleIsDone == \A kind \in AllKinds : pc[kind] = "idle" => job[kind] = Alone!NoJob

AccountInv == /\ CacheInv /\ Alone!IndInv
              /\ ~done /\ IdleIsDone /\ AddsKnown /\ AccountedFor

LEMMA QuietStep ==
    ASSUME AccountInv, Record, cluster' = cluster, told'["Service"] = told["Service"],
           UNCHANGED engineVars
    PROVE  ~done' /\ IdleIsDone' /\ AddsKnown' /\ AccountedFor'
    <1>1. /\ CacheInv /\ ~done /\ IdleIsDone /\ AddsKnown /\ AccountedFor
          /\ done' = done /\ pc' = pc /\ job' = job
          /\ frontends' = frontends /\ backends' = backends
        BY DEF AccountInv, engineVars
    <1>2. givenUp' = givenUp /\ untold' = untold /\ overlooked' = overlooked
        BY <1>1, QuietRecord DEF leftovers
    <1>3. IdleIsDone'
        BY <1>1 DEF IdleIsDone, Alone!NoJob, Alone!NewJob
    <1>4. AddsKnown'
        BY <1>1, <1>2, ToldAre, ToldThen DEF AddsKnown, Alone!IDs
    <1>5. \A id \in Ids : InUse(id)' => Accounts(id)
        BY <1>1, AccountsNow DEF InUse
    <1>6. AccountedFor'
        BY <1>1, <1>2, <1>5, AccountsThen DEF Accounts
    <1> QED
        BY <1>1, <1>3, <1>4, <1>6

(* A step of a handler leaves the others alone.                            *)
LEMMA OneHandler ==
    ASSUME Alone!IndInv, NEW kind \in AllKinds, Alone!Step(kind)
    PROVE  /\ pc[kind] # "idle" /\ done' = done
           /\ \A d \in AllKinds \ {kind} : pc'[d] = pc[d] /\ job'[d] = job[d]
    <1>1. PICK p, j : Alone!Goto(kind, p, j)
        BY DEF Alone!Step, Alone!CommitDone, Alone!CommitStop, Alone!CommitTry,
               Alone!UpsertBackend, Alone!BackendsUpserted, Alone!UpsertFrontend,
               Alone!FrontendsUpserted, Alone!DeleteNext, Alone!DeleteFrontend,
               Alone!DeleteBackend, Alone!Return, Alone!CommitOK, Alone!FailedAttempt
    <1>2. pc[kind] # "idle" /\ done' = done
        BY DEF Alone!Step, Alone!CommitDone, Alone!CommitStop, Alone!CommitTry,
               Alone!UpsertBackend, Alone!BackendsUpserted, Alone!UpsertFrontend,
               Alone!FrontendsUpserted, Alone!DeleteNext, Alone!DeleteFrontend,
               Alone!DeleteBackend, Alone!Return
    <1> QED
        BY <1>1, <1>2 DEF Alone!Goto, Alone!IndInv, Alone!TypeOK

LEMMA WorkStep ==
    ASSUME AccountInv, Record, NEW kind \in AllKinds, EngineStep(kind)
    PROVE  ~done' /\ IdleIsDone' /\ AddsKnown' /\ AccountedFor'
    <1>1. /\ Alone!Step(kind) /\ cluster' = cluster /\ told' = told
        BY SameStep DEF EngineStep, cacheVars, controllerVars, informerVars
    <1>2. CacheInv /\ Alone!IndInv /\ ~done /\ IdleIsDone /\ AddsKnown /\ AccountedFor
        BY DEF AccountInv
    <1>3. /\ pc[kind] # "idle" /\ ~done'
          /\ \A d \in AllKinds \ {kind} : pc'[d] = pc[d] /\ job'[d] = job[d]
        BY <1>1, <1>2, OneHandler
    <1>4. CASE pc[kind] # "return"
        <2>1. /\ Alone!Progress(kind, job'[kind]) /\ Alone!Adds(kind)
              /\ pc'[kind] # "idle"
            BY <1>1, <1>2, <1>4, AloneAssumptions, Alone!StepRemoves
        <2>2. givenUp' = givenUp /\ untold' = untold /\ overlooked' = overlooked
            BY <1>1, <1>2, <1>3, <2>1, QuietRecord DEF leftovers
        <2>3. IdleIsDone'
            BY <1>2, <1>3, <2>1 DEF IdleIsDone, Alone!NoJob, Alone!NewJob
        <2>4. \A d \in AllKinds : job'[d].adds = job[d].adds
            BY <1>3, <2>1 DEF Alone!Progress
        <2>5. AddsKnown'
            BY <1>1, <1>2, <1>3, <2>2, <2>4, ToldAre, ToldThen DEF AddsKnown, Alone!IDs
        <2>6. ASSUME NEW id \in Ids, InUse(id)'
              PROVE  \/ \E n \in ServiceNames : id \in PortsOf(n, told["Service"][n])
                     \/ \E d \in AllKinds : id \in Alone!ToRemove(job'[d])
                     \/ id \in givenUp \/ id \in untold \/ id \in overlooked
            <3>1. InUse(id) \/ id \in Alone!IDs(job[kind].adds)
                BY <2>1, <2>6 DEF Alone!Adds, Alone!Used, InUse
            <3>2. CASE id \in Alone!IDs(job[kind].adds)
                BY <1>2, <1>3, <3>2, ToldAre DEF AddsKnown
            <3>3. ASSUME id \in Alone!ToRemove(job[kind])
                  PROVE  id \in Alone!ToRemove(job'[kind])
                BY <2>1, <2>6, <3>3 DEF Alone!Progress, Alone!ToRemove, InUse
            <3>4. CASE InUse(id)
                BY <1>2, <1>3, <3>3, <3>4, AccountsNow DEF Accounts
            <3> QED
                BY <3>1, <3>2, <3>4
        <2>7. AccountedFor'
            BY <1>1, <1>2, <2>2, <2>6, AccountsThen
        <2> QED
            BY <1>3, <2>3, <2>5, <2>7
    <1>5. CASE pc[kind] = "return"
        <2>1. Alone!Return(kind)
            BY <1>1, <1>5 DEF Alone!Step, Alone!CommitDone, Alone!CommitStop, Alone!CommitTry,
                   Alone!UpsertBackend, Alone!BackendsUpserted, Alone!UpsertFrontend,
                   Alone!FrontendsUpserted, Alone!DeleteNext, Alone!DeleteFrontend,
                   Alone!DeleteBackend
        <2>2. /\ pc'[kind] = "idle" /\ job'[kind] = Alone!NoJob
              /\ frontends' = frontends /\ backends' = backends
            BY <1>2, <2>1 DEF Alone!Return, Alone!Goto, Alone!IndInv, Alone!TypeOK
        <2>3. Begun = {} /\ Ended = {kind}
            BY <1>2, <1>3, <2>2, KindsAre DEF Begun, Ended
        <2>4. ToAdd = {} /\ Given = {} /\ Forgotten = {}
            BY <1>1, <2>3 DEF ToAdd, Given, Forgotten
        <2>5. /\ givenUp' = givenUp \cup Alone!ToRemove(job[kind])
              /\ untold' = untold /\ overlooked' = overlooked
            <3>1. UNION {Remaining(job[d]) : d \in Ended} = Alone!ToRemove(job[kind])
                BY <2>3, RemainingIs
            <3>2. UNION {PortsOf(n, told.Service[n]) : n \in Forgotten} = {}
                BY <2>4
            <3> QED
                BY <2>4, <3>1, <3>2 DEF Record
        <2>6. IdleIsDone'
            BY <1>2, <1>3, <2>2 DEF IdleIsDone, Alone!NoJob, Alone!NewJob
        <2>7. AddsKnown'
            BY <1>1, <1>2, <1>3, <2>2, <2>5, ToldAre, ToldThen DEF AddsKnown, Alone!IDs
        <2>8. \A id \in Ids : InUse(id)' => Accounts(id)
            BY <1>2, <2>2, AccountsNow DEF InUse
        <2>9. AccountedFor'
            BY <1>1, <1>2, <1>3, <2>5, <2>8, AccountsThen DEF Accounts
        <2> QED
            BY <1>3, <2>6, <2>7, <2>9
    <1> QED
        BY <1>4, <1>5

LEMMA RestartRecord ==
    ASSUME AccountInv, Record, Restart
    PROVE  ~done' /\ IdleIsDone' /\ AddsKnown' /\ AccountedFor'
    <1>1. CacheInv /\ Alone!IndInv /\ IdleIsDone /\ AccountedFor /\ "Service" \in AllKinds
        BY DEF AccountInv, AllKinds
    <1>2. /\ cluster' = cluster /\ ~done' /\ E!Restart
          /\ frontends' = frontends /\ backends' = backends
          /\ \A kind \in AllKinds : pc'[kind] = "idle" /\ job'[kind] = Alone!NoJob
        BY DEF Restart, E!Restart, E!NoJob, E!NewJob, Alone!NoJob, Alone!NewJob
    <1>3. \A n \in ServiceNames : told'["Service"][n] = 0
        <2>1. told' = [kind \in AllKinds |-> [n \in DOMAIN base[kind] |-> 0]]
            BY <1>1, KindsAre DEF Restart
        <2>2. DOMAIN base["Service"] = ServiceNames
            BY <1>1, ServiceFacts DEF IsState, ServiceNames
        <2> QED
            BY <1>1, <2>1, <2>2
    <1>4. Begun = {} /\ Ended = {kind \in AllKinds : pc[kind] # "idle"}
        BY <1>1, <1>2, KindsAre DEF Begun, Ended
    <1>5. ToAdd = {} /\ Given = {}
        BY <1>4 DEF ToAdd, Given
    <1>6. \A n \in ServiceNames : told["Service"][n] # 0 => n \in Forgotten
        BY <1>3, <1>4 DEF Forgotten
    <1>7. /\ \A id : \A kind \in AllKinds :
                pc[kind] # "idle" /\ id \in Alone!ToRemove(job[kind]) => id \in givenUp'
          /\ \A id \in givenUp : id \in givenUp'
        BY <1>4, <1>5, RemainingIs DEF Record
    <1>8. /\ \A id : \A n \in Forgotten :
                id \in PortsOf(n, told["Service"][n]) => id \in overlooked'
          /\ \A id \in overlooked : id \in overlooked'
          /\ \A id \in untold : id \in untold'
        BY <1>5 DEF Record
    <1>9. IdleIsDone' /\ AddsKnown'
        BY <1>2 DEF IdleIsDone, AddsKnown, Alone!NoJob, Alone!NewJob
    <1>10. ASSUME NEW id \in Ids, Accounts(id)
           PROVE  id \in givenUp' \/ id \in untold' \/ id \in overlooked'
        <2>1. CASE \E n \in ServiceNames : id \in PortsOf(n, told["Service"][n])
            BY <1>6, <1>8, <2>1, NoIDs
        <2>2. CASE \E kind \in AllKinds : id \in Alone!ToRemove(job[kind])
            BY <1>1, <1>7, <2>2, NothingRemains DEF IdleIsDone
        <2> QED
            BY <1>7, <1>8, <1>10, <2>1, <2>2 DEF Accounts
    <1>11. \A id \in Ids : InUse(id)' => Accounts(id)
        BY <1>1, <1>2, AccountsNow DEF InUse
    <1>12. AccountedFor'
        BY <1>1, <1>2, <1>10, <1>11, AccountsThen
    <1> QED
        BY <1>2, <1>9, <1>12

(* A handler that begins takes over what it is given.                      *)
LEMMA BegunRecord ==
    ASSUME AccountInv, Record, NEW kind \in AllKinds, NEW c, NEW adds, NEW old, NEW j,
           Handles(kind, c, adds, old, j)
    PROVE  /\ lock = None /\ done' = done
           /\ frontends' = frontends /\ backends' = backends
           /\ \A d \in AllKinds : pc[d] = "idle"
           /\ pc'[kind] # "idle" /\ job'[kind] = j
           /\ \A d \in AllKinds \ {kind} : pc'[d] = "idle" /\ job'[d] = Alone!NoJob
           /\ Begun = {kind} /\ Ended = {}
           /\ ToAdd = Alone!IDs(adds) /\ Given = Alone!IDs(adds) \cup Alone!IDs(old)
    <1>1. CacheInv /\ Alone!IndInv /\ IdleIsDone /\ Kinds = AllKinds
        BY KindsAre DEF AccountInv
    <1>2. PICK p : p # "idle" /\ Alone!Begin(kind, j, p)
        BY DEF Handles
    <1>3. /\ lock = None /\ lock' = kind /\ job' = [job EXCEPT ![kind] = j]
          /\ pc' = [pc EXCEPT ![kind] = p] /\ done' = done
          /\ frontends' = frontends /\ backends' = backends
        BY <1>2 DEF Alone!Begin
    <1>4. \A d \in AllKinds : pc[d] = "idle"
        BY <1>1, <1>3, EngineAssumption DEF Alone!IndInv, Alone!AttemptsInOrder, Alone!Knows
    <1>5. /\ pc'[kind] # "idle" /\ job'[kind] = j
          /\ \A d \in AllKinds \ {kind} : pc'[d] = pc[d] /\ job'[d] = job[d]
        BY <1>1, <1>2, <1>3 DEF Alone!IndInv, Alone!TypeOK
    <1>6. \A d \in AllKinds \ {kind} : pc'[d] = "idle" /\ job'[d] = Alone!NoJob
        BY <1>1, <1>4, <1>5 DEF IdleIsDone
    <1>7. Begun = {kind} /\ Ended = {}
        BY <1>1, <1>4, <1>5, <1>6 DEF Begun, Ended
    <1>8. j.adds = adds /\ j.old = old
        BY DEF Handles
    <1>9. ToAdd = Alone!IDs(adds)
        BY <1>5, <1>7, <1>8, IDsAre DEF ToAdd
    <1>10. Given = Alone!IDs(adds) \cup Alone!IDs(old)
        BY <1>5, <1>7, <1>8, <1>9, IDsAre DEF Given
    <1> QED
        BY <1>3, <1>4, <1>5, <1>6, <1>7, <1>9, <1>10

LEMMA TakenOver ==
    ASSUME AccountInv, Record, NEW kind \in AllKinds, NEW c, NEW adds, NEW old, NEW j,
           Handles(kind, c, adds, old, j)
    PROVE  /\ \A id \in Alone!IDs(adds) : id \in ToldIds' \/ id \in untold'
           /\ \A id \in Alone!IDs(old) \ Alone!IDs(adds) : id \in Alone!ToRemove(j)
           /\ \A id : id \notin Alone!IDs(adds) \cup Alone!IDs(old) =>
                 /\ id \in givenUp => id \in givenUp'
                 /\ id \in untold => id \in untold'
                 /\ id \in overlooked => id \in overlooked'
           /\ \A id : \A n \in ServiceNames : id \in PortsOf(n, told["Service"][n]) =>
                 \/ told'["Service"][n] = told["Service"][n]
                 \/ id \in overlooked' \/ id \in Alone!IDs(adds) \cup Alone!IDs(old)
    <1>1. /\ CacheInv /\ Begun = {kind} /\ Ended = {}
          /\ ToAdd = Alone!IDs(adds) /\ Given = Alone!IDs(adds) \cup Alone!IDs(old)
        BY BegunRecord DEF AccountInv
    <1>2. /\ j.adds = adds /\ j.old = old /\ j.i = 1 /\ old \in Seq(Resource)
          /\ Lists(kind, c.name, c.new, adds)
          /\ c.event # "add" => Lists(kind, c.name, c.old, old)
          /\ c.event # "add" => c.old = told[kind][c.name]
          /\ told' = [told EXCEPT ![kind] = [told[kind] EXCEPT ![c.name] = c.new]]
          /\ call[kind] = <<c>> /\ c.name \in DOMAIN cluster[kind] /\ cluster' = cluster
        BY DEF Handles
    <1>3. \A id \in Alone!IDs(adds) : id \in ToldIds' \/ id \in untold'
        BY <1>1, <1>2 DEF Lists, Record
    <1>4. ASSUME NEW id \in Alone!IDs(old) \ Alone!IDs(adds)
          PROVE  id \in Alone!ToRemove(j)
        <2>1. PICK k \in DOMAIN old : old[k].id = id
            BY <1>4 DEF Alone!IDs
        <2>2. k >= j.i
            BY <1>2
        <2>3. k \in Alone!StillThere(j)
            BY <1>2, <1>4, <2>1, <2>2 DEF Alone!StillThere, Alone!Removal
        <2> QED
            BY <1>2, <2>1, <2>3 DEF Alone!ToRemove
    <1>5. \A id : id \notin Alone!IDs(adds) \cup Alone!IDs(old) =>
                 /\ id \in givenUp => id \in givenUp'
                 /\ id \in untold => id \in untold'
                 /\ id \in overlooked => id \in overlooked'
        BY <1>1 DEF Record
    <1>6. ASSUME NEW id, NEW n \in ServiceNames, id \in PortsOf(n, told["Service"][n]),
                 told'["Service"][n] # told["Service"][n],
                 id \notin Alone!IDs(adds) \cup Alone!IDs(old)
          PROVE  id \in overlooked'
        <2>1. kind = "Service" /\ c.name = n
            <3>1. DOMAIN told = AllKinds /\ IsState(cluster["Service"], told["Service"])
                BY <1>1, ServiceFacts DEF CacheInv, InformerInv, OnAllKinds
            <3>2. CASE kind # "Service"
                BY <1>2, <1>6, <3>1, <3>2
            <3>3. CASE kind = "Service"
                <4>1. told'["Service"] = [told["Service"] EXCEPT ![c.name] = c.new]
                    BY <1>2, <3>1, <3>3
                <4> QED
                    BY <1>6, <3>3, <4>1
            <3> QED
                BY <3>2, <3>3
        <2>2. c.event = "add"
            BY <1>2, <1>6, <2>1 DEF Lists
        <2>3. call.Service[1].event = "add"
            BY <1>2, <2>1, <2>2
        <2>4. n \in Forgotten
            BY <1>6, <2>3 DEF Forgotten
        <2> QED
            BY <1>1, <1>6, <2>4 DEF Record
    <1> QED
        BY <1>3, <1>4, <1>5, <1>6

LEMMA BegunStep ==
    ASSUME AccountInv, Record, NEW kind \in AllKinds, NEW c, NEW adds, NEW old, NEW j,
           Handles(kind, c, adds, old, j)
    PROVE  ~done' /\ IdleIsDone' /\ AddsKnown' /\ AccountedFor'
    <1>1. /\ CacheInv /\ ~done /\ IdleIsDone /\ AccountedFor
          /\ cluster' = cluster /\ j.adds = adds
        BY DEF AccountInv, Handles
    <1>2. /\ done' = done /\ frontends' = frontends /\ backends' = backends
          /\ \A d \in AllKinds : pc[d] = "idle"
          /\ pc'[kind] # "idle" /\ job'[kind] = j
          /\ \A d \in AllKinds \ {kind} : pc'[d] = "idle" /\ job'[d] = Alone!NoJob
        BY BegunRecord
    <1>3. IdleIsDone'
        BY <1>2 DEF IdleIsDone, Alone!NoJob, Alone!NewJob
    <1>4. AddsKnown'
        <2>1. \A id \in Alone!IDs(job'[kind].adds) : id \in ToldIds' \/ id \in untold'
            BY <1>1, <1>2, TakenOver
        <2> QED
            BY <1>2, <2>1 DEF AddsKnown, Alone!IDs
    <1>5. ASSUME NEW id \in Ids, InUse(id)'
          PROVE  \/ \E n \in ServiceNames : id \in PortsOf(n, told'["Service"][n])
                 \/ \E d \in AllKinds : id \in Alone!ToRemove(job'[d])
                 \/ id \in givenUp' \/ id \in untold' \/ id \in overlooked'
        <2>1. \/ \E n \in ServiceNames : id \in PortsOf(n, told["Service"][n])
              \/ id \in givenUp \/ id \in untold \/ id \in overlooked
            <3>1. Accounts(id)
                BY <1>1, <1>2, <1>5, AccountsNow DEF InUse
            <3> QED
                BY <1>1, <1>2, <3>1, NothingRemains DEF Accounts, IdleIsDone
        <2>2. CASE id \in Alone!IDs(adds)
            <3>1. id \in ToldIds' \/ id \in untold'
                BY <2>2, TakenOver
            <3> QED
                BY <1>1, <3>1, ToldThen
        <2>3. CASE id \in Alone!IDs(old) \ Alone!IDs(adds)
            <3>1. id \in Alone!ToRemove(j)
                BY <2>3, TakenOver
            <3> QED
                BY <1>2, <3>1
        <2>4. CASE id \notin Alone!IDs(adds) \cup Alone!IDs(old)
            <3>1. /\ id \in givenUp => id \in givenUp'
                  /\ id \in untold => id \in untold'
                  /\ id \in overlooked => id \in overlooked'
                BY <2>4, TakenOver
            <3>2. ASSUME NEW n \in ServiceNames, id \in PortsOf(n, told["Service"][n])
                  PROVE  id \in PortsOf(n, told'["Service"][n]) \/ id \in overlooked'
                BY <2>4, <3>2, TakenOver
            <3> QED
                BY <2>1, <3>1, <3>2
        <2> QED
            BY <2>2, <2>3, <2>4
    <1>6. AccountedFor'
        BY <1>1, <1>5, AccountsThen
    <1> QED
        BY <1>1, <1>2, <1>3, <1>4, <1>6

LEMMA AccountStep ==
    ASSUME AccountInv, [LeftoversNext]_<<vars, leftovers>>
    PROVE  AccountInv'
    <1>1. CacheInv /\ Alone!IndInv /\ Kinds = AllKinds
        BY KindsAre DEF AccountInv
    <1>2. [Next]_vars
        BY DEF LeftoversNext
    <1>3. CacheInv'
        BY <1>1, <1>2, WholeStep
    <1>4. Alone!IndInv'
        BY <1>1, <1>2, StepOfEngine, AloneAssumptions, Alone!NextIndInv
    <1>5. CASE LeftoversNext
        <2>1. Next /\ Record
            BY <1>5 DEF LeftoversNext
        <2>2. CASE \E kind \in AllKinds :
                      \/ \E n \in DOMAIN cluster[kind] :
                            \/ \E v \in Versions(kind, n) : ChangeObject(kind, n, v)
                            \/ CatchUp(kind, n)
                      \/ Inform(kind) \/ ProcessNext(kind)
            <3>1. UNCHANGED told /\ UNCHANGED engineVars /\ cluster' = cluster
                BY <2>2 DEF ChangeObject, CatchUp, Inform, ProcessNext, Reflect, Change,
                       Watch, Relist, Process, controllerVars, informerVars
            <3>2. ~done' /\ IdleIsDone' /\ AddsKnown' /\ AccountedFor'
                BY <2>1, <3>1, QuietStep
            <3> QED
                BY <1>3, <1>4, <3>2 DEF AccountInv
        <2>3. ASSUME NEW kind \in AllKinds, Callback(kind)
              PROVE  ~done' /\ IdleIsDone' /\ AddsKnown' /\ AccountedFor'
            <3>1. CASE Dropped(kind)
                <4>1. UNCHANGED told /\ UNCHANGED engineVars /\ cluster' = cluster
                    BY <3>1 DEF Dropped
                <4> QED
                    BY <2>1, <4>1, QuietStep
            <3> QED
                BY <1>1, <2>1, <2>3, <3>1, CallbackBegins, BegunStep
        <2>4. CASE \E kind \in AllKinds : Callback(kind) \/ EngineStep(kind)
            BY <1>3, <1>4, <2>1, <2>3, <2>4, WorkStep DEF AccountInv
        <2>5. CASE Restart
            BY <1>3, <1>4, <2>1, <2>5, RestartRecord DEF AccountInv
        <2> QED
            BY <1>1, <2>1, <2>2, <2>4, <2>5 DEF Next
    <1>6. CASE UNCHANGED <<vars, leftovers>>
        <2>1. /\ done' = done /\ pc' = pc /\ job' = job /\ cluster' = cluster
              /\ frontends' = frontends /\ backends' = backends /\ told' = told
              /\ givenUp' = givenUp /\ untold' = untold /\ overlooked' = overlooked
            BY <1>6 DEF vars, engineVars, cacheVars, controllerVars, informerVars, leftovers
        <2>2. ~done' /\ IdleIsDone'
            BY <2>1 DEF AccountInv, IdleIsDone, Alone!NoJob, Alone!NewJob
        <2>3. AddsKnown'
            BY <2>1, ToldAre, ToldThen DEF AccountInv, AddsKnown, Alone!IDs
        <2>4. \A id \in Ids : InUse(id)' => Accounts(id)
            BY <1>1, <2>1, AccountsNow DEF InUse, AccountInv
        <2>5. AccountedFor'
            BY <1>1, <2>1, <2>4, AccountsThen DEF Accounts
        <2> QED
            BY <1>3, <1>4, <2>2, <2>3, <2>5 DEF AccountInv
    <1> QED
        BY <1>5, <1>6

LEMMA AccountStart == LeftoversInit => AccountInv
    <1> SUFFICES ASSUME LeftoversInit PROVE AccountInv
        OBVIOUS
    <1>1. Init
        BY DEF LeftoversInit
    <1>2. CacheInv /\ Alone!IndInv
        BY <1>1, CalmStart DEF CalmInv
    <1>3. Alone!Init
        BY <1>1 DEF Init, E!Init, Alone!Init, E!NoJob, Alone!NoJob, E!NewJob, Alone!NewJob
    <1>4. ~done /\ IdleIsDone /\ AddsKnown /\ AccountedFor
        BY <1>3 DEF Alone!Init, IdleIsDone, AddsKnown, AccountedFor, InUse
    <1> QED
        BY <1>2, <1>4 DEF AccountInv

(* Whatever goes wrong around romulus, an entry of the table is that of a  *)
(* port of a service as the engine was told of it, or is about to be       *)
(* removed, or was left behind in one of the three ways that Leftovers     *)
(* records.                                                                *)
THEOREM EntriesAccountedFor == LeftoversSpec => []AccountedFor
    <1>1. AccountInv => AccountedFor
        BY DEF AccountInv
    <1>2. AccountInv /\ [LeftoversNext]_<<vars, leftovers>> => AccountInv'
        BY AccountStep
    <1> QED
        BY <1>1, <1>2, AccountStart, PTL DEF LeftoversSpec

(***************************************************************************)
(* With provider calls that fail and no other trouble.                     *)
(***************************************************************************)
(* The engine is told of every version of a service that was published.    *)
UntoldStored ==
    \A id \in untold : /\ \E n \in ServiceNames : id \in PortsOf(n, cache.stored["Service"][n])
                       /\ id \notin ToldIds

FaultInv == AccountInv /\ CalmCache /\ overlooked = {} /\ UntoldStored

LEMMA StoredThen ==
    ASSUME cluster' = cluster
    PROVE  UntoldStored' <=>
              \A id \in untold' :
                 /\ \E n \in ServiceNames : id \in PortsOf(n, cache'.stored["Service"][n])
                 /\ id \notin ToldIds'
    <1>1. ServiceNames' = ServiceNames
        BY DEF ServiceNames
    <1> QED
        BY <1>1 DEF UntoldStored, PortsOf

(* A step in which no handler begins.                                      *)
LEMMA FaultQuiet ==
    ASSUME FaultInv, Record, Remembers,
           \A kind \in AllKinds : pc[kind] = "idle" => pc'[kind] = "idle"
    PROVE  overlooked' = {} /\ UntoldStored'
    <1>1. CacheInv /\ overlooked = {} /\ UntoldStored
        BY DEF FaultInv, AccountInv
    <1>2. /\ cluster' = cluster /\ told'["Service"] = told["Service"]
          /\ \A m \in ServiceNames :
                \/ cache'.stored["Service"][m] = cache.stored["Service"][m]
                \/ cache.stored["Service"][m] = told["Service"][m]
        BY DEF Remembers
    <1>3. Begun = {}
        BY <1>1, KindsAre DEF Begun
    <1>4. ToAdd = {} /\ Given = {} /\ Forgotten = {}
        BY <1>2, <1>3 DEF ToAdd, Given, Forgotten
    <1>5. untold' = untold /\ overlooked' = {}
        <2>1. UNION {PortsOf(n, told.Service[n]) : n \in Forgotten} = {}
            BY <1>4
        <2> QED
            BY <1>1, <1>4, <2>1 DEF Record
    <1>6. \A id : id \in ToldIds' <=> id \in ToldIds
        BY <1>2, ToldAre, ToldThen
    <1>7. ASSUME NEW id \in untold
          PROVE  \E n \in ServiceNames : id \in PortsOf(n, cache'.stored["Service"][n])
        <2>1. PICK n \in ServiceNames : id \in PortsOf(n, cache.stored["Service"][n])
            BY <1>1, <1>7 DEF UntoldStored
        <2>2. id \notin PortsOf(n, told["Service"][n])
            BY <1>1, <1>7, ToldAre DEF UntoldStored
        <2> QED
            BY <1>2, <2>1, <2>2
    <1>8. UntoldStored'
        BY <1>1, <1>2, <1>5, <1>6, <1>7, StoredThen DEF UntoldStored
    <1> QED
        BY <1>5, <1>8

LEMMA FaultBegins ==
    ASSUME FaultInv, Record, NEW kind \in AllKinds, NEW c, NEW adds, NEW old, NEW j,
           Handles(kind, c, adds, old, j)
    PROVE  CalmCache' /\ overlooked' = {} /\ UntoldStored'
    <1>1. CacheInv /\ overlooked = {} /\ UntoldStored /\ CalmCache /\ AccountInv
        BY DEF FaultInv, AccountInv
    <1>2. /\ call[kind] = <<c>> /\ Tell(kind, c) /\ cluster' = cluster
          /\ c.event \in {"add", "update", "delete"}
          /\ cache'.stored["Service"] = cache.stored["Service"]
          /\ Lists(kind, c.name, c.new, adds) /\ c.name \in DOMAIN cluster[kind]
        BY <1>1 DEF Handles
    <1>3. /\ CalmCache'
          /\ kind # "Service" => Remembers
          /\ kind = "Service" =>
                /\ c.event = "add" => told["Service"][c.name] = 0
                /\ told'["Service"] = [told["Service"] EXCEPT ![c.name] = c.new]
        BY <1>1, <1>2, CalmTell
    <1>4. /\ Begun = {kind} /\ ToAdd = Alone!IDs(adds)
          /\ Given = Alone!IDs(adds) \cup Alone!IDs(old)
        BY <1>1, BegunRecord
    <1>5. DOMAIN told["Service"] = ServiceNames
        BY <1>1, ServiceFacts DEF IsState, ServiceNames
    <1>6. ASSUME NEW n \in Forgotten PROVE PortsOf(n, told["Service"][n]) = {}
        <2>1. /\ n \in ServiceNames /\ told'["Service"][n] # told["Service"][n]
              /\ call["Service"][1].event = "add"
            BY <1>4, <1>6 DEF Forgotten
        <2>2. kind = "Service"
            BY <1>3, <2>1 DEF Remembers
        <2>3. c.name = n
            BY <1>3, <1>5, <2>1, <2>2
        <2>4. c.event = "add"
            BY <1>2, <2>1, <2>2
        <2> QED
            BY <1>3, <2>2, <2>3, <2>4, NoIDs
    <1>7. overlooked' = {}
        <2>1. \A id : id \notin UNION {PortsOf(n, told.Service[n]) : n \in Forgotten}
            BY <1>6
        <2> QED
            BY <1>1, <2>1 DEF Record
    <1>8. ASSUME NEW id \in untold'
          PROVE  /\ \E n \in ServiceNames : id \in PortsOf(n, cache.stored["Service"][n])
                 /\ id \notin ToldIds'
        <2>1. \/ id \in untold /\ id \notin Alone!IDs(adds)
              \/ id \in Alone!IDs(adds) /\ id \notin ToldIds'
            BY <1>4, <1>8 DEF Record
        <2>2. CASE id \in Alone!IDs(adds) /\ id \notin ToldIds'
            <3>1. CASE kind # "Service"
                <4>1. id \in Ported
                    BY <1>1, <1>2, <2>2, <3>1 DEF Lists
                <4>2. cache.stored["Service"] = server["Service"]
                    BY <1>1, ServiceFacts DEF CalmCache, StoreIsServer
                <4> QED
                    BY <2>2, <4>1, <4>2 DEF Ported
            <3>2. CASE kind = "Service"
                <4>1. id \in PortsOf(c.name, c.new) /\ c.name \in ServiceNames
                    BY <1>2, <2>2, <3>2 DEF Lists, ServiceNames
                <4>2. told'["Service"][c.name] = c.new
                    BY <1>3, <1>5, <3>2, <4>1
                <4>3. id \in ToldIds'
                    BY <1>2, <4>1, <4>2, ToldThen
                <4> QED
                    BY <2>2, <4>3
            <3> QED
                BY <3>1, <3>2
        <2>3. CASE id \in untold /\ id \notin Alone!IDs(adds)
            <3>1. /\ \E n \in ServiceNames : id \in PortsOf(n, cache.stored["Service"][n])
                  /\ \A n \in ServiceNames : id \notin PortsOf(n, told["Service"][n])
                BY <1>1, <2>3, ToldAre DEF UntoldStored
            <3>2. ASSUME NEW n \in ServiceNames PROVE id \notin PortsOf(n, told'["Service"][n])
                <4>1. CASE told'["Service"][n] = told["Service"][n]
                    BY <3>1, <4>1
                <4>2. CASE told'["Service"][n] # told["Service"][n]
                    <5>1. kind = "Service" /\ c.name = n /\ told'["Service"][n] = c.new
                        BY <1>3, <1>5, <4>2 DEF Remembers
                    <5> QED
                        BY <1>2, <2>3, <5>1 DEF Lists
                <4> QED
                    BY <4>1, <4>2
            <3> QED
                BY <1>2, <3>1, <3>2, ToldThen
        <2> QED
            BY <2>1, <2>2, <2>3
    <1>9. UntoldStored'
        BY <1>2, <1>8, StoredThen
    <1> QED
        BY <1>3, <1>7, <1>9

LEMMA FaultStep ==
    ASSUME OnlyFaults, FaultInv, [LeftoversNext]_<<vars, leftovers>>
    PROVE  FaultInv'
    <1>1. /\ AccountInv /\ CacheInv /\ Alone!IndInv /\ CalmCache /\ Kinds = AllKinds
          /\ overlooked = {} /\ UntoldStored
        BY KindsAre DEF FaultInv, AccountInv
    <1>2. AccountInv'
        BY <1>1, AccountStep
    <1>3. ASSUME Record, CalmCache', Remembers, UNCHANGED engineVars
          PROVE  CalmCache' /\ overlooked' = {} /\ UntoldStored'
        BY <1>3, FaultQuiet DEF engineVars
    <1>4. CASE LeftoversNext
        <2>1. Next /\ Record
            BY <1>4 DEF LeftoversNext
        <2>2. ASSUME NEW kind \in AllKinds, NEW n \in DOMAIN cluster[kind],
                     NEW v \in Versions(kind, n), ChangeObject(kind, n, v)
              PROVE  CalmCache' /\ overlooked' = {} /\ UntoldStored'
            BY <1>1, <1>3, <2>1, <2>2, CalmChange DEF ChangeObject
        <2>3. ASSUME NEW kind \in AllKinds, NEW n \in DOMAIN cluster[kind], CatchUp(kind, n)
              PROVE  CalmCache' /\ overlooked' = {} /\ UntoldStored'
            BY <1>1, <1>3, <2>1, <2>3, CalmReflect DEF CatchUp
        <2>4. ASSUME NEW kind \in AllKinds, Inform(kind)
              PROVE  CalmCache' /\ overlooked' = {} /\ UntoldStored'
            <3>1. /\ Watch(kind) \/ Relist(kind, 0)
                  /\ UNCHANGED told /\ UNCHANGED cache /\ UNCHANGED engineVars
                BY <2>4 DEF Inform, OnlyFaults
            <3> QED
                BY <1>1, <1>3, <2>1, <3>1, CalmWatch, CalmRelist
        <2>5. ASSUME NEW kind \in AllKinds, ProcessNext(kind)
              PROVE  CalmCache' /\ overlooked' = {} /\ UntoldStored'
            <3>1. Process(kind) /\ UNCHANGED told /\ UNCHANGED cache /\ UNCHANGED engineVars
                BY <2>5 DEF ProcessNext
            <3> QED
                BY <1>1, <1>3, <2>1, <3>1, CalmProcess
        <2>6. ASSUME NEW kind \in AllKinds, Callback(kind)
              PROVE  CalmCache' /\ overlooked' = {} /\ UntoldStored'
            <3>1. CASE Dropped(kind)
                <4>1. PICK c : Tell(kind, c) /\ c.event = "unknown"
                    BY <3>1 DEF Dropped
                <4>2. UNCHANGED engineVars /\ cache' = cache
                    BY <3>1 DEF Dropped
                <4>3. CalmCache' /\ Remembers
                    BY <1>1, <4>1, <4>2, CalmTell
                <4> QED
                    BY <1>3, <2>1, <4>2, <4>3
            <3> QED
                BY <1>1, <2>1, <2>6, <3>1, CallbackBegins, FaultBegins
        <2>7. ASSUME NEW kind \in AllKinds, EngineStep(kind)
              PROVE  CalmCache' /\ overlooked' = {} /\ UntoldStored'
            <3>1. Untouched /\ Alone!Step(kind)
                BY <2>7, SameStep DEF EngineStep, Untouched, cacheVars, controllerVars,
                                      informerVars
            <3>2. CalmCache' /\ Remembers
                BY <1>1, <3>1, UntouchedStep
            <3>3. \A d \in AllKinds : pc[d] = "idle" => pc'[d] = "idle"
                BY <1>1, <3>1, OneHandler
            <3> QED
                BY <2>1, <3>2, <3>3, FaultQuiet
        <2>8. ~Restart
            BY DEF Restart, OnlyFaults
        <2>9. CalmCache' /\ overlooked' = {} /\ UntoldStored'
            BY <1>1, <2>1, <2>2, <2>3, <2>4, <2>5, <2>6, <2>7, <2>8 DEF Next
        <2> QED
            BY <1>2, <2>9 DEF FaultInv
    <1>5. CASE UNCHANGED <<vars, leftovers>>
        <2>1. Untouched
            BY <1>5 DEF vars, Untouched, cacheVars, controllerVars, informerVars
        <2>2. CalmCache'
            BY <1>1, <2>1, UntouchedStep
        <2>3. /\ cluster' = cluster /\ cache' = cache /\ told' = told
              /\ untold' = untold /\ overlooked' = overlooked
            BY <1>5 DEF vars, cacheVars, controllerVars, informerVars, leftovers
        <2>4. UntoldStored'
            BY <1>1, <2>3, StoredThen, ToldAre, ToldThen DEF UntoldStored
        <2> QED
            BY <1>1, <1>2, <2>2, <2>3, <2>4 DEF FaultInv
    <1> QED
        BY <1>4, <1>5

LEMMA FaultStart == LeftoversInit => FaultInv
    BY AccountStart, CalmStart DEF LeftoversInit, FaultInv, CalmInv, UntoldStored

LEMMA FaultRest ==
    ASSUME FaultInv
    PROVE  OnlyGivenUpStays
    <1> SUFFICES ASSUME AtRest, NEW id \in Ids, InUse(id), id \notin givenUp
                 PROVE  \E r \in Wanted : r.id = id
        BY DEF OnlyGivenUpStays
    <1>1. /\ CacheInv /\ CalmCache /\ IdleIsDone /\ AccountedFor /\ overlooked = {}
          /\ UntoldStored /\ Kinds = AllKinds /\ "Service" \in AllKinds
        BY KindsAre DEF FaultInv, AccountInv, AllKinds
    <1>2. \A kind \in AllKinds : job[kind] = Alone!NoJob /\ Drained(kind)
        BY <1>1 DEF AtRest, Idle, IdleIsDone
    <1>3. \/ \E n \in ServiceNames : id \in PortsOf(n, told["Service"][n])
          \/ id \in untold
        <2>1. Accounts(id)
            BY <1>1, AccountsNow
        <2> QED
            BY <1>1, <1>2, <2>1, NothingRemains DEF Accounts
    <1>4. PICK n \in ServiceNames : id \in PortsOf(n, cache.stored["Service"][n])
        BY <1>1, <1>2, <1>3, DrainedTold DEF UntoldStored
    <1>5. id \in PortsOf(n, server["Service"][n])
        BY <1>4 DEF AtRest
    <1> QED
        BY <1>1, <1>5, PortWanted

(* When provider calls may fail and nothing else goes wrong, at rest the   *)
(* only entries that no service asks for are those whose removal a handler *)
(* gave up.                                                                *)
THEOREM OnlyGivenUpIsLeft ==
    ASSUME OnlyFaults
    PROVE  LeftoversSpec => []OnlyGivenUpStays
    <1>1. FaultInv => OnlyGivenUpStays
        BY FaultRest
    <1>2. FaultInv /\ [LeftoversNext]_<<vars, leftovers>> => FaultInv'
        BY FaultStep
    <1> QED
        BY <1>1, <1>2, FaultStart, PTL DEF LeftoversSpec

=============================================================================
