--------------------------- MODULE ResourceProofs ---------------------------
(***************************************************************************)
(* Proofs about the resources that are generated from the objects of any   *)
(* cluster, in any state of the stores.                                    *)
(***************************************************************************)
EXTENDS InformerProofs

(***************************************************************************)
(* Sorting.  Each member of a finite ordered set has a place of its own,   *)
(* so SortByID keeps every resource.                                       *)
(***************************************************************************)
Upto(B, D, k) == {m \in D : <<m, k>> \in B}

LEMMA Ranking ==
    ASSUME NEW D, IsFiniteSet(D), NEW B,
           \A k \in D : <<k, k>> \in B,
           \A j, k \in D : <<j, k>> \in B \/ <<k, j>> \in B,
           \A j, k \in D : <<j, k>> \in B /\ <<k, j>> \in B => j = k,
           \A j, k, m \in D : <<j, k>> \in B /\ <<k, m>> \in B => <<j, m>> \in B
    PROVE  /\ \A k \in D : Cardinality(Upto(B, D, k)) \in 1..Cardinality(D)
           /\ \A j, k \in D :
                 Cardinality(Upto(B, D, j)) = Cardinality(Upto(B, D, k)) => j = k
           /\ \A n \in 1..Cardinality(D) :
                 \E k \in D : Cardinality(Upto(B, D, k)) = n
    <1> DEFINE rank == [k \in D |-> Cardinality(Upto(B, D, k))]
    <1>1. ASSUME NEW k \in D
          PROVE  /\ IsFiniteSet(Upto(B, D, k)) /\ Upto(B, D, k) \subseteq D
                 /\ Cardinality(Upto(B, D, k)) \in 1..Cardinality(D)
        <2>1. Upto(B, D, k) \in SUBSET D /\ k \in Upto(B, D, k)
            BY DEF Upto
        <2>2. /\ IsFiniteSet(Upto(B, D, k))
              /\ Cardinality(Upto(B, D, k)) <= Cardinality(D)
            BY <2>1, FS_Subset
        <2>3. Cardinality(Upto(B, D, k)) # 0
            BY <2>1, <2>2, FS_EmptySet
        <2>4. Cardinality(Upto(B, D, k)) \in Nat /\ Cardinality(D) \in Nat
            BY <2>2, FS_CardinalityType
        <2> QED
            BY <2>1, <2>2, <2>3, <2>4
    <1>2. ASSUME NEW j \in D, NEW k \in D, j # k, <<j, k>> \in B
          PROVE  Cardinality(Upto(B, D, j)) # Cardinality(Upto(B, D, k))
        <2>1. Upto(B, D, j) \subseteq Upto(B, D, k)
            BY <1>2 DEF Upto
        <2>2. k \in Upto(B, D, k) /\ k \notin Upto(B, D, j)
            BY <1>2 DEF Upto
        <2> QED
            BY <1>1, <2>1, <2>2, FS_Subset
    <1>3. \A j, k \in D : Cardinality(Upto(B, D, j)) = Cardinality(Upto(B, D, k)) => j = k
        BY <1>2
    <1>4. rank \in Injection(D, 1..Cardinality(D))
        <2>1. rank \in [D -> 1..Cardinality(D)]
            BY <1>1
        <2>2. \A j, k \in D : rank[j] = rank[k] => j = k
            BY <1>3
        <2> QED
            BY <2>1, <2>2 DEF Injection, IsInjective
    <1>5. /\ Cardinality(D) \in Nat
          /\ IsFiniteSet(1..Cardinality(D))
          /\ Cardinality(1..Cardinality(D)) = Cardinality(D)
        BY FS_CardinalityType, FS_Interval
    <1>6. rank \in Surjection(D, 1..Cardinality(D))
        BY <1>4, <1>5, FS_Injection
    <1>7. \A n \in 1..Cardinality(D) : \E k \in D : rank[k] = n
        BY <1>6 DEF Surjection
    <1> QED
        BY <1>1, <1>3, <1>7

(* A set of IDs that Less orders.                                          *)
Linear(X) ==
    \A x, y \in X :
        /\ x = y \/ Less(x, y) \/ Less(y, x)
        /\ Less(x, y) => x # y /\ ~Less(y, x)
        /\ \A z \in X : Less(x, y) /\ Less(y, z) => Less(x, z)

Before(list, m, k) ==
    \/ Less(list[m].id, list[k].id)
    \/ list[m].id = list[k].id /\ m <= k

LEMMA Sorted ==
    ASSUME NEW X, Linear(X),
           NEW list, DOMAIN list \subseteq Nat, IsFiniteSet(DOMAIN list),
           \A k \in DOMAIN list : list[k].id \in X
    PROVE  /\ DOMAIN SortByID(list) = 1..Cardinality(DOMAIN list)
           /\ Cardinality(DOMAIN list) \in Nat
           /\ \A r : r \in ToSet(SortByID(list)) <=> \E k \in DOMAIN list : r = list[k]
    <1> DEFINE D == DOMAIN list
               B == {p \in D \X D : Before(list, p[1], p[2])}
               N == Cardinality(D)
    <1>1. \A j, k \in D : <<j, k>> \in B <=> Before(list, j, k)
        OBVIOUS
    <1>2. \A k \in D : k \in Nat /\ list[k].id \in X
        OBVIOUS
    <1>3. \A k \in D : Before(list, k, k)
        BY <1>2 DEF Before
    <1>4. \A j, k \in D : Before(list, j, k) \/ Before(list, k, j)
        BY <1>2 DEF Before, Linear
    <1>5. \A j, k \in D : Before(list, j, k) /\ Before(list, k, j) => j = k
        BY <1>2 DEF Before, Linear
    <1>6. ASSUME NEW j \in D, NEW k \in D, NEW m \in D,
                 Before(list, j, k), Before(list, k, m)
          PROVE  Before(list, j, m)
        BY <1>2, <1>6 DEF Before, Linear
    <1>7. /\ \A k \in D : Cardinality(Upto(B, D, k)) \in 1..N
          /\ \A j, k \in D : Cardinality(Upto(B, D, j)) = Cardinality(Upto(B, D, k)) => j = k
          /\ \A n \in 1..N : \E k \in D : Cardinality(Upto(B, D, k)) = n
        <2> HIDE DEF B
        <2>1. /\ \A k \in D : <<k, k>> \in B
              /\ \A j, k \in D : <<j, k>> \in B \/ <<k, j>> \in B
              /\ \A j, k \in D : <<j, k>> \in B /\ <<k, j>> \in B => j = k
              /\ \A j, k, m \in D : <<j, k>> \in B /\ <<k, m>> \in B => <<j, m>> \in B
            BY <1>1, <1>3, <1>4, <1>5, <1>6
        <2> QED
            BY <2>1, Ranking
    <1>8. \A k \in D : Upto(B, D, k) = {m \in D : Before(list, m, k)}
        BY <1>1 DEF Upto
    <1>9. SortByID(list) = [n \in 1..N |->
              list[CHOOSE k \in D : Cardinality({m \in D : Before(list, m, k)}) = n]]
        BY DEF SortByID, Before
    <1> DEFINE at(n) == CHOOSE k \in D : Cardinality({m \in D : Before(list, m, k)}) = n
    <1>10. ASSUME NEW n \in 1..N
           PROVE  at(n) \in D /\ Cardinality({m \in D : Before(list, m, at(n))}) = n
        <2>1. \E k \in D : Cardinality({m \in D : Before(list, m, k)}) = n
            BY <1>7, <1>8
        <2> QED
            BY <2>1
    <1>11. ASSUME NEW k \in D
           PROVE  \E n \in 1..N : at(n) = k
        <2>1. PICK n \in 1..N : Cardinality({m \in D : Before(list, m, k)}) = n
            BY <1>7, <1>8
        <2>2. at(n) = k
            BY <2>1, <1>10, <1>7, <1>8
        <2> QED
            BY <2>2
    <1>12. DOMAIN SortByID(list) = 1..N /\ \A n \in 1..N : SortByID(list)[n] = list[at(n)]
        BY <1>9
    <1> HIDE DEF at
    <1>13. ASSUME NEW r
           PROVE  r \in ToSet(SortByID(list)) <=> \E k \in D : r = list[k]
        <2>1. r \in ToSet(SortByID(list)) <=> \E n \in 1..N : r = SortByID(list)[n]
            BY <1>12 DEF ToSet
        <2>2. ASSUME NEW n \in 1..N, r = SortByID(list)[n]
              PROVE  \E k \in D : r = list[k]
            BY <2>2, <1>10, <1>12
        <2>3. ASSUME NEW k \in D, r = list[k]
              PROVE  \E n \in 1..N : r = SortByID(list)[n]
            BY <2>3, <1>11, <1>12
        <2> QED
            BY <2>1, <2>2, <2>3
    <1>14. N \in Nat
        BY FS_CardinalityType
    <1> QED
        BY <1>12, <1>13, <1>14

-----------------------------------------------------------------------------
(***************************************************************************)
(* Objects and lookups.                                                    *)
(***************************************************************************)
IsVersion(kind, n, obj) ==
    /\ n \in DOMAIN cluster[kind]
    /\ \E v \in 1..Len(cluster[kind][n]) : obj = cluster[kind][n][v]

LEMMA VersionFacts ==
    ASSUME InformerInv, NEW kind \in AllKinds, NEW n, NEW obj, IsVersion(kind, n, obj)
    PROVE  obj.name = n /\ obj # None
    BY ClustersAssumption, ObjectsAssumption DEF IsVersion, InformerInv

LEMMA IdNamesService ==
    ASSUME NEW n, NEW p
    PROVE  GenResourceID(n, p)[1] = n
    BY DEF GenResourceID

LEMMA IdsOrdered ==
    ASSUME InformerInv
    PROVE  Linear(PortIds(cluster))
    BY LessAssumption DEF Linear, InformerInv

LEMMA PortFacts ==
    ASSUME InformerInv, NEW n, NEW svc, IsVersion("Service", n, svc)
    PROVE  /\ DOMAIN svc.ports \subseteq Nat /\ IsFiniteSet(DOMAIN svc.ports)
           /\ \A k \in DOMAIN svc.ports :
                 /\ svc.ports[k] # None
                 /\ GenResourceID(n, svc.ports[k]) \in PortIds(cluster)
           /\ \A j, k \in DOMAIN svc.ports :
                 GenResourceID(n, svc.ports[j]) = GenResourceID(n, svc.ports[k]) => j = k
    <1>1. cluster \in Clusters /\ n \in DOMAIN cluster.Service
        BY DEF InformerInv, IsVersion
    <1>2. PICK v \in 1..Len(cluster.Service[n]) : svc = cluster.Service[n][v]
        BY DEF IsVersion
    <1>3. /\ DOMAIN svc.ports \subseteq Nat /\ IsFiniteSet(DOMAIN svc.ports)
          /\ \A k \in DOMAIN svc.ports : svc.ports[k] # None
          /\ \A j, k \in DOMAIN svc.ports :
                 GenResourceID(n, svc.ports[j]) = GenResourceID(n, svc.ports[k]) => j = k
        BY <1>1, <1>2, ObjectsAssumption
    <1>4. ASSUME NEW k \in DOMAIN svc.ports
          PROVE  GenResourceID(n, svc.ports[k]) \in PortIds(cluster)
        BY <1>1, <1>2 DEF PortIds
    <1> QED
        BY <1>3, <1>4

LEMMA RuleFacts ==
    ASSUME InformerInv, NEW n, NEW ing, IsVersion("Ingress", n, ing)
    PROVE  /\ DOMAIN ing.rules \subseteq Nat \ {0}
           /\ IsFiniteSet(Positions(ing)) /\ Positions(ing) \subseteq Nat
    <1>1. DOMAIN ing.rules \subseteq Nat \ {0} /\ IsFiniteSet(DOMAIN ing.rules)
        BY ObjectsAssumption DEF IsVersion, InformerInv
    <1>2. IsFiniteSet({}) /\ IsFiniteSet({0})
        BY FS_EmptySet, FS_Singleton
    <1>3. IsFiniteSet(Positions(ing))
        BY <1>1, <1>2, FS_Union DEF Positions
    <1> QED
        BY <1>1, <1>3 DEF Positions

LEMMA GetServiceFacts ==
    ASSUME InformerInv, NEW c, IsCache(c), NEW answers, IsAnswers(answers), NEW n,
           GetService(c, n, answers) # None
    PROVE  IsVersion("Service", n, GetService(c, n, answers))
    <1> DEFINE v == Found(c, "Service", n, answers)
    <1>1. v # 0 /\ GetService(c, n, answers) = cluster["Service"][n][v]
        BY DEF GetService, Object
    <1>2. n \in DOMAIN cluster["Service"]
        BY <1>1 DEF Found
    <1>3. v \in 0..Len(cluster["Service"][n])
        BY <1>2, FoundFacts DEF AllKinds
    <1>4. Len(cluster["Service"][n]) \in Nat
        BY <1>2, ClustersAssumption DEF InformerInv, AllKinds
    <1>5. v \in 1..Len(cluster["Service"][n])
        BY <1>1, <1>3, <1>4
    <1> QED
        BY <1>1, <1>2, <1>5 DEF IsVersion

LEMMA EndpointsFacts ==
    ASSUME InformerInv, NEW c, IsCache(c), NEW answers, IsAnswers(answers), NEW n,
           GetEndpoints(c, n, answers) # None
    PROVE  /\ IsVersion("Endpoints", n, GetEndpoints(c, n, answers))
           /\ GetEndpoints(c, n, answers).name = n
    <1> DEFINE v == Found(c, "Endpoints", n, answers)
    <1>1. v # 0 /\ GetEndpoints(c, n, answers) = cluster["Endpoints"][n][v]
        BY DEF GetEndpoints, Object
    <1>2. n \in DOMAIN cluster["Endpoints"]
        BY <1>1 DEF Found
    <1>3. v \in 0..Len(cluster["Endpoints"][n])
        BY <1>2, FoundFacts DEF AllKinds
    <1>4. Len(cluster["Endpoints"][n]) \in Nat
        BY <1>2, ClustersAssumption DEF InformerInv, AllKinds
    <1>5. v \in 1..Len(cluster["Endpoints"][n])
        BY <1>1, <1>3, <1>4
    <1>6. IsVersion("Endpoints", n, GetEndpoints(c, n, answers))
        BY <1>1, <1>2, <1>5 DEF IsVersion
    <1> QED
        BY <1>6, VersionFacts DEF AllKinds

LEMMA MappedFacts ==
    ASSUME InformerInv, IsCache(cache), NEW n \in ServiceNames, InReach(n)
    PROVE  \E i : IsVersion("Ingress", i, GetIngress(cache, n, server))
    <1>1. PICK i : i = cache.ingMap[n]
        OBVIOUS
    <1>2. i \in DOMAIN cluster["Ingress"] /\ cache.stored["Ingress"][i] # 0
        BY <1>1 DEF InReach, IsCache, IngressNames
    <1>3. PICK v : v = cache.stored["Ingress"][i]
        OBVIOUS
    <1>4. v \in 0..Len(cluster["Ingress"][i]) /\ Len(cluster["Ingress"][i]) \in Nat
        BY <1>2, <1>3, ClustersAssumption DEF IsCache, IsState, InformerInv, AllKinds
    <1>5. v \in 1..Len(cluster["Ingress"][i])
        BY <1>2, <1>3, <1>4
    <1>6. GetIngress(cache, n, server) = cluster["Ingress"][i][v]
        BY <1>1, <1>2, <1>3 DEF GetIngress, MappedVersion, Object, InReach
    <1> QED
        BY <1>2, <1>5, <1>6 DEF IsVersion

LEMMA PortFound ==
    ASSUME InformerInv, NEW n, NEW svc, IsVersion("Service", n, svc), NEW ref,
           GetServicePort(svc, ref) # None
    PROVE  \E k \in DOMAIN svc.ports : GetServicePort(svc, ref) = svc.ports[k]
    <1> DEFINE hits == {k \in DOMAIN svc.ports : RefersTo(ref, svc.ports[k])}
    <1>1. hits # {} /\ hits \in SUBSET Nat
        BY PortFacts DEF GetServicePort
    <1>2. \E k \in hits : \A m \in hits : k <= m
        BY <1>1, Least
    <1>3. (CHOOSE k \in hits : \A m \in hits : k <= m) \in hits
        BY <1>2
    <1> QED
        BY <1>1, <1>3 DEF GetServicePort

-----------------------------------------------------------------------------
(***************************************************************************)
(* The lists.                                                              *)
(***************************************************************************)
IsList(list) == \E len \in Nat : DOMAIN list = 1..len

PortResource(svc, en, ing, k) ==
    LET route == NewRoute(svc.ports[k].name, svc.annos)
    IN  NewResource(svc, en, svc.ports[k],
            IF ing = None THEN route
            ELSE routePartsFromIngress(route, ing, svc.name, svc.ports[k]))

LEMMA PortsList ==
    ASSUME InformerInv, NEW n, NEW svc, IsVersion("Service", n, svc), NEW en, NEW ing
    PROVE  /\ \A r : r \in ToSet(resourcesFromPorts(svc, en, ing)) <=>
                        \E k \in DOMAIN svc.ports : r = PortResource(svc, en, ing, k)
           /\ \A k \in DOMAIN svc.ports :
                 PortResource(svc, en, ing, k).id = GenResourceID(n, svc.ports[k])
           /\ IsList(resourcesFromPorts(svc, en, ing))
    <1> DEFINE list == [k \in DOMAIN svc.ports |-> PortResource(svc, en, ing, k)]
    <1>1. svc.name = n
        BY VersionFacts DEF AllKinds
    <1>2. \A k \in DOMAIN svc.ports :
             PortResource(svc, en, ing, k).id = GenResourceID(n, svc.ports[k])
        BY <1>1 DEF PortResource, NewResource
    <1>3. /\ DOMAIN list \subseteq Nat /\ IsFiniteSet(DOMAIN list)
          /\ \A k \in DOMAIN list : list[k].id \in PortIds(cluster)
        BY <1>2, PortFacts
    <1>4. resourcesFromPorts(svc, en, ing) = SortByID(list)
        BY DEF resourcesFromPorts, PortResource
    <1>5. \A k \in DOMAIN svc.ports : list[k] = PortResource(svc, en, ing, k)
        OBVIOUS
    <1>6. DOMAIN list = DOMAIN svc.ports
        OBVIOUS
    <1> HIDE DEF list
    <1>7. \A r : r \in ToSet(SortByID(list)) <=> \E k \in DOMAIN list : r = list[k]
        BY <1>3, Sorted, IdsOrdered
    <1>8. IsList(SortByID(list))
        BY <1>3, Sorted, IdsOrdered DEF IsList
    <1> QED
        BY <1>2, <1>4, <1>5, <1>6, <1>7, <1>8

Resolves(c, entry, answers) ==
    /\ GetService(c, entry.svc, answers) # None
    /\ GetServicePort(GetService(c, entry.svc, answers), entry.ref) # None

EntryResource(c, ing, k, answers) ==
    LET entry == Entry(ing, k)
        svc   == GetService(c, entry.svc, answers)
        port  == GetServicePort(svc, entry.ref)
    IN  NewResource(svc, GetEndpoints(c, entry.svc, answers), port,
            IF k = 0 THEN {} ELSE RuleRoute(NewRoute(port.name, svc.annos), entry))

Usable(c, ing, answers) == {k \in Positions(ing) : Resolves(c, Entry(ing, k), answers)}

LEMMA EntryFacts ==
    ASSUME InformerInv, NEW c, IsCache(c), NEW answers, IsAnswers(answers),
           NEW ing, NEW k \in Usable(c, ing, answers)
    PROVE  LET entry == Entry(ing, k)
               svc   == GetService(c, entry.svc, answers)
           IN  /\ IsVersion("Service", entry.svc, svc)
               /\ \E m \in DOMAIN svc.ports :
                     /\ GetServicePort(svc, entry.ref) = svc.ports[m]
                     /\ EntryResource(c, ing, k, answers).id
                            = GenResourceID(entry.svc, svc.ports[m])
    <1> DEFINE entry == Entry(ing, k)
               svc   == GetService(c, entry.svc, answers)
    <1>1. svc # None /\ GetServicePort(svc, entry.ref) # None
        BY DEF Usable, Resolves
    <1>2. IsVersion("Service", entry.svc, svc)
        BY <1>1, GetServiceFacts
    <1>3. svc.name = entry.svc
        BY <1>2, VersionFacts DEF AllKinds
    <1>4. PICK m \in DOMAIN svc.ports : GetServicePort(svc, entry.ref) = svc.ports[m]
        BY <1>1, <1>2, PortFound
    <1>5. EntryResource(c, ing, k, answers).id = GenResourceID(entry.svc, svc.ports[m])
        BY <1>3, <1>4 DEF EntryResource, NewResource
    <1> QED
        BY <1>2, <1>4, <1>5

LEMMA IngressList ==
    ASSUME InformerInv, NEW c, IsCache(c), NEW answers, IsAnswers(answers),
           NEW i, NEW ing, IsVersion("Ingress", i, ing)
    PROVE  /\ \A r : r \in ToSet(FromIngress(c, ing, answers)) <=>
                        \E k \in Usable(c, ing, answers) :
                            r = EntryResource(c, ing, k, answers)
           /\ IsList(FromIngress(c, ing, answers))
    <1> DEFINE names == {e.svc : e \in Entries(ing)}
               svcs == [n \in names |-> GetService(c, n, answers)]
               ens  == [n \in names |-> GetEndpoints(c, n, answers)]
               kept == {m \in Positions(ing) : Resolved(svcs, Entry(ing, m)) # None}
               list == [k \in Usable(c, ing, answers) |-> EntryResource(c, ing, k, answers)]
    <1>1. ASSUME NEW k \in Positions(ing)
          PROVE  /\ svcs[Entry(ing, k).svc] = GetService(c, Entry(ing, k).svc, answers)
                 /\ ens[Entry(ing, k).svc] = GetEndpoints(c, Entry(ing, k).svc, answers)
        <2>1. Entry(ing, k).svc \in names
            BY DEF Entries
        <2> QED
            BY <2>1
    <1> HIDE DEF svcs, ens
    <1>2. kept = Usable(c, ing, answers)
        BY <1>1 DEF Usable, Resolves, Resolved
    <1>3. ASSUME NEW k \in kept
          PROVE  FromEntry(svcs, ens, Entry(ing, k),
                     IF k = 0 THEN {} ELSE RuleRoute(AnnotatedRoute(svcs, Entry(ing, k)),
                                                     Entry(ing, k)))
                 = EntryResource(c, ing, k, answers)
        <2>1. /\ svcs[Entry(ing, k).svc] = GetService(c, Entry(ing, k).svc, answers)
              /\ ens[Entry(ing, k).svc] = GetEndpoints(c, Entry(ing, k).svc, answers)
              /\ GetService(c, Entry(ing, k).svc, answers) # None
            BY <1>1, <1>2 DEF Usable, Resolves
        <2>2. Resolved(svcs, Entry(ing, k))
              = GetServicePort(GetService(c, Entry(ing, k).svc, answers), Entry(ing, k).ref)
            BY <2>1 DEF Resolved
        <2> QED
            BY <2>1, <2>2 DEF FromEntry, AnnotatedRoute, EntryResource
    <1>4. FromIngress(c, ing, answers) = resourcesFromIngress(svcs, ens, ing)
        BY DEF FromIngress, svcs, ens
    <1>5. resourcesFromIngress(svcs, ens, ing) = SortByID(list)
        BY <1>2, <1>3 DEF resourcesFromIngress
    <1>6. DOMAIN list = Usable(c, ing, answers)
              /\ \A k \in DOMAIN list : list[k] = EntryResource(c, ing, k, answers)
        OBVIOUS
    <1>7. DOMAIN list \subseteq Nat /\ IsFiniteSet(DOMAIN list)
        <2>1. Usable(c, ing, answers) \in SUBSET Positions(ing)
            BY DEF Usable
        <2> QED
            BY <1>6, <2>1, RuleFacts, FS_Subset
    <1>8. \A k \in DOMAIN list : list[k].id \in PortIds(cluster)
        BY <1>6, EntryFacts, PortFacts
    <1> HIDE DEF list
    <1>9. \A r : r \in ToSet(SortByID(list)) <=> \E k \in DOMAIN list : r = list[k]
        BY <1>7, <1>8, Sorted, IdsOrdered
    <1>10. IsList(SortByID(list))
        BY <1>7, <1>8, Sorted, IdsOrdered DEF IsList
    <1> QED
        BY <1>4, <1>5, <1>6, <1>9, <1>10

-----------------------------------------------------------------------------
(***************************************************************************)
(* The theorems.                                                           *)
(***************************************************************************)

(* The route that a service finds for a port in its Ingress is the one     *)
(* that the Ingress gives to it, if just one entry is about the port.      *)
LEMMA SameRoute ==
    ASSUME NEW ing, DOMAIN ing.rules \subseteq Nat \ {0},
           NEW svc, NEW p, NEW k0 \in Positions(ing), NEW route,
           About(ing, svc, p) = {k0},
           matchIngressBackend(svc.name, p, Entry(ing, k0))
    PROVE  routePartsFromIngress(route, ing, svc.name, p)
           = IF k0 = 0 THEN {} ELSE RuleRoute(route, Entry(ing, k0))
    <1>1. \A k \in Positions(ing) :
             matchIngressBackend(svc.name, p, Entry(ing, k)) => k = k0
        BY DEF About, matchIngressBackend
    <1> DEFINE hits == {k \in DOMAIN ing.rules :
                           matchIngressBackend(svc.name, p, ing.rules[k])}
    <1>2. CASE k0 = 0
        BY <1>2 DEF routePartsFromIngress, Positions, Entry
    <1>3. CASE k0 # 0
        <2>1. k0 \in DOMAIN ing.rules /\ Entry(ing, k0) = ing.rules[k0]
            BY <1>3 DEF Positions, Entry
        <2>2. ~(ing.default # None /\ matchIngressBackend(svc.name, p, ing.default))
            BY <1>1, <1>3 DEF Positions, Entry
        <2>3. hits = {k0}
            BY <1>1, <2>1 DEF Positions, Entry
        <2>4. (CHOOSE k \in hits : \A m \in hits : k <= m) = k0
            BY <2>1, <2>3
        <2> QED
            BY <1>3, <2>1, <2>2, <2>3, <2>4 DEF routePartsFromIngress
    <1> QED
        BY <1>2, <1>3

LEMMA PortOnce ==
    ASSUME InformerInv, NEW n, NEW svc, IsVersion("Service", n, svc), NEW en, NEW ing,
           NEW k \in DOMAIN svc.ports
    PROVE  OfPort(resourcesFromPorts(svc, en, ing), n, svc.ports[k])
           = {PortResource(svc, en, ing, k)}
    <1>1. /\ \A r : r \in ToSet(resourcesFromPorts(svc, en, ing)) <=>
                       \E j \in DOMAIN svc.ports : r = PortResource(svc, en, ing, j)
          /\ \A j \in DOMAIN svc.ports :
                PortResource(svc, en, ing, j).id = GenResourceID(n, svc.ports[j])
        BY PortsList
    <1>2. \A j \in DOMAIN svc.ports :
             GenResourceID(n, svc.ports[j]) = GenResourceID(n, svc.ports[k]) => j = k
        BY PortFacts
    <1> QED
        BY <1>1, <1>2 DEF OfPort

LEMMA EntryOnce ==
    ASSUME InformerInv, NEW c, IsCache(c), NEW answers, IsAnswers(answers),
           NEW i, NEW ing, IsVersion("Ingress", i, ing),
           NEW n, NEW svc, svc = GetService(c, n, answers), svc # None,
           NEW k \in DOMAIN svc.ports, NEW k0 \in Positions(ing),
           About(ing, svc, svc.ports[k]) = {k0},
           GetServicePort(svc, Entry(ing, k0).ref) = svc.ports[k]
    PROVE  OfPort(FromIngress(c, ing, answers), n, svc.ports[k])
           = {EntryResource(c, ing, k0, answers)}
    <1>1. IsVersion("Service", n, svc)
        BY GetServiceFacts
    <1>2. svc.name = n /\ svc.ports[k] # None
        BY <1>1, VersionFacts, PortFacts DEF AllKinds
    <1>3. Entry(ing, k0).svc = n
        BY <1>2 DEF About
    <1>4. k0 \in Usable(c, ing, answers)
        BY <1>2, <1>3 DEF Usable, Resolves
    <1>5. EntryResource(c, ing, k0, answers).id = GenResourceID(n, svc.ports[k])
        BY <1>2, <1>3 DEF EntryResource, NewResource
    <1>6. ASSUME NEW j \in Usable(c, ing, answers),
                 EntryResource(c, ing, j, answers).id = GenResourceID(n, svc.ports[k])
          PROVE  j = k0
        <2>1. PICK sv : sv = GetService(c, Entry(ing, j).svc, answers)
            OBVIOUS
        <2>2. PICK m \in DOMAIN sv.ports :
                 /\ GetServicePort(sv, Entry(ing, j).ref) = sv.ports[m]
                 /\ EntryResource(c, ing, j, answers).id
                        = GenResourceID(Entry(ing, j).svc, sv.ports[m])
            BY <2>1, EntryFacts
        <2>3. Entry(ing, j).svc = n
            <3>1. GenResourceID(Entry(ing, j).svc, sv.ports[m]) = GenResourceID(n, svc.ports[k])
                BY <1>6, <2>2
            <3>2. /\ GenResourceID(Entry(ing, j).svc, sv.ports[m])[1] = Entry(ing, j).svc
                  /\ GenResourceID(n, svc.ports[k])[1] = n
                BY IdNamesService
            <3> QED
                BY <3>1, <3>2
        <2>4. sv = svc
            BY <2>1, <2>3
        <2>5. m = k
            <3>1. /\ m \in DOMAIN svc.ports
                  /\ GenResourceID(n, svc.ports[m]) = GenResourceID(n, svc.ports[k])
                BY <1>6, <2>2, <2>3, <2>4
            <3>2. \A a, b \in DOMAIN svc.ports :
                     GenResourceID(n, svc.ports[a]) = GenResourceID(n, svc.ports[b]) => a = b
                BY <1>1, PortFacts
            <3> QED
                BY <3>1, <3>2
        <2>6. j \in About(ing, svc, svc.ports[k])
            BY <1>2, <2>2, <2>3, <2>4, <2>5 DEF About, Usable
        <2> QED
            BY <2>6
    <1>7. \A r : r \in ToSet(FromIngress(c, ing, answers)) <=>
                     \E j \in Usable(c, ing, answers) : r = EntryResource(c, ing, j, answers)
        BY IngressList
    <1> QED
        BY <1>4, <1>5, <1>6, <1>7 DEF OfPort

LEMMA AnyEventLast == CacheInv => LastEventIrrelevant
    <1> SUFFICES ASSUME CacheInv PROVE LastEventIrrelevant
        OBVIOUS
    <1>1. InformerInv /\ IsCache(cache) /\ IsAnswers(server)
        BY ServerFacts DEF CacheInv
    <1> SUFFICES ASSUME NEW n \in ServiceNames, InReach(n),
                        NEW k \in DOMAIN GetService(cache, n, server).ports,
                        PlainlyReferred(GetIngress(cache, n, server),
                                        GetService(cache, n, server),
                                        GetService(cache, n, server).ports[k])
                 PROVE  SameFromAll(GetService(cache, n, server),
                                    GetEndpoints(cache, n, server),
                                    GetIngress(cache, n, server),
                                    GetService(cache, n, server).ports[k])
        BY DEF LastEventIrrelevant
    <1>s. PICK svc : svc = GetService(cache, n, server)
        OBVIOUS
    <1>i. PICK ing : ing = GetIngress(cache, n, server)
        OBVIOUS
    <1>e. PICK en : en = GetEndpoints(cache, n, server)
        OBVIOUS
    <1>2. svc # None /\ en # None /\ k \in DOMAIN svc.ports
        BY <1>s, <1>e DEF InReach
    <1>3. IsVersion("Service", n, svc) /\ svc.name = n
        BY <1>1, <1>2, <1>s, GetServiceFacts, VersionFacts DEF AllKinds
    <1>4. en.name = n
        BY <1>1, <1>2, <1>e, EndpointsFacts
    <1>5. PICK i : IsVersion("Ingress", i, ing)
        BY <1>1, <1>i, MappedFacts
    <1>6. ing # None /\ DOMAIN ing.rules \subseteq Nat \ {0}
        BY <1>1, <1>5, VersionFacts, RuleFacts DEF AllKinds
    <1>7. PICK k0 \in Positions(ing) :
             /\ About(ing, svc, svc.ports[k]) = {k0}
             /\ GetServicePort(svc, Entry(ing, k0).ref) = svc.ports[k]
             /\ matchIngressBackend(svc.name, svc.ports[k], Entry(ing, k0))
        BY <1>s, <1>i DEF PlainlyReferred
    <1>8. OfPort(FromIngress(cache, ing, server), n, svc.ports[k])
          = {EntryResource(cache, ing, k0, server)}
        BY <1>1, <1>2, <1>5, <1>7, <1>s, EntryOnce
    <1>9. FromService(cache, svc, server) = resourcesFromPorts(svc, en, ing)
        BY <1>3, <1>i, <1>e DEF FromService
    <1>10. FromEndpoints(cache, en, server) = resourcesFromPorts(svc, en, ing)
        BY <1>2, <1>4, <1>s, <1>i DEF FromEndpoints
    <1>11. OfPort(resourcesFromPorts(svc, en, ing), n, svc.ports[k])
           = {PortResource(svc, en, ing, k)}
        BY <1>1, <1>2, <1>3, PortOnce
    <1>12. PortResource(svc, en, ing, k) = EntryResource(cache, ing, k0, server)
        <2>1. Entry(ing, k0).svc = n
            BY <1>3, <1>7 DEF About
        <2>2. PICK route : route = NewRoute(svc.ports[k].name, svc.annos)
            OBVIOUS
        <2>3. routePartsFromIngress(route, ing, svc.name, svc.ports[k])
              = IF k0 = 0 THEN {} ELSE RuleRoute(route, Entry(ing, k0))
            <3>1. PICK p : p = svc.ports[k]
                OBVIOUS
            <3>2. /\ About(ing, svc, p) = {k0}
                  /\ matchIngressBackend(svc.name, p, Entry(ing, k0))
                BY <1>7, <3>1
            <3>3. routePartsFromIngress(route, ing, svc.name, p)
                  = IF k0 = 0 THEN {} ELSE RuleRoute(route, Entry(ing, k0))
                BY <1>6, <3>2, SameRoute
            <3> QED
                BY <3>1, <3>3
        <2>4. PortResource(svc, en, ing, k)
              = NewResource(svc, en, svc.ports[k],
                    IF k0 = 0 THEN {} ELSE RuleRoute(route, Entry(ing, k0)))
            BY <1>6, <2>2, <2>3 DEF PortResource
        <2>5. EntryResource(cache, ing, k0, server)
              = NewResource(svc, en, svc.ports[k],
                    IF k0 = 0 THEN {} ELSE RuleRoute(route, Entry(ing, k0)))
            BY <1>7, <2>1, <2>2, <1>s, <1>e DEF EntryResource
        <2> QED
            BY <2>4, <2>5
    <1> QED
        BY <1>3, <1>8, <1>9, <1>10, <1>11, <1>12, <1>s, <1>i, <1>e DEF SameFromAll

(* A port that one entry of the mapped Ingress plainly refers to gets the  *)
(* same ID, route and servers from the service, from its Endpoints and     *)
(* from the Ingress (GenResources), so that it does not matter whose event *)
(* is handled last.                                                        *)
THEOREM LastEventDoesNotMatter == CacheSpec => []LastEventIrrelevant
    BY AnyEventLast, Inductive, PTL
=============================================================================
