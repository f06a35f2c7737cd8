----------------------------- MODULE Resources ------------------------------
(***************************************************************************)
(* How kubernetes objects become loadbalancer resources: GenResources and  *)
(* its helpers (kubernetes/resource.go, util.go, sort.go), as functions of *)
(* the object and of what the lookups in cache.go find.                    *)
(*                                                                         *)
(* All objects are of one namespace.  A service is                         *)
(*   [name, ports : sequence of [name, port], annos : set of               *)
(*    [ns, key, val], clusterIP, externalIPs]                              *)
(* an Endpoints [name, subsets : set of [name, port, addrs]], and an       *)
(* Ingress [name, default : a reference or None, rules : sequence of       *)
(* [host, path, svc, ref]], its rules and their paths flattened.  A        *)
(* reference to a port is an IntOrString: its kind, and what String() and  *)
(* IntValue() return for it.                                               *)
(***************************************************************************)
EXTENDS Naturals, Sequences, FiniteSets

CONSTANTS
    None,           \* no object, no reference
    BadRegexps,     \* |...| values that do not compile
    Digits(_),      \* strconv.Itoa
    Less(_, _)      \* the order of strings, on resource IDs

-----------------------------------------------------------------------------
(* util.go: GenResourceID(namespace, name, intstrFromPort(name, port)).    *)
GenResourceID(svc, port) ==
    <<svc, IF port.name # "" THEN port.name ELSE Digits(port.port)>>

(* util.go: GetServicePort, the first port of that name or number.         *)
RefersTo(ref, port) == ref.str = port.name \/ ref.num = port.port

GetServicePort(svc, ref) ==
    LET hits == {k \in DOMAIN svc.ports : RefersTo(ref, svc.ports[k])}
    IN  IF hits = {} THEN None
        ELSE svc.ports[CHOOSE k \in hits : \A m \in hits : k <= m]

(* util.go: matchIntStr, matchIngressBackend and matchPort.                *)
matchIntStr(name, num, ref) ==
    \/ ref.kind = "int" /\ num # 0 /\ ref.num = num
    \/ ref.kind = "string" /\ name # "" /\ ref.str = name

matchIngressBackend(name, port, backend) ==
    name = backend.svc /\ matchIntStr(port.name, port.port, backend.ref)

matchPort(port, subset) ==
    port.name # "" /\ subset.name # "" => port.name = subset.name

-----------------------------------------------------------------------------
(* A route is its set of parts; of the kinds that an Ingress or a service  *)
(* may set once: host, path, prefix.  add refuses a bad regexp.            *)
Part(kind, val) == [kind |-> kind, val |-> val]

AddPart(route, kind, val) ==
    IF val \in BadRegexps THEN route ELSE route \cup {Part(kind, val)}

DeletePart(route, kind) == {p \in route : p.kind # kind}

(* NewResource, 27-46: an annotation of the port's own namespace wins over *)
(* one without; others are ignored, and so are all when the port has no    *)
(* name.  NewRoute, 72-105: one part for each that compiles.               *)
NewRoute(portName, annos) ==
    LET own == {a \in annos : portName # "" /\ a.ns = portName}
        an  == own \cup {a \in annos : a.ns = "" /\ ~\E o \in own : o.key = a.key}
    IN  {Part(a.key, a.val) : a \in {x \in an : x.val \notin BadRegexps}}

(* resourcesFromIngress, 188-195, and routePartsFromIngress, 346-353: a    *)
(* host or path of the rule replaces the annotation's.                     *)
Replace(route, kind, val) ==
    IF val = "" THEN route ELSE AddPart(DeletePart(route, kind), kind, val)

RuleRoute(route, rule) ==
    Replace(Replace(route, "host", rule.host), "path", rule.path)

-----------------------------------------------------------------------------
(* AddServers: the addresses of the matching Endpoints ports, or else the  *)
(* service's own addresses.                                                *)
addServersFromEndpoints(en, port) ==
    IF en = None THEN {}
    ELSE UNION {{<<ip, sub.port>> : ip \in sub.addrs} :
                   sub \in {s \in en.subsets : matchPort(port, s)}}

addServersFromService(svc, port) ==
    {<<ip, port.port>> : ip \in IF svc.clusterIP # None THEN {svc.clusterIP}
                                ELSE svc.externalIPs}

AddServers(svc, en, port) ==
    LET found == addServersFromEndpoints(en, port)
    IN  IF found # {} THEN found ELSE addServersFromService(svc, port)

NewResource(svc, en, port, route) ==
    [id      |-> GenResourceID(svc.name, port),
     route   |-> route,
     servers |-> AddServers(svc, en, port)]

(* sort.go: Sort(list, ByID).  list is given by position, perhaps with     *)
(* gaps.  Lists this short are sorted by insertion, which keeps the order  *)
(* of equal IDs.                                                           *)
SortByID(list) ==
    LET before(m, k) == \/ Less(list[m].id, list[k].id)
                        \/ list[m].id = list[k].id /\ m <= k
        place(k) == Cardinality({m \in DOMAIN list : before(m, k)})
    IN  [n \in 1..Cardinality(DOMAIN list) |->
            list[CHOOSE k \in DOMAIN list : place(k) = n]]

-----------------------------------------------------------------------------
(***************************************************************************)
(* GenResources.  svcs and ens are what GetService and GetEndpoints return *)
(* for each service name (None when they fail), ing what GetIngress        *)
(* returns for the service.                                                *)
(***************************************************************************)
(* The entries of an Ingress: its default backend, at position 0, and its  *)
(* rules.                                                                  *)
Positions(ing) == (IF ing.default = None THEN {} ELSE {0}) \cup DOMAIN ing.rules
Entry(ing, k) == IF k = 0 THEN ing.default ELSE ing.rules[k]

(* The port an entry of an Ingress resolves to, or None: then the entry is *)
(* skipped.                                                                *)
Resolved(svcs, entry) ==
    IF svcs[entry.svc] = None THEN None
    ELSE GetServicePort(svcs[entry.svc], entry.ref)

(* The route that the service's annotations give to the port of an entry.  *)
AnnotatedRoute(svcs, entry) ==
    NewRoute(Resolved(svcs, entry).name, svcs[entry.svc].annos)

(* Mutant: the ID is made of the reference, not of the port it resolves to. *)
FromEntryByRef(svcs, ens, entry, route) ==
    [NewResource(svcs[entry.svc], ens[entry.svc], Resolved(svcs, entry), route)
        EXCEPT !.id = <<entry.svc, entry.ref.str>>]

FromEntry(svcs, ens, entry, route) ==
    NewResource(svcs[entry.svc], ens[entry.svc], Resolved(svcs, entry), route)

(* Mutant: a default backend keeps the route of the annotations.           *)
resourcesFromIngressKept(svcs, ens, ing) ==
    SortByID([k \in {m \in Positions(ing) : Resolved(svcs, Entry(ing, m)) # None} |->
        LET entry == Entry(ing, k) IN
        FromEntry(svcs, ens, entry,
                  IF k = 0 THEN AnnotatedRoute(svcs, entry)
                  ELSE RuleRoute(AnnotatedRoute(svcs, entry), entry))])

resourcesFromIngress(svcs, ens, ing) ==
    SortByID([k \in {m \in Positions(ing) : Resolved(svcs, Entry(ing, m)) # None} |->
        LET entry == Entry(ing, k) IN
        FromEntry(svcs, ens, entry,
                  IF k = 0 THEN {} ELSE RuleRoute(AnnotatedRoute(svcs, entry), entry))])

(* The default backend first, then the first rule that matches.            *)
routePartsFromIngress(route, ing, name, port) ==
    LET hits == {k \in DOMAIN ing.rules :
                    matchIngressBackend(name, port, ing.rules[k])}
    IN  IF ing.default # None /\ matchIngressBackend(name, port, ing.default)
        THEN {}
        ELSE IF hits = {} THEN route
        ELSE RuleRoute(route, ing.rules[CHOOSE k \in hits : \A m \in hits : k <= m])

(* resourcesFromService and resourcesFromEndpoints differ in where svc and *)
(* en come from.                                                           *)
resourcesFromPorts(svc, en, ing) ==
    SortByID(
        [k \in DOMAIN svc.ports |->
            LET port  == svc.ports[k]
                route == NewRoute(port.name, svc.annos)
            IN  NewResource(svc, en, port,
                    IF ing = None THEN route
                    ELSE routePartsFromIngress(route, ing, svc.name, port))])

=============================================================================
