------------------------------- MODULE Routes -------------------------------
(***************************************************************************)
(* From the annotations of a service and a rule of an Ingress to what the  *)
(* loadbalancers match requests against: kubernetes.NewRoute, which walks  *)
(* a Go map of annotations in any order, the rule that is put on top of    *)
(* it, and NewRoute of each provider (vulcand/route.go, traefik/route.go). *)
(***************************************************************************)
EXTENDS Naturals, SequencesExt

CONSTANTS
    Annotations,    \* functions from kinds of parts to what the annotation
                    \* lists: sequences of [header, val, regex], where regex
                    \* is "no", "yes", or "bad" if it does not compile
    IngressRules    \* [host, path], each a sequence of at most one entry

PartKinds == {"host", "path", "prefix", "method", "header"}

IsEntries(list) ==
    /\ Len(list) \in Nat
    /\ list = [k \in 1..Len(list) |-> list[k]]

(* A service has one host, one path and one prefix at most.                *)
ASSUME AnnotationsAssumption ==
    \A a \in Annotations :
        /\ DOMAIN a \subseteq PartKinds
        /\ \A kind \in DOMAIN a :
              IsEntries(a[kind]) /\ (kind \notin {"method", "header"} => Len(a[kind]) <= 1)
ASSUME RulesAssumption ==
    \A r \in IngressRules : \A list \in {r.host, r.path} : IsEntries(list) /\ Len(list) <= 1

VARIABLES
    annos,          \* the annotations
    rule,           \* the Ingress rule: at most one
    todo,           \* the annotations not yet walked
    applied,        \* whether the rule is applied
    parts           \* Route.parts

routeVars == <<annos, rule, todo, applied, parts>>

Init ==
    /\ annos \in Annotations
    /\ rule \in {<<>>} \cup {<<r>> : r \in IngressRules}
    /\ todo = DOMAIN annos
    /\ applied = FALSE
    /\ parts = <<>>

(* The members of a list at some of its positions, in their order.         *)
Pick(list, positions) ==
    LET place(k) == Cardinality({j \in positions : j <= k})
    IN  [n \in 1..Cardinality(positions) |->
            list[CHOOSE k \in positions : place(k) = n]]

(* add refuses what does not compile.                                      *)
Added(kind, entries) ==
    LET good == Pick(entries, {k \in DOMAIN entries : entries[k].regex # "bad"})
    IN  [k \in DOMAIN good |-> [kind |-> kind,
                                header |-> IF kind = "header" THEN good[k].header ELSE "",
                                val |-> good[k].val, regex |-> good[k].regex = "yes"]]

OfKind(list, kind) == Pick(list, {k \in DOMAIN list : list[k].kind = kind})
Without(list, kind) == Pick(list, {k \in DOMAIN list : list[k].kind # kind})
LastOf(list) == IF list = <<>> THEN <<>> ELSE <<Last(list)>>

(* NewRoute, one annotation.                                               *)
Walk(key) ==
    /\ key \in todo
    /\ todo' = todo \ {key}
    /\ parts' = parts \o Added(key, annos[key])
    /\ UNCHANGED <<annos, rule, applied>>

(* resourcesFromIngress and routePartsFromIngress: a host or a path of the *)
(* rule takes the place of the annotation's.                               *)
Replaced(list, kind, entries) ==
    IF entries = <<>> THEN list
    ELSE Without(list, kind) \o Added(kind, entries)

Ruled(list, r) == Replaced(Replaced(list, "host", r.host), "path", r.path)

ApplyRule ==
    /\ todo = {}
    /\ ~applied
    /\ applied' = TRUE
    /\ parts' = IF rule = <<>> THEN parts ELSE Ruled(parts, rule[1])
    /\ UNCHANGED <<annos, rule, todo>>

Next == ApplyRule \/ \E key \in todo : Walk(key)

Spec == Init /\ [][Next]_routeVars

-----------------------------------------------------------------------------
(***************************************************************************)
(* What a provider makes of the parts.  A matcher says what it looks at    *)
(* and whether its value is an expression.                                 *)
(***************************************************************************)
Matcher(on, header, val, regex) ==
    [on |-> on, header |-> header, val |-> val, regex |-> regex]

(* vulcand: "prefix" stands for PathRegexp of the value and ".*".          *)
VulcandPart(p) == Matcher(p.kind, p.header, p.val, p.regex \/ p.kind = "prefix")

(* Mutant: the later of path and prefix is used.                           *)
VulcandPathLast(list) ==
    LastOf(Pick(list, {k \in DOMAIN list : list[k].kind \in {"path", "prefix"}}))

(* Once there is a prefix, a path is not looked at.                        *)
VulcandPath(list) ==
    IF OfKind(list, "prefix") # <<>> THEN LastOf(OfKind(list, "prefix"))
    ELSE LastOf(OfKind(list, "path"))

(* One host, one path, every method and header, joined by && in this       *)
(* order; for no parts, the path ".*".                                     *)
VulcandRoute(list) ==
    LET all == LastOf(OfKind(list, "host")) \o VulcandPath(list)
               \o OfKind(list, "method") \o OfKind(list, "header")
    IN  IF list = <<>> THEN <<Matcher("path", "", ".*", TRUE)>>
        ELSE [k \in DOMAIN all |-> VulcandPart(all[k])]

(* Mutant: a header that is an expression goes with the others.            *)
TraefikHeadersMixed(list) ==
    LET heads == OfKind(list, "header")
    IN  {Matcher("header", heads[k].header, heads[k].val, FALSE) : k \in DOMAIN heads}

(* traefik: rules of two sorts for headers ...                             *)
TraefikHeaders(list) ==
    LET heads == OfKind(list, "header")
    IN  {Matcher("header", heads[k].header, heads[k].val, heads[k].regex) :
            k \in DOMAIN heads}

(* ... and of one for the rest, which is no expression.  The last of each  *)
(* kind is kept.                                                           *)
TraefikRules(list, kind) ==
    {Matcher(kind, "", p.val, FALSE) : p \in ToSet(LastOf(OfKind(list, kind)))}

TraefikRoute(list) ==
    TraefikHeaders(list)
    \cup UNION {TraefikRules(list, kind) : kind \in {"host", "method", "path", "prefix"}}

-----------------------------------------------------------------------------
(***************************************************************************)
(* Properties.                                                             *)
(***************************************************************************)

(* The parts, had the annotations been walked in the order of PartKinds.   *)
Listed(kind) == IF kind \in DOMAIN annos THEN Added(kind, annos[kind]) ELSE <<>>

InOrder ==
    LET walked == Listed("host") \o Listed("path") \o Listed("prefix")
                  \o Listed("method") \o Listed("header")
    IN  IF rule = <<>> THEN walked ELSE Ruled(walked, rule[1])

(* The route of a service is the same each time it is computed, however    *)
(* the map of its annotations is walked: vulcand's expression to the       *)
(* letter, and traefik's rules.  Otherwise each resync might change it.    *)
OrderIrrelevant ==
    applied =>
        /\ VulcandRoute(parts) = VulcandRoute(InOrder)
        /\ TraefikRoute(parts) = TraefikRoute(InOrder)

(* A route that both can say: something, no expression but of a header,    *)
(* one method, and not both a path and a prefix.                           *)
Plain(list) ==
    /\ list # <<>>
    /\ \A k \in DOMAIN list : list[k].regex => list[k].kind = "header"
    /\ Len(OfKind(list, "method")) <= 1
    /\ OfKind(list, "path") = <<>> \/ OfKind(list, "prefix") = <<>>

PartMatcher(p) == Matcher(p.kind, p.header, p.val, p.regex)
SameSort(m) == [m EXCEPT !.regex = @ /\ m.on # "prefix"]

(* A plain route means the same to both providers: they look at the same   *)
(* things and for the same values, and at every part of the route.         *)
ProvidersAgree ==
    applied /\ Plain(parts) =>
        /\ {SameSort(m) : m \in ToSet(VulcandRoute(parts))} = TraefikRoute(parts)
        /\ TraefikRoute(parts) = {PartMatcher(parts[k]) : k \in DOMAIN parts}

(* An expression stays one, whichever the provider is.                     *)
ExpressionsKept ==
    applied => \A k \in DOMAIN parts : parts[k].regex =>
        \E m \in TraefikRoute(parts) : m.on = parts[k].kind /\ m.regex

(* The path of an Ingress rule is what requests are matched against.       *)
RulePathUsed ==
    applied /\ rule # <<>> =>
        \A k \in DOMAIN rule[1].path :
            \E m \in ToSet(VulcandRoute(parts)) :
                m.on = "path" /\ m.val = rule[1].path[k].val

=============================================================================
