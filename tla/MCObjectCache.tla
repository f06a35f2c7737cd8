--------------------------- MODULE MCObjectCache ----------------------------
(***************************************************************************)
(* Small clusters for ObjectCache.  The services differ in how their ports *)
(* are named and annotated, the Ingresses in how they refer to them.       *)
(***************************************************************************)
EXTENDS ObjectCache

Names == <<"80", "81", "api", "s", "t", "web">>
Rank(x) == CHOOSE k \in DOMAIN Names : Names[k] = x
MCLess(x, y) == \/ Rank(x[1]) < Rank(y[1])
                \/ x[1] = y[1] /\ Rank(x[2]) < Rank(y[2])
MCDigits(n) == IF n = 80 THEN "80" ELSE "81"

Port(name, num) == [name |-> name, port |-> num]
Named(x)  == [kind |-> "string", str |-> x, num |-> 0]
Number(n) == [kind |-> "int", str |-> MCDigits(n), num |-> n]
Quoted(n) == [kind |-> "string", str |-> MCDigits(n), num |-> n]

Anno(ns, key, val) == [ns |-> ns, key |-> key, val |-> val]
Annos == {Anno("", "host", "h0"), Anno("web", "host", "hw"),
          Anno("", "prefix", "p0"), Anno("", "path", "|(|")}

Svc(n, ports) == [name |-> n, ports |-> ports, annos |-> Annos,
                  clusterIP |-> "ip", externalIPs |-> {}]
Ends(n, subsets) == [name |-> n, subsets |-> subsets]
Sub(name, num, addrs) == [name |-> name, port |-> num, addrs |-> addrs]
Rule(host, path, n, ref) == [host |-> host, path |-> path, svc |-> n, ref |-> ref]
Back(n, ref) == [svc |-> n, ref |-> ref]
Ing(n, default, rules) == [name |-> n, default |-> default, rules |-> rules]

(* Objects that have one version.                                          *)
One(x, v) == [n \in {x} |-> <<v>>]
Nothing == [n \in {} |-> <<>>]
ClusterOf(svc, ends, ings) ==
    [Service |-> One(svc.name, svc), Endpoints |-> ends, Ingress |-> ings]

Web == Svc("s", <<Port("web", 80)>>)
Two == Svc("s", <<Port("web", 80), Port("api", 81)>>)
Bare == [Svc("s", <<Port("", 80)>>) EXCEPT !.clusterIP = None, !.externalIPs = {"x"}]
WebEnds == One("s", Ends("s", {Sub("web", 8080, {"a", "b"})}))
TwoEnds == One("s", Ends("s", {Sub("web", 8080, {"a"}), Sub("api", 8081, {"b"})}))

(* One entry for each port: by name and by default, by number, unnamed.    *)
Plain == {
    ClusterOf(Two, TwoEnds,
        One("i", Ing("i", Back("s", Named("web")),
                     <<Rule("|(|", "/p", "s", Number(81))>>))),
    ClusterOf(Bare, Nothing,
        One("s", Ing("s", None, <<Rule("", "/p", "s", Number(80)),
                                  Rule("h1", "", "t", Number(80))>>)))}

(* The Ingress and the Service of the project's README.                    *)
Readme == {
    ClusterOf(Svc("s", <<Port("api", 80)>>),
        One("s", Ends("s", {Sub("api", 8080, {"a"})})),
        One("i", Ing("i", None, <<Rule("h1", "/v1", "s", Named("api"))>>)))}

(* Two entries for a port, or a number written as a string.                *)
Mixed == {
    ClusterOf(Web, WebEnds,
        One("i", Ing("i", None, <<Rule("h1", "/p", "s", Named("web")),
                                  Rule("h1", "/q", "s", Number(80))>>))),
    ClusterOf(Web, Nothing,
        One("i", Ing("i", None, <<Rule("h1", "/p", "s", Quoted(80))>>)))}

(* Two Ingresses for one service, one of them perhaps of its name.         *)
Shared == {
    ClusterOf(Web, Nothing,
        [n \in names |-> <<Ing(n, None, <<Rule(n, "/p", "s", Named("web"))>>)>>]) :
    names \in {{"i", "s"}, {"i", "j"}}}

(* A service whose port is renamed, and an Ingress that follows it.        *)
Renamed == {
    [Service   |-> [n \in {"s"} |-> <<Web, Svc("s", <<Port("api", 80)>>)>>],
     Endpoints |-> Nothing,
     Ingress   |-> [n \in {"i"} |->
                       <<Ing("i", None, <<Rule("h1", "", "s", Named("web"))>>),
                         Ing("i", None, <<Rule("h1", "", "s", Named("api"))>>)>>]]}

AllClusters == Plain \cup Mixed \cup Shared \cup Renamed
=============================================================================
