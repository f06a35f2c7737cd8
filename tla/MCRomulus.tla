----------------------------- MODULE MCRomulus ------------------------------
(***************************************************************************)
(* Small clusters for Romulus: one service, its Endpoints, and an Ingress  *)
(* or none.                                                                *)
(***************************************************************************)
EXTENDS Romulus

MCDigits(n) == "80"
MCLess(x, y) == x[2] = "api" /\ y[2] = "web"

MCIds == {<<"s", "web">>, <<"s", "api">>}
MCRoutes == SUBSET {Part("host", "h"), Part("host", "h1")}
MCServers == {<<"ip", 80>>, <<"a", 8080>>, <<"b", 8080>>}

Port(name) == [name |-> name, port |-> 80]
Svc(ports) == [name |-> "s", ports |-> ports,
               annos |-> {[ns |-> "", key |-> "host", val |-> "h"]},
               clusterIP |-> "ip", externalIPs |-> {}]
Ends(addr) == [name |-> "s", subsets |-> {[name |-> "", port |-> 8080, addrs |-> {addr}]}]
Ing(port) == [name |-> "i", default |-> None,
              rules |-> <<[host |-> "h1", path |-> "", svc |-> "s",
                           ref |-> [kind |-> "string", str |-> port, num |-> 0]]>>]

Of(n, versions) == [m \in {n} |-> versions]
Nothing == [m \in {} |-> <<>>]
Cluster(services, ends, ingresses) ==
    [Service |-> Of("s", services), Endpoints |-> Of("s", ends), Ingress |-> ingresses]

Web == Svc(<<Port("web")>>)
Api == Svc(<<Port("api")>>)
Both == Svc(<<Port("web"), Port("api")>>)

(* The port is renamed and the addresses change; an Ingress comes and goes. *)
Renamed == {Cluster(<<Web, Api>>, <<Ends("a"), Ends("b")>>, Nothing)}
Routed  == {Cluster(<<Web>>, <<Ends("a")>>, Of("i", <<Ing("web")>>))}
Calm    == Renamed \cup Routed
Small   == {Cluster(<<Web, Api>>, <<Ends("a")>>, Nothing)}
(* Two ports, one of them in an Ingress.                                   *)
TwoPorts == {[Service |-> Of("s", <<Both>>), Endpoints |-> Nothing,
              Ingress |-> Of("i", <<Ing("api")>>)]}
=============================================================================
