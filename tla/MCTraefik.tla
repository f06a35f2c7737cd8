----------------------------- MODULE MCTraefik ------------------------------
(***************************************************************************)
(* Traefik with two servers and two rules, of which resources have none,   *)
(* one or both.                                                            *)
(***************************************************************************)
EXTENDS Traefik

W(servers, rules, passHost, breaker) ==
    [servers |-> servers, rules |-> rules, passHost |-> passHost, breaker |-> breaker]

Host(v) == [r \in {"host"} |-> v]
HostPath(v, p) == [r \in {"host", "path"} |-> IF r = "host" THEN v ELSE p]

MCWants == {W({}, [r \in {} |-> ""], FALSE, ""), W({"a"}, Host("h1"), FALSE, "cb"),
            W({"a", "b"}, HostPath("h1", "h2"), TRUE, "cb"), W({"b"}, Host("h2"), TRUE, "cb")}
=============================================================================
