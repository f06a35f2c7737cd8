---------------------------- MODULE MCLeftovers -----------------------------
(***************************************************************************)
(* More clusters, for Leftovers: besides those of MCRomulus a service that *)
(* an Ingress refers to by the number of its port.                         *)
(***************************************************************************)
EXTENDS MCRomulus, Leftovers

ByNumber == [name |-> "i", default |-> None,
             rules |-> <<[host |-> "h1", path |-> "", svc |-> "s",
                          ref |-> [kind |-> "int", str |-> "80", num |-> 80]]>>]
Numbered == {[Service |-> Of("s", <<Web>>), Endpoints |-> Nothing,
              Ingress |-> Of("i", <<ByNumber>>)]}
Varied == Calm \cup TwoPorts \cup Numbered

MoreIds == MCIds \cup {<<"s", "80">>}
=============================================================================
