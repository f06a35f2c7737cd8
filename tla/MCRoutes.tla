------------------------------ MODULE MCRoutes ------------------------------
(***************************************************************************)
(* Routes for annotations with every kind of part or a few of them, as     *)
(* values and as expressions, and with or without an Ingress rule.         *)
(***************************************************************************)
EXTENDS Routes

Plainly(v) == [header |-> "", val |-> v, regex |-> "no"]
Expr(v) == [header |-> "", val |-> v, regex |-> "yes"]
Bad(v) == [header |-> "", val |-> v, regex |-> "bad"]
Header(h, v, r) == [header |-> h, val |-> v, regex |-> r]

Hosts == {<<Plainly("a.com")>>, <<Expr(".*com")>>, <<Bad("(")>>}
Paths == {<<Plainly("/a")>>, <<Expr("/a.*")>>}
PathPrefixes == {<<Plainly("/p")>>}
Methods == {<<Plainly("GET")>>, <<Plainly("GET"), Plainly("POST")>>}
Headers == {<<Header("X", "1", "no"), Header("Z", "(", "bad"), Header("Y", "2.*", "yes")>>}

Values == [host |-> Hosts, path |-> Paths, prefix |-> PathPrefixes,
           method |-> Methods, header |-> Headers]

MCAnnotations ==
    UNION {{f \in [S -> UNION {Values[k] : k \in S}] : \A k \in S : f[k] \in Values[k]} :
              S \in SUBSET DOMAIN Values}

MCRules == {[host |-> <<Plainly("b.com")>>, path |-> <<Plainly("/b")>>],
            [host |-> <<>>, path |-> <<Plainly("/b")>>],
            [host |-> <<Plainly("b.com")>>, path |-> <<>>]}
=============================================================================
