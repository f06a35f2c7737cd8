----------------------------- MODULE MCVulcand ------------------------------
(***************************************************************************)
(* Vulcand with three servers, of which resources have none, one or two,   *)
(* one of them twice (an address that two Endpoints ports share).          *)
(***************************************************************************)
EXTENDS Vulcand

CONSTANTS s1, s2, s3, r1, r2, m1, m2

W(servers, route, ms) == [servers |-> servers, route |-> route, mids |-> ms]

MCWants == {W(<<>>, r1, <<>>), W(<<s1>>, r2, <<m1>>), W(<<s1, s2>>, r1, <<m2, m1>>),
            W(<<s3, s2, s3>>, r2, <<m2>>)}
=============================================================================
