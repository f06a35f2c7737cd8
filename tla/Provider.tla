------------------------------ MODULE Provider ------------------------------
(***************************************************************************)
(* What the engine may expect of UpsertBackend of a loadbalancer provider: *)
(* the values a backend may have after it, by the value b it had before    *)
(* (a set of servers, or None when there was no backend) and the servers   *)
(* it was given.  Engine uses this as the effect of the call, Vulcand      *)
(* shows that the calls vulcand.go makes amount to it.                     *)
(***************************************************************************)
CONSTANT None       \* "no such entry"

Held(b) == IF b = None THEN {} ELSE b

(* Success: every server given is there; servers that could not be listed  *)
(* or removed (those errors are ignored) may remain.                       *)
UpsertedBackend(b, srvs) == {srvs \cup extra : extra \in SUBSET Held(b)}

(* Failure: it stopped before the backend was written, or after some of    *)
(* the servers were.                                                       *)
BrokenBackend(b, srvs) == {b} \cup {Held(b) \cup some : some \in SUBSET srvs}

=============================================================================
