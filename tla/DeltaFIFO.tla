----------------------------- MODULE DeltaFIFO ------------------------------
(***************************************************************************)
(* The queue between a reflector and a controller (the vendored client's   *)
(* cache/delta_fifo.go), as operators on a record f:                       *)
(*   f.queue   the keys that wait, in order                                *)
(*   f.items   for each key, its deltas, oldest first (<<>>: not an item)  *)
(* A delta holds what an object was set to (Sync, Added and Updated, which *)
(* nobody tells apart), its final state when it was deleted, or, when its  *)
(* deletion was not seen, what was known of it last, which may be nothing  *)
(* (DeletedFinalStateUnknown).  An object is a version number, 0 is none.  *)
(* known is the client state: the version of each key, as last processed.  *)
(* There is no DeltaCompressor.                                            *)
(***************************************************************************)
EXTENDS Naturals, Sequences, FiniteSets

Delta(type, obj) == [type |-> type, obj |-> obj]

NewDeltaFIFO(keys) == [queue |-> <<>>, items |-> [k \in keys |-> <<>>]]

(* isDeletionDup: a is the newer of two deltas, b the older.               *)
isDeletionDup(a, b) == a.type # "Set" /\ b.type # "Set"

(* Of two deletions in a row one is kept: the one that knows more.         *)
dedupDeltas(deltas) ==
    LET n == Len(deltas) IN
    IF n < 2 THEN deltas
    ELSE IF isDeletionDup(deltas[n], deltas[n - 1])
    THEN Append(SubSeq(deltas, 1, n - 2),
                IF deltas[n - 1].type = "Unknown" THEN deltas[n] ELSE deltas[n - 1])
    ELSE deltas

(* Mutant: the key is queued again for each delta.                         *)
queueActionAgain(f, k, delta) ==
    [queue |-> Append(f.queue, k),
     items |-> [f.items EXCEPT ![k] = dedupDeltas(Append(@, delta))]]

queueAction(f, k, delta) ==
    [queue |-> IF f.items[k] = <<>> THEN Append(f.queue, k) ELSE f.queue,
     items |-> [f.items EXCEPT ![k] = dedupDeltas(Append(@, delta))]]

(* Add and Update.                                                         *)
Set(f, k, obj) == queueAction(f, k, Delta("Set", obj))

(* Mutant: the final state of the object is lost.                          *)
DeleteStateless(f, known, k, obj) ==
    IF known[k] = 0 THEN f ELSE queueAction(f, k, Delta("Deleted", 0))

(* A deletion of what is not known is ignored, though it may be queued.    *)
Delete(f, known, k, obj) ==
    IF known[k] = 0 THEN f ELSE queueAction(f, k, Delta("Deleted", obj))

(* The sequences that hold each member of S once.                          *)
Orders(S) ==
    {s \in [1..Cardinality(S) -> S] :
        /\ \A x \in S : \E m \in DOMAIN s : s[m] = x
        /\ \A m, n \in DOMAIN s : s[m] = s[n] => m = n}

(* Mutant: only the listed keys get a delta.                               *)
ReplacedListed(f, known, found, list) ==
    LET listed == {k \in DOMAIN list : list[k] # 0}
        fresh  == {k \in listed : f.items[k] = <<>>}
    IN  {[queue |-> f.queue \o first,
          items |-> [k \in DOMAIN list |->
                        IF k \in listed THEN Append(f.items[k], Delta("Set", list[k]))
                        ELSE f.items[k]]] : first \in Orders(fresh)}

(* Mutant: an object that is known as it is listed gets no delta.          *)
ReplacedChanged(f, known, found, list) ==
    LET listed == {k \in DOMAIN list : list[k] # 0 /\ list[k] # known[k]}
        gone   == {k \in DOMAIN list : list[k] = 0 /\ known[k] # 0}
        fresh  == {k \in DOMAIN list : f.items[k] = <<>>}
        delta(k) == IF k \in listed THEN Delta("Set", list[k])
                    ELSE Delta("Unknown", found[k])
        items  == [k \in DOMAIN list |->
                      IF k \in listed \cup gone
                      THEN dedupDeltas(Append(f.items[k], delta(k)))
                      ELSE f.items[k]]
    IN  {[queue |-> f.queue \o new[1] \o new[2], items |-> items] :
            new \in Orders(fresh \cap listed) \X Orders(fresh \cap gone)}

(* Replace: a delta for each key of the list (list[k] is its version, 0 if *)
(* it is not on it), then an unknown deletion for each other key that is   *)
(* known.  known is what ListKeys sees, found what GetByKey returns        *)
(* afterwards, one key at a time and with no lock against the controller:  *)
(* found[k] = 0 puts a marker without an object.  The set of the outcomes: *)
(* maps are walked in any order.                                           *)
Replaced(f, known, found, list) ==
    LET listed == {k \in DOMAIN list : list[k] # 0}
        gone   == {k \in DOMAIN list : list[k] = 0 /\ known[k] # 0}
        fresh  == {k \in DOMAIN list : f.items[k] = <<>>}
        delta(k) == IF k \in listed THEN Delta("Set", list[k])
                    ELSE Delta("Unknown", found[k])
        items  == [k \in DOMAIN list |->
                      IF k \in listed \cup gone
                      THEN dedupDeltas(Append(f.items[k], delta(k)))
                      ELSE f.items[k]]
    IN  {[queue |-> f.queue \o new[1] \o new[2], items |-> items] :
            new \in Orders(fresh \cap listed) \X Orders(fresh \cap gone)}

(* Pop gives the deltas of the first key.                                  *)
Popped(f) == f.items[Head(f.queue)]

AfterPop(f) ==
    [queue |-> Tail(f.queue), items |-> [f.items EXCEPT ![Head(f.queue)] = <<>>]]

(* What delta_fifo.go says it depends on: the items are what the queue     *)
(* lists, each key once.                                                   *)
Consistent(f) ==
    /\ \A k \in DOMAIN f.items :
          f.items[k] # <<>> <=> \E m \in DOMAIN f.queue : f.queue[m] = k
    /\ \A m, n \in DOMAIN f.queue : f.queue[m] = f.queue[n] => m = n

=============================================================================
