------------------------------ MODULE Informer ------------------------------
(***************************************************************************)
(* How events reach romulus: for each kind of object, a reflector that     *)
(* lists and watches the API server, a DeltaFIFO and the controller that   *)
(* takes it apart (the vendored client's cache/reflector.go and            *)
(* framework/controller.go).                                               *)
(*                                                                         *)
(* The objects there may be are given by cluster: cluster[kind][name] is   *)
(* the sequence of what an object can say, a version is a position in it,  *)
(* version 0 is no object.                                                 *)
(***************************************************************************)
EXTENDS DeltaFIFO

CONSTANTS
    Clusters,       \* the clusters to look at
    MaxChanges,     \* bound: changes made in the API server
    MaxDeltas       \* bound: deltas that wait for one object

AllKinds == {"Service", "Endpoints", "Ingress"}

(* An object is kept under its name.                                       *)
ASSUME ClustersAssumption ==
    \A cl \in Clusters :
        /\ DOMAIN cl = AllKinds
        /\ \A kind \in AllKinds :
              /\ IsFiniteSet(DOMAIN cl[kind])
              /\ \A n \in DOMAIN cl[kind] :
                    /\ Len(cl[kind][n]) \in Nat
                    /\ \A v \in 1..Len(cl[kind][n]) : cl[kind][n][v].name = n

VARIABLES
    cluster,        \* what the objects of each kind may say
    changes,        \* how many changes were made
    base,           \* [kind -> [name -> version]], as the reflector saw it last
    wire,           \* for each kind, the changes it has not seen, oldest first
    fifo,           \* for each kind, its DeltaFIFO
    known,          \* for each kind, the controller's client state
    cur,            \* for each kind, the deltas popped and not yet processed
    call            \* for each kind, the callback that is due: <<>> or <<call>>

informerVars == <<cluster, changes, base, wire, fifo, known, cur, call>>

Kinds == DOMAIN cluster
Versions(kind, n) == 0..Len(cluster[kind][n])

(* A state of the API server that is some changes ahead.                   *)
After(b, events) ==
    [n \in DOMAIN b |->
        LET mine == {k \in DOMAIN events : events[k].name = n}
        IN  IF mine = {} THEN b[n]
            ELSE events[CHOOSE k \in mine : \A m \in mine : m <= k].obj]

server == [kind \in Kinds |-> After(base[kind], wire[kind])]

InformerInit ==
    /\ cluster \in Clusters
    /\ changes = 0
    /\ base  = [kind \in Kinds |-> [n \in DOMAIN cluster[kind] |-> 0]]
    /\ wire  = [kind \in Kinds |-> <<>>]
    /\ fifo  = [kind \in Kinds |-> NewDeltaFIFO(DOMAIN cluster[kind])]
    /\ known = base
    /\ cur   = [kind \in Kinds |-> <<>>]
    /\ call  = [kind \in Kinds |-> <<>>]

(* External: a user, or a controller of kubernetes, creates, changes or    *)
(* deletes an object.                                                      *)
Change(kind, n, v) ==
    /\ changes < MaxChanges
    /\ v # server[kind][n]
    /\ changes' = changes + 1
    /\ wire' = [wire EXCEPT ![kind] = Append(@, [name |-> n, obj |-> v])]
    /\ UNCHANGED <<cluster, base, fifo, known, cur, call>>

-----------------------------------------------------------------------------
(***************************************************************************)
(* The reflector.                                                          *)
(***************************************************************************)
Room(kind, max) == \A n \in DOMAIN fifo[kind].items : Len(fifo[kind].items[n]) < max

(* watchHandler: a deletion carries the last state.                        *)
Watch(kind) ==
    /\ wire[kind] # <<>>
    /\ Room(kind, MaxDeltas)
    /\ LET event == Head(wire[kind])
           n     == event.name
       IN  /\ base' = [base EXCEPT ![kind][n] = event.obj]
           /\ fifo' = [fifo EXCEPT ![kind] =
                          IF event.obj # 0 THEN Set(@, n, event.obj)
                          ELSE Delete(@, known[kind], n, base[kind][n])]
    /\ wire' = [wire EXCEPT ![kind] = Tail(@)]
    /\ UNCHANGED <<cluster, changes, known, cur, call>>

(* What GetByKey may return to Replace after ListKeys saw known: Pop waits *)
(* for Replace, but the controller goes on with the deltas it has popped,  *)
(* which are all of one key.                                               *)
FoundLater(kind) ==
    {known[kind]} \cup
    {[known[kind] EXCEPT ![cur[kind][k].name] =
         IF cur[kind][k].delta.type = "Set" THEN cur[kind][k].delta.obj ELSE 0] :
        k \in DOMAIN cur[kind]}

(* ListAndWatch again, after the sync interval or when the watch failed:   *)
(* the list has the first `missed` changes that the watch did not deliver, *)
(* those that come later are watched.  (It leaves room for the watch, so   *)
(* that the bound does not keep an event away for ever.)                   *)
Relist(kind, missed) ==
    LET list == After(base[kind], SubSeq(wire[kind], 1, missed)) IN
    /\ Room(kind, MaxDeltas - 1)
    /\ \E found \in FoundLater(kind) :
          \E f \in Replaced(fifo[kind], known[kind], found, list) :
             fifo' = [fifo EXCEPT ![kind] = f]
    /\ base' = [base EXCEPT ![kind] = list]
    /\ wire' = [wire EXCEPT ![kind] = SubSeq(@, missed + 1, Len(@))]
    /\ UNCHANGED <<cluster, changes, known, cur, call>>

-----------------------------------------------------------------------------
(***************************************************************************)
(* The controller.                                                         *)
(***************************************************************************)
Tagged(n, deltas) == [k \in DOMAIN deltas |-> [name |-> n, delta |-> deltas[k]]]

(* Process, for one delta: the callback it leads to.  A deletion is told   *)
(* of even if the client state has no such object.                         *)
CallOf(state, n, delta) ==
    IF delta.type = "Set"
    THEN [name |-> n, event |-> IF state[n] # 0 THEN "update" ELSE "add",
          old |-> state[n], new |-> delta.obj]
    ELSE [name |-> n, event |-> IF delta.type = "Deleted" THEN "delete" ELSE "unknown",
          old |-> delta.obj, new |-> 0]

(* Mutant: the client state keeps the version it had first.                *)
UpdateStateOnce(state, n, c) ==
    [state EXCEPT ![n] = IF c.event = "update" THEN @ ELSE c.new]

UpdateState(state, n, c) == [state EXCEPT ![n] = c.new]

(* processLoop and Process up to the callback: the next delta, of those    *)
(* popped last or of a new Pop, changes the client state.                  *)
Process(kind) ==
    LET more == cur[kind] # <<>>
        todo == IF more THEN cur[kind]
                ELSE Tagged(Head(fifo[kind].queue), Popped(fifo[kind]))
        n    == Head(todo).name
        c    == CallOf(known[kind], n, Head(todo).delta)
    IN  /\ call[kind] = <<>>
        /\ more \/ fifo[kind].queue # <<>>
        /\ fifo' = [fifo EXCEPT ![kind] = IF more THEN @ ELSE AfterPop(@)]
        /\ cur'  = [cur EXCEPT ![kind] = Tail(todo)]
        /\ call' = [call EXCEPT ![kind] = <<c>>]
        /\ known' = [known EXCEPT ![kind] = UpdateState(@, n, c)]
        /\ UNCHANGED <<cluster, changes, base, wire>>

(* The callback is made and returns.                                       *)
Called(kind, c) ==
    /\ call[kind] = <<c>>
    /\ call' = [call EXCEPT ![kind] = <<>>]
    /\ UNCHANGED <<cluster, changes, base, wire, fifo, known, cur>>

Environment ==
    \E kind \in Kinds : \E n \in DOMAIN cluster[kind] :
        \E v \in Versions(kind, n) : Change(kind, n, v)

Informing ==
    \E kind \in Kinds :
        \/ Watch(kind)
        \/ \E missed \in 0..Len(wire[kind]) : Relist(kind, missed)
        \/ Process(kind)

(* Nothing waits anywhere between the API server and the callbacks.        *)
Drained(kind) ==
    wire[kind] = <<>> /\ fifo[kind].queue = <<>> /\ cur[kind] = <<>> /\ call[kind] = <<>>

=============================================================================
