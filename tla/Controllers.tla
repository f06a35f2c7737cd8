---------------------------- MODULE Controllers -----------------------------
(***************************************************************************)
(* The callbacks that CreateFullController (kubernetes/kubernetes.go)      *)
(* registers with the informers: what of the changes in the API server     *)
(* reaches the Updater, which is the engine.                               *)
(***************************************************************************)
EXTENDS Informer

VARIABLE
    told            \* history: [kind -> [name -> version]], as the Updater
                    \* was told last

controllerVars == <<informerVars, told>>

ControllersInit == InformerInit /\ told = base

(* logCallback refuses what is none of the three types.                    *)
logCallback(c) == c.event # "unknown"

(* addDelete and update.                                                   *)
Tell(kind, c) ==
    /\ Called(kind, c)
    /\ told' = IF logCallback(c) THEN [told EXCEPT ![kind][c.name] = c.new] ELSE told

-----------------------------------------------------------------------------
(***************************************************************************)
(* Properties.                                                             *)
(***************************************************************************)

(* Deltas tell of objects of the cluster; only the marker of a deletion    *)
(* that was not seen may be without one.                                   *)
IsDeltas(kind, n, deltas) ==
    \A k \in DOMAIN deltas : /\ deltas[k].type \in {"Set", "Deleted", "Unknown"}
                             /\ deltas[k].obj \in Versions(kind, n)
                             /\ deltas[k].obj = 0 => deltas[k].type = "Unknown"

InformersOK ==
    \A kind \in Kinds :
        /\ \A s \in {base[kind], known[kind], told[kind]} :
              \A n \in DOMAIN cluster[kind] : s[n] \in Versions(kind, n)
        /\ \A n \in DOMAIN cluster[kind] : IsDeltas(kind, n, fifo[kind].items[n])
        /\ \A k \in DOMAIN cur[kind] :
              IsDeltas(kind, cur[kind][k].name, <<cur[kind][k].delta>>)
        /\ Len(call[kind]) <= 1

(* The queue of each informer lists its items, each once, through watch    *)
(* events, lists and pops in any order: otherwise an event would never be  *)
(* handled.                                                                *)
QueueMatchesItems == \A kind \in Kinds : Consistent(fifo[kind])

(* Update and Delete are called with the version the engine was given last *)
(* (it computes from it what to remove), however deltas were merged, lists *)
(* cut the watch short and the queue was popped in between.                *)
OldIsWhatWasTold ==
    \A kind \in Kinds : \A k \in DOMAIN call[kind] :
        LET c == call[kind][k] IN
        c.event \in {"update", "delete"} => c.old = told[kind][c.name]

(* Once changes cease, the controller's state is that of the API server,   *)
(* though its queue may have ignored deletions and its reflector missed    *)
(* events: the periodic list repairs both.                                 *)
KnownConverges == <>[](known = server)

(* The same of what the engine was told.                                   *)
ToldConverges == <>[](told = server)

=============================================================================
