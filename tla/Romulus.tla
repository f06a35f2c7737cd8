------------------------------ MODULE Romulus -------------------------------
(***************************************************************************)
(* Romulus as a whole: the informers, the object cache and the engine      *)
(* (engine.go), with the provider's table at the end.  A callback waits    *)
(* for the engine's mutex; when it gets it, GenResources reads and writes  *)
(* the cache in one step, and what follows are the engine's calls to the   *)
(* provider, during which objects change, events arrive and stores move.   *)
(*                                                                         *)
(* Trouble says what may go wrong around romulus:                          *)
(*   "burst"    an object changes again before its last change is handled  *)
(*   "missed"   a list cuts the watch short, so that events are not seen   *)
(*   "lag"      the stores of the cache are behind the API server          *)
(*   "fault"    calls to the provider fail, half fail, or take too long    *)
(*   "crash"    the process dies or is stopped, and is started again       *)
(***************************************************************************)
EXTENDS ObjectCache

CONSTANTS
    Ids, Routes, Servers,
    MaxAttempts,    \* attempts of one Commit before NextBackOff says Stop
    Trouble

ASSUME EngineAssumption ==
    /\ None \notin AllKinds
    /\ \A route \in Routes : route # None
    /\ \A srvs \in SUBSET Servers : srvs # None
    /\ MaxAttempts \in Nat

(* The table has room for what the objects of a cluster can ask for.       *)
ASSUME TableAssumption ==
    /\ {} \in Routes
    /\ \A cl \in Clusters : \A n \in DOMAIN cl.Service : \A v \in 1..Len(cl.Service[n]) :
          LET svc == cl.Service[n][v] IN
          \A k \in DOMAIN svc.ports :
             LET port  == svc.ports[k]
                 route == NewRoute(port.name, svc.annos)
             IN  /\ GenResourceID(n, port) \in Ids
                 /\ route \in Routes
                 /\ \A i \in DOMAIN cl.Ingress : \A w \in 1..Len(cl.Ingress[i]) :
                       \A m \in DOMAIN cl.Ingress[i][w].rules :
                          RuleRoute(route, cl.Ingress[i][w].rules[m]) \in Routes
                 /\ AddServers(svc, None, port) \subseteq Servers
                 /\ \A e \in DOMAIN cl.Endpoints : \A w \in 1..Len(cl.Endpoints[e]) :
                       AddServers(svc, cl.Endpoints[e][w], port) \subseteq Servers

VARIABLES lock, pc, job, done, backends, frontends

engineVars == <<lock, pc, job, done, backends, frontends>>
vars == <<cacheVars, engineVars>>

E == INSTANCE Engine WITH
        Controllers <- AllKinds, Lists <- {<<>>}, CallsEnd <- TRUE

Init == CacheInit /\ E!Init

-----------------------------------------------------------------------------
(***************************************************************************)
(* The environment.                                                        *)
(***************************************************************************)
Idle(kind) == Drained(kind) /\ pc[kind] = "idle"

(* Without lag a store has a change before any event tells of it.          *)
ChangeObject(kind, n, v) ==
    /\ "burst" \in Trouble \/ Idle(kind)
    /\ Change(kind, n, v)
    /\ cache' = IF "lag" \in Trouble THEN cache
                ELSE [cache EXCEPT !.stored[kind][n] = v]
    /\ UNCHANGED <<told, engineVars>>

Inform(kind) ==
    /\ \/ Watch(kind)
       \/ \E missed \in IF "missed" \in Trouble THEN 0..Len(wire[kind]) ELSE {0} :
             Relist(kind, missed)
    /\ UNCHANGED <<told, cache, engineVars>>

CatchUp(kind, n) == Reflect(kind, n) /\ UNCHANGED engineVars

(* The process ends and a new one starts: only the provider and the API    *)
(* server remember.  Its reflectors have seen nothing yet.                 *)
Restart ==
    /\ "crash" \in Trouble
    /\ changes < MaxChanges
    /\ changes' = changes + 1
    /\ base' = [kind \in Kinds |-> [n \in DOMAIN base[kind] |-> 0]]
    /\ \E order \in [Kinds -> UNION {Orders({n \in DOMAIN cluster[kind] :
                                                server[kind][n] # 0}) : kind \in Kinds}] :
          /\ \A kind \in Kinds : order[kind] \in
                 Orders({n \in DOMAIN cluster[kind] : server[kind][n] # 0})
          /\ wire' = [kind \in Kinds |-> [k \in DOMAIN order[kind] |->
                         [name |-> order[kind][k], obj |-> server[kind][order[kind][k]]]]]
    /\ fifo'  = [kind \in Kinds |-> NewDeltaFIFO(DOMAIN cluster[kind])]
    /\ known' = base'
    /\ told'  = base'
    /\ cur'   = [kind \in Kinds |-> <<>>]
    /\ call'  = [kind \in Kinds |-> <<>>]
    /\ cache' = [stored |-> IF "lag" \in Trouble THEN base' ELSE server,
                 ingMap |-> [n \in ServiceNames |-> None]]
    /\ E!Restart
    /\ UNCHANGED cluster

-----------------------------------------------------------------------------
(***************************************************************************)
(* The controllers and the engine.                                         *)
(***************************************************************************)
ProcessNext(kind) ==
    /\ pc[kind] = "idle"
    /\ Process(kind)
    /\ UNCHANGED <<told, cache, engineVars>>

(* Objects whose resources the provider can build.                         *)
Built(list) == [k \in DOMAIN list |-> [id |-> list[k].id, route |-> list[k].route,
                                       servers |-> list[k].servers, builds |-> "all"]]

Generated(c, kind, obj, answers) == Built(GenResources(c, kind, obj, answers))

EngineAdd(kind, c, answers) ==
    /\ HandleAdd(kind, c, answers)
    /\ E!Add(kind, Generated(cache, kind, Object(kind, c.name, c.new), answers))

EngineDelete(kind, c, answers) ==
    /\ HandleDelete(kind, c, answers)
    /\ E!Delete(kind, Generated(cache, kind, Object(kind, c.name, c.old), answers))

(* Mutant: the resources of the previous object are never looked up.       *)
EngineUpdateForgets(kind, c, answers) ==
    /\ HandleUpdate(kind, c, answers)
    /\ E!Add(kind, Generated(cache, kind, Object(kind, c.name, c.new), answers))

(* The previous object's resources first, from the cache as it was.        *)
EngineUpdate(kind, c, answers) ==
    LET old == Object(kind, c.name, c.old)
        new == Object(kind, c.name, c.new)
    IN  /\ HandleUpdate(kind, c, answers)
        /\ E!Update(kind,
                    Generated(Gen(cache, kind, old, answers), kind, new, answers),
                    Generated(cache, kind, old, answers))

Callback(kind) ==
    \E k \in DOMAIN call[kind] :
        LET c == call[kind][k] IN
        /\ Tell(kind, c)
        /\ \/ \E answers \in Answers : \/ EngineAdd(kind, c, answers)
                                       \/ EngineDelete(kind, c, answers)
                                       \/ EngineUpdate(kind, c, answers)
           \/ DropUnknown(c) /\ UNCHANGED engineVars

(* A provider that does as it is asked, within lb-timeout.                 *)
Untroubled(kind) ==
    /\ job'[kind].err # "fault"
    /\ job'[kind].outcome = "timeout" => job[kind].tries = MaxAttempts
    /\ pc[kind] = "upsertBackend" /\ E!MoreToAdd(kind) =>
          backends'[E!Adding(kind).id] = E!Adding(kind).servers

EngineStep(kind) ==
    /\ E!Step(kind)
    /\ "fault" \in Trouble \/ Untroubled(kind)
    /\ UNCHANGED cacheVars

Next ==
    \/ \E kind \in Kinds :
          \/ \E n \in DOMAIN cluster[kind] :
                \/ \E v \in Versions(kind, n) : ChangeObject(kind, n, v)
                \/ CatchUp(kind, n)
          \/ Inform(kind) \/ ProcessNext(kind) \/ Callback(kind) \/ EngineStep(kind)
    \/ Restart

Spec == Init /\ [][Next]_vars

(* The API server and the reflectors keep delivering, the sync interval    *)
(* passes again and again, goroutines run and calls to the provider        *)
(* return.  A callback that waits for the mutex while others come and go   *)
(* gets it in the end, for the runtime wakes its waiters in turn: this is  *)
(* SF_vars(Callback(kind)), with ENABLED written out.                      *)
Waits(kind) == call[kind] # <<>>

Peopled == {kind \in AllKinds : \E c \in Clusters : DOMAIN c[kind] # {}}

Fairness ==
    \A kind \in Peopled :
        /\ WF_vars(Watch(kind) /\ UNCHANGED <<told, cache, engineVars>>)
        /\ WF_vars(Inform(kind))
        /\ WF_vars(\E n \in DOMAIN cluster[kind] : CatchUp(kind, n))
        /\ WF_vars(ProcessNext(kind))
        /\ []<>(Waits(kind) /\ lock = None) => []<>~Waits(kind)
        /\ WF_vars(EngineStep(kind))

FairSpec == Spec /\ Fairness

-----------------------------------------------------------------------------
(***************************************************************************)
(* Properties.                                                             *)
(***************************************************************************)

(* The informers and the engine have nothing to do, the stores are up to   *)
(* date.                                                                   *)
AtRest == /\ cache.stored = server
          /\ \A kind \in Kinds : Idle(kind)

(* What the objects of the API server ask for.                             *)
Wanted ==
    LET now == [cache EXCEPT !.stored = server] IN
    UNION {ToSet(FromService(now, Object("Service", n, server.Service[n]), server)) :
              n \in {m \in ServiceNames : server.Service[m] # 0}}

InTable(r) == frontends[r.id] = r.route /\ backends[r.id] = r.servers

(* At rest the table has no frontend and no backend of a service that is   *)
(* gone or of a port it no longer has.  Nothing would ever remove one: a   *)
(* resync compares an object with itself.                                  *)
NoGhost ==
    AtRest => \A id \in Ids :
        frontends[id] # None \/ backends[id] # None => \E r \in Wanted : r.id = id

(* Whatever happened on the way - lost events, changes in quick            *)
(* succession, lagging stores, a restart -, once changes cease everything  *)
(* the objects ask for is in the table and stays there.                    *)
LiveIsPublished == <>[](\A r \in Wanted : InTable(r))

(* The table of the whole system changes as the abstract routing table.    *)
Table == INSTANCE RoutingTable WITH
            Ids <- Ids, Routes <- Routes, Servers <- Servers, None <- None,
            backends <- backends, frontends <- frontends
RefinesTable == Table!TableSpec

=============================================================================
