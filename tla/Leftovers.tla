----------------------------- MODULE Leftovers ------------------------------
(***************************************************************************)
(* What may stay in the provider's table when nothing asks for it any      *)
(* more.  The engine removes an entry only when it is given an old object  *)
(* that has it (engine.go, Delete and updateResources), so an entry will   *)
(* be removed in time if it is that of a port of a service as the engine   *)
(* was told of it last.  History variables, added to Romulus, record each  *)
(* way in which an ID can lose that, and the IDs whose addition failed; a  *)
(* handler that is given the ID again takes it back.                       *)
(***************************************************************************)
EXTENDS Romulus

VARIABLES
    givenUp,        \* IDs whose removal a handler gave up: it returned, or the
                    \* process ended, before they were removed
    untold,         \* IDs published, for Endpoints or an Ingress, for a version
                    \* of a service that the engine was not told of
    overlooked,     \* IDs of a version of a service that the engine was told of
                    \* and that it was never given to remove
    unmade          \* IDs of a list whose addition a handler gave up

leftovers == <<givenUp, untold, overlooked, unmade>>

(* The IDs of the ports of a version of a service.                         *)
PortsOf(n, v) ==
    IF v = 0 THEN {}
    ELSE LET ports == cluster.Service[n][v].ports
         IN  {GenResourceID(n, ports[k]) : k \in DOMAIN ports}

ToldIds == UNION {PortsOf(n, told.Service[n]) : n \in ServiceNames}

(* What a handler has still to remove.                                     *)
Remaining(j) ==
    {j.old[k].id : k \in {m \in DOMAIN j.old :
                             E!Removal(j, m) /\ (j.stage = "delete" => m >= j.i)}}

Leaving == UNION {Remaining(job[kind]) : kind \in Kinds}

(* The handlers that begin and end with a step, and what they are given.   *)
Begun == {kind \in Kinds : pc[kind] = "idle" /\ pc'[kind] # "idle"}
Ended == {kind \in Kinds : pc[kind] # "idle" /\ pc'[kind] = "idle"}
ToAdd == UNION {E!IDs(job'[kind].adds) : kind \in Begun}
Given == ToAdd \cup UNION {E!IDs(job'[kind].old) : kind \in Begun}

(* Those that end before their additions are made.                         *)
Unadded == {kind \in Ended : job[kind].stage = "add"}

(* The services of which the engine had been told, that it now knows in    *)
(* another version or not at all without being given the one before: a new *)
(* process knows none, and Add has no old object.                          *)
Forgotten ==
    {n \in ServiceNames : /\ told'.Service[n] # told.Service[n]
                          /\ Begun = {} \/ call.Service[1].event = "add"}

Record ==
    /\ givenUp' = (givenUp \ Given) \cup UNION {Remaining(job[kind]) : kind \in Ended}
    /\ untold' = (untold \ Given) \cup ((ToAdd \ ToldIds') \cap PortIds(cluster))
    /\ overlooked' = (overlooked \cup UNION {PortsOf(n, told.Service[n]) : n \in Forgotten})
                     \ Given
    /\ unmade' = (unmade \ Given) \cup UNION {E!IDs(job[kind].adds) : kind \in Unadded}

LeftoversInit == Init /\ givenUp = {} /\ untold = {} /\ overlooked = {} /\ unmade = {}

LeftoversNext == Next /\ Record

LeftoversSpec == LeftoversInit /\ [][LeftoversNext]_<<vars, leftovers>>

FairLeftovers == LeftoversSpec /\ Fairness

-----------------------------------------------------------------------------
(***************************************************************************)
(* Properties.                                                             *)
(***************************************************************************)
InUse(id) == frontends[id] # None \/ backends[id] # None

(* Whatever goes wrong around romulus, at every moment an entry of the     *)
(* table is that of a port of a service as the engine was told of it, or a *)
(* running handler is about to remove it, or it was left in one of three   *)
(* ways: a handler gave its removal up (engine.go, Commit returning an     *)
(* error, or the process ending), Endpoints or an Ingress published it     *)
(* while the engine had not been told of that version of the service       *)
(* (resource.go, GetService from a store that moves by itself), or the     *)
(* version that had it was replaced by an Add or a restart.  There is no   *)
(* other: an Update or Delete of a service is always given every ID that   *)
(* the service, its Endpoints and its Ingresses published for the version  *)
(* before.                                                                 *)
AccountedFor ==
    \A id \in Ids : InUse(id) =>
        id \in ToldIds \cup Leaving \cup givenUp \cup untold \cup overlooked

(* With provider calls that fail, half fail and time out, and nothing else *)
(* going wrong: at rest the table has an entry that no service asks for    *)
(* only if a handler gave its removal up and no handler was given its ID   *)
(* since (engine.go, deleteResources and updateResources returning before  *)
(* they came to it).  Handlers that overlap, an Ingress or Endpoints that  *)
(* publish for a service while it changes or goes, and references by name  *)
(* or by number leave nothing else behind.                                 *)
OnlyGivenUpStays ==
    AtRest => \A id \in Ids : InUse(id) =>
        id \in givenUp \/ \E r \in Wanted : r.id = id


=============================================================================
