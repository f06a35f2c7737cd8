------------------------------- MODULE Engine -------------------------------
(***************************************************************************)
(* The romulus engine (engine.go).  Three controllers (one goroutine per   *)
(* kubernetes kind) call Add, Delete and Update, which take the engine's   *)
(* mutex, turn an object into a list of resources and make the             *)
(* loadbalancer provider follow: addResources upserts every backend and    *)
(* then every frontend inside one Commit, deleteResources removes a        *)
(* frontend and then its backend inside one Commit per resource.  Commit   *)
(* repeats its function from the start until it succeeds, the context is   *)
(* cancelled or the backoff is exhausted.                                  *)
(*                                                                         *)
(* One action is one call to the provider, or the control between two.     *)
(* A call may fail before it takes effect, half way, or after it took      *)
(* effect (a lost answer); the process may be cancelled or die anywhere.   *)
(* No check of the provider is relied on: it may accept a frontend that    *)
(* has no backend, and drop a backend that is in use (vulcand refuses      *)
(* both, which is one more way to fail; traefik's key space does not).     *)
(***************************************************************************)
EXTENDS Naturals, Sequences, Provider

CONSTANTS
    Controllers,    \* the controller goroutines
    Ids, Routes, Servers,
    Lists,          \* the resource lists GenResources may return
    MaxAttempts,    \* attempts of one Commit before NextBackOff says Stop
    CallsEnd        \* does the provider's client give every call a deadline?

Resource == [id : Ids, route : Routes, servers : SUBSET Servers,
             builds : {"all", "delete", "never"}]

ASSUME NoneAssumption == /\ None \notin Controllers \cup Routes
                         /\ \A srvs \in SUBSET Servers : srvs # None
ASSUME ListsAssumption == Lists \subseteq Seq(Resource)
ASSUME AttemptsAssumption == MaxAttempts \in Nat
ASSUME CallsEndAssumption == CallsEnd \in BOOLEAN

VARIABLES
    lock,           \* the controller that holds the engine's mutex, or None
    pc,             \* where each controller is
    job,            \* the local variables of each controller's handler
    done,           \* the context is cancelled
    backends,       \* the provider's backends
    frontends       \* the provider's frontends

vars == <<lock, pc, job, done, backends, frontends>>

(***************************************************************************)
(* A handler's local state.  adds is the list given to addResources, old   *)
(* the list deleteResources takes its resources from, stage which of the   *)
(* two runs, i the resource it is at, tries the failed attempts of the     *)
(* current Commit, err the error of the last one, outcome what the handler *)
(* will have come to when it returns.                                      *)
(***************************************************************************)
Calls == {"upsertBackend", "upsertFrontend", "deleteFrontend", "deleteBackend"}

Job == [op : {"none", "Add", "Delete", "Update"}, stage : {"add", "delete"},
        adds : Seq(Resource), old : Seq(Resource), i : Nat \ {0},
        tries : Nat,
        err : {"none", "fault", "notfound"},
        outcome : {"ok", "build", "timeout"}]

(* Mutant: positions start at 0.                                           *)
NewJobFromZero(op, stage, adds, old) ==
    [op |-> op, stage |-> stage, adds |-> adds, old |-> old, i |-> 0,
     tries |-> 0, err |-> "none", outcome |-> "ok"]

NewJob(op, stage, adds, old) ==
    [op |-> op, stage |-> stage, adds |-> adds, old |-> old, i |-> 1,
     tries |-> 0, err |-> "none", outcome |-> "ok"]

NoJob == NewJob("none", "add", <<>>, <<>>)

IDs(list) == {list[k].id : k \in DOMAIN list}

(* Mutant: Update removes all of the previous list.                        *)
RemovalOfAll(j, k) == TRUE

(* updateResources, 130-136: an entry of the previous list is removed only *)
(* if the new list has no resource of its ID.  Delete adds nothing, so it  *)
(* removes every entry.                                                    *)
Removal(j, k) == j.old[k].id \notin IDs(j.adds)

(* addResources, 173-202: NewBackend, NewServers, NewFrontend and          *)
(* NewMiddlewares must succeed for every resource before anything is sent. *)
AddBuilds(list) == \A k \in DOMAIN list : list[k].builds = "all"

(* deleteResources, 146-153: needs a backend and a frontend, no servers.   *)
DeleteBuilds(rsc) == rsc.builds # "never"

Init == /\ lock = None
        /\ pc   = [c \in Controllers |-> "idle"]
        /\ job  = [c \in Controllers |-> NoJob]
        /\ done = FALSE
        /\ backends  = [id \in Ids |-> None]
        /\ frontends = [id \in Ids |-> None]

-----------------------------------------------------------------------------
(***************************************************************************)
(* The handlers up to their first Commit.  Each takes the mutex; what      *)
(* GenResources returned is an input.                                      *)
(***************************************************************************)
(* Mutant: without e.Lock().                                               *)
BeginUnlocked(c, j, next) ==
    /\ pc[c] = "idle"
    /\ lock' = c
    /\ job' = [job EXCEPT ![c] = j]
    /\ pc'  = [pc EXCEPT ![c] = next]
    /\ UNCHANGED <<done, backends, frontends>>

Begin(c, j, next) ==
    /\ lock = None
    /\ pc[c] = "idle"
    /\ lock' = c
    /\ job' = [job EXCEPT ![c] = j]
    /\ pc'  = [pc EXCEPT ![c] = next]
    /\ UNCHANGED <<done, backends, frontends>>

(* addResources returns before its Commit when something cannot be built.  *)
BeginAdd(c, j) ==
    IF AddBuilds(j.adds)
    THEN Begin(c, j, "commit")
    ELSE Begin(c, [j EXCEPT !.outcome = "build"], "return")

Add(c, list) == BeginAdd(c, NewJob("Add", "add", list, <<>>))

Delete(c, list) == Begin(c, NewJob("Delete", "delete", <<>>, list), "delete")

Update(c, new, previous) == BeginAdd(c, NewJob("Update", "add", new, previous))

-----------------------------------------------------------------------------
Goto(c, next, j) ==
    /\ pc'  = [pc EXCEPT ![c] = next]
    /\ job' = [job EXCEPT ![c] = j]

(* What follows a Commit that returned nil: the add stage hands over to    *)
(* the deletions (none for Add), a deletion to the next one.               *)
AfterCommit(j) ==
    IF j.stage = "add"
    THEN [j EXCEPT !.stage = "delete", !.i = 1, !.tries = 0, !.err = "none"]
    ELSE [j EXCEPT !.i = @ + 1, !.tries = 0, !.err = "none"]

CommitOK(c) == Goto(c, "delete", AfterCommit(job[c]))

(* Commit, 111-113: a cancelled context ends the loop with nil.            *)
CommitDone(c) ==
    /\ pc[c] = "commit"
    /\ done
    /\ CommitOK(c)
    /\ UNCHANGED <<lock, done, backends, frontends>>

(* Mutant: updateResources goes on when addResources timed out.            *)
CommitStopGoesOn(c) ==
    /\ pc[c] = "commit"
    /\ ~done
    /\ CommitOK(c)
    /\ UNCHANGED <<lock, done, backends, frontends>>

(* Commit, 115-118: the elapsed time exceeds lb-timeout.  How long a call  *)
(* takes and the process may be paused is open, so this can happen on any  *)
(* iteration; it must by the time MaxAttempts attempts and the sleeps      *)
(* between them have passed.                                               *)
CommitStop(c) ==
    /\ pc[c] = "commit"
    /\ ~done
    /\ Goto(c, "return", [job[c] EXCEPT !.outcome = "timeout"])
    /\ UNCHANGED <<lock, done, backends, frontends>>

(* Mutant: deleteResources removes the backend only, or that first.        *)
CommitTryBackendFirst(c) ==
    /\ pc[c] = "commit"
    /\ ~done
    /\ job[c].tries < MaxAttempts
    /\ IF job[c].stage = "add"
       THEN Goto(c, "upsertBackend", [job[c] EXCEPT !.i = 1])
       ELSE Goto(c, "deleteBackend", job[c])
    /\ UNCHANGED <<lock, done, backends, frontends>>

(* Mutant: addResources sends the frontends only, or those first.          *)
CommitTryFrontendFirst(c) ==
    /\ pc[c] = "commit"
    /\ ~done
    /\ job[c].tries < MaxAttempts
    /\ IF job[c].stage = "add"
       THEN Goto(c, "upsertFrontend", [job[c] EXCEPT !.i = 1])
       ELSE Goto(c, "deleteFrontend", job[c])
    /\ UNCHANGED <<lock, done, backends, frontends>>

(* Commit, 119: fn() runs from its first call.                             *)
CommitTry(c) ==
    /\ pc[c] = "commit"
    /\ ~done
    /\ job[c].tries < MaxAttempts
    /\ IF job[c].stage = "add"
       THEN Goto(c, "upsertBackend", [job[c] EXCEPT !.i = 1])
       ELSE Goto(c, "deleteFrontend", job[c])
    /\ UNCHANGED <<lock, done, backends, frontends>>

(* Mutant: Commit returns after a failed attempt as after a good one.      *)
FailedAttemptReturns(c, error) == CommitOK(c)

(* Mutant: e.Reset() inside the loop, so that NextBackOff never stops.     *)
FailedAttemptResets(c, error) ==
    Goto(c, "commit", [job[c] EXCEPT !.err = error])

(* Commit, 123-124: fn() failed, sleep and try again.                      *)
FailedAttempt(c, error) ==
    Goto(c, "commit", [job[c] EXCEPT !.tries = @ + 1, !.err = error])

-----------------------------------------------------------------------------
(***************************************************************************)
(* addResources' function: backends in order, then frontends in order.     *)
(***************************************************************************)
Adding(c) == job[c].adds[job[c].i]
MoreToAdd(c) == job[c].i \in DOMAIN job[c].adds

(* The backend's value before the call decides what may come of it.        *)
Upserted(rsc) == UpsertedBackend(backends[rsc.id], rsc.servers)
Broken(rsc) == BrokenBackend(backends[rsc.id], rsc.servers)

UpsertBackend(c) ==
    /\ pc[c] = "upsertBackend"
    /\ MoreToAdd(c)
    /\ \/ /\ \E srvs \in Upserted(Adding(c)) :
                backends' = [backends EXCEPT ![Adding(c).id] = srvs]
          /\ Goto(c, "upsertBackend", [job[c] EXCEPT !.i = @ + 1])
       \/ /\ \E srvs \in Broken(Adding(c)) :
                backends' = [backends EXCEPT ![Adding(c).id] = srvs]
          /\ FailedAttempt(c, "fault")
    /\ UNCHANGED <<lock, done, frontends>>

BackendsUpserted(c) ==
    /\ pc[c] = "upsertBackend"
    /\ ~MoreToAdd(c)
    /\ Goto(c, "upsertFrontend", [job[c] EXCEPT !.i = 1])
    /\ UNCHANGED <<lock, done, backends, frontends>>

UpsertFrontend(c) ==
    /\ pc[c] = "upsertFrontend"
    /\ MoreToAdd(c)
    /\ \/ /\ frontends' = [frontends EXCEPT ![Adding(c).id] = Adding(c).route]
          /\ Goto(c, "upsertFrontend", [job[c] EXCEPT !.i = @ + 1])
       \/ /\ \E route \in {frontends[Adding(c).id], Adding(c).route} :
                frontends' = [frontends EXCEPT ![Adding(c).id] = route]
          /\ FailedAttempt(c, "fault")
    /\ UNCHANGED <<lock, done, backends>>

FrontendsUpserted(c) ==
    /\ pc[c] = "upsertFrontend"
    /\ ~MoreToAdd(c)
    /\ CommitOK(c)
    /\ UNCHANGED <<lock, done, backends, frontends>>

-----------------------------------------------------------------------------
(***************************************************************************)
(* deleteResources: one Commit per resource, frontend first.               *)
(***************************************************************************)
Deleting(c) == job[c].old[job[c].i]
MoreToDelete(c) == job[c].i \in DOMAIN job[c].old

DeleteNext(c) ==
    /\ pc[c] = "delete"
    /\ IF ~MoreToDelete(c) THEN Goto(c, "return", job[c])
       ELSE IF ~Removal(job[c], job[c].i)
            THEN Goto(c, "delete", [job[c] EXCEPT !.i = @ + 1])
       ELSE IF DeleteBuilds(Deleting(c)) THEN Goto(c, "commit", job[c])
       ELSE Goto(c, "return", [job[c] EXCEPT !.outcome = "build"])
    /\ UNCHANGED <<lock, done, backends, frontends>>

(* The provider answers a delete of a missing entry with an error.         *)
DeleteFrontend(c) ==
    /\ pc[c] = "deleteFrontend"
    /\ LET id == Deleting(c).id IN
       \/ /\ frontends[id] # None
          /\ frontends' = [frontends EXCEPT ![id] = None]
          /\ Goto(c, "deleteBackend", job[c])
       \/ /\ frontends[id] = None
          /\ FailedAttempt(c, "notfound")
          /\ UNCHANGED frontends
       \/ /\ \E route \in {frontends[id], None} :
                frontends' = [frontends EXCEPT ![id] = route]
          /\ FailedAttempt(c, "fault")
    /\ UNCHANGED <<lock, done, backends>>

DeleteBackend(c) ==
    /\ pc[c] = "deleteBackend"
    /\ LET id == Deleting(c).id IN
       \/ /\ backends[id] # None
          /\ backends' = [backends EXCEPT ![id] = None]
          /\ CommitOK(c)
       \/ /\ backends[id] = None
          /\ FailedAttempt(c, "notfound")
          /\ UNCHANGED backends
       \/ /\ \E srvs \in {backends[id], None} :
                backends' = [backends EXCEPT ![id] = srvs]
          /\ FailedAttempt(c, "fault")
    /\ UNCHANGED <<lock, done, frontends>>

-----------------------------------------------------------------------------
(* A call that is never answered: the client has no deadline of its own,   *)
(* and lb-timeout is looked at only between two attempts.                  *)
Hang(c) ==
    /\ ~CallsEnd
    /\ pc[c] \in Calls
    /\ pc' = [pc EXCEPT ![c] = "hung"]
    /\ UNCHANGED <<lock, job, done, backends, frontends>>

(* The deferred Unlock.                                                    *)
Return(c) ==
    /\ pc[c] = "return"
    /\ lock' = None
    /\ Goto(c, "idle", NoJob)
    /\ UNCHANGED <<done, backends, frontends>>

(* SIGTERM or SIGINT: main cancels the context ...                         *)
Cancel ==
    /\ ~done
    /\ done' = TRUE
    /\ UNCHANGED <<lock, pc, job, backends, frontends>>

(* ... and the process ends, now or by a crash at any other time; a new    *)
(* one starts with nothing but what the provider kept.                     *)
Restart ==
    /\ lock' = None
    /\ pc'   = [c \in Controllers |-> "idle"]
    /\ job'  = [c \in Controllers |-> NoJob]
    /\ done' = FALSE
    /\ UNCHANGED <<backends, frontends>>

-----------------------------------------------------------------------------
Step(c) ==
    \/ CommitDone(c) \/ CommitStop(c) \/ CommitTry(c)
    \/ UpsertBackend(c) \/ BackendsUpserted(c)
    \/ UpsertFrontend(c) \/ FrontendsUpserted(c)
    \/ DeleteNext(c) \/ DeleteFrontend(c) \/ DeleteBackend(c)
    \/ Return(c)

Event(c) ==
    \E list \in Lists :
        \/ Add(c, list)
        \/ Delete(c, list)
        \/ \E previous \in Lists : Update(c, list, previous)

Next == \/ \E c \in Controllers : Event(c) \/ Step(c) \/ Hang(c)
        \/ Cancel
        \/ Restart

Spec == Init /\ [][Next]_vars

(* A handler that runs keeps running: goroutines are scheduled, a call     *)
(* that does not hang returns, a sleep ends.  Once the context is          *)
(* cancelled main sleeps and exits.                                        *)
FairSpec == /\ Spec
            /\ \A c \in Controllers : WF_vars(Step(c))
            /\ WF_vars(done /\ Restart)

-----------------------------------------------------------------------------
(***************************************************************************)
(* Properties.                                                             *)
(***************************************************************************)

(* Every variable holds what its declaration says.                         *)
Places == {"idle", "commit", "delete", "return", "hung"} \cup Calls

TypeOK ==
    /\ lock \in Controllers \cup {None}
    /\ pc \in [Controllers -> Places]
    /\ job \in [Controllers -> Job]
    /\ done \in BOOLEAN
    /\ backends \in [Ids -> {None} \cup SUBSET Servers]
    /\ frontends \in [Ids -> {None} \cup Routes]

(* A frontend the provider holds has its backend, at every moment: between *)
(* any two calls, after a failed or half-done attempt, after a cancel and  *)
(* after a crash.  It rests on the order of the calls in addResources and  *)
(* deleteResources and on the mutex that keeps handlers apart.             *)
FrontendHasBackend ==
    \A id \in Ids : frontends[id] # None => backends[id] # None

(* What a handler knows of the provider while it is between two calls:     *)
(* it holds the mutex; the backends of this attempt are there up to the    *)
(* current one, all of them once frontends are sent; what it removes is    *)
(* nothing it added, and the frontend of the backend it is about to remove *)
(* is gone.  No other handler, earlier failed attempt or cancel may have   *)
(* disturbed that: it is the invariant that carries FrontendHasBackend.    *)
Knows(c) ==
    LET j == job[c] IN
    /\ pc[c] # "idle" => lock = c
    /\ pc[c] \in {"upsertBackend", "upsertFrontend"} => j.stage = "add"
    /\ pc[c] = "upsertBackend" =>
          \A k \in DOMAIN j.adds : k < j.i => backends[j.adds[k].id] # None
    /\ pc[c] = "upsertFrontend" =>
          \A k \in DOMAIN j.adds : backends[j.adds[k].id] # None
    /\ \/ pc[c] \in {"deleteFrontend", "deleteBackend"}
       \/ pc[c] = "commit" /\ j.stage = "delete"
       => j.i \in DOMAIN j.old /\ Removal(j, j.i)
    /\ pc[c] = "deleteBackend" => frontends[j.old[j.i].id] = None

AttemptsInOrder == \A c \in Controllers : Knows(c)

(* The last resource of an ID decides what the table should say.           *)
Final(list, k) == \A m \in DOMAIN list : m > k => list[m].id # list[k].id

Published(list) ==
    \A k \in DOMAIN list : Final(list, k) =>
        /\ frontends[list[k].id] = list[k].route
        /\ backends[list[k].id] # None
        /\ list[k].servers \subseteq backends[list[k].id]

(* Update is make-before-break: while it removes what the old object had,  *)
(* everything the new object asks for is already in the provider, whatever *)
(* failed, was retried or was cancelled on the way (updateResources stops  *)
(* when addResources fails).                                               *)
MakeBeforeBreak ==
    \A c \in Controllers :
        /\ job[c].op = "Update"
        /\ pc[c] \in {"deleteFrontend", "deleteBackend"}
        => Published(job[c].adds)

(* Update never takes away a frontend or a backend whose ID the new object *)
(* still has: a change of an object does not interrupt its traffic.        *)
UpdateKeepsLive ==
    [][\A c \in Controllers : lock = c /\ job[c].op = "Update" =>
         \A id \in IDs(job[c].adds) :
            /\ frontends[id] # None => frontends'[id] # None
            /\ backends[id] # None => backends'[id] # None]_vars

(* A handler that ends without an error and without a cancel has done its  *)
(* work: what it was to add is published, what it was to remove is gone.   *)
Settled ==
    \A c \in Controllers :
        /\ pc[c] = "return"
        /\ job[c].outcome = "ok"
        /\ ~done
        => /\ Published(job[c].adds)
           /\ \A k \in DOMAIN job[c].old :
                 Removal(job[c], k) => /\ frontends[job[c].old[k].id] = None
                                       /\ backends[job[c].old[k].id] = None

(* The table changes as the abstract routing table does.                   *)
Table == INSTANCE RoutingTable
RefinesTable == Table!TableSpec

(* The mutex is given back, so that one object the provider refuses cannot *)
(* stop every other object from being handled, unless a call is never      *)
(* answered: failures, however many, do not keep it.                       *)
LockReleased ==
    \A c \in Controllers : (lock = c) ~> (lock # c \/ pc[c] = "hung")

(* A deletion that timed out and left a backend behind was prevented by    *)
(* the provider failing: the last thing the provider said was not an       *)
(* answer that it has no such frontend.                                    *)
TimeoutLeavesNothing ==
    \A c \in Controllers :
        /\ job[c].outcome = "timeout"
        /\ job[c].stage = "delete"
        /\ backends[Deleting(c).id] # None
        => job[c].err # "notfound"

=============================================================================
