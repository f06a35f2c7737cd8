---------------------------- MODULE EngineProofs ----------------------------
(***************************************************************************)
(* Proofs about Engine for any controllers, IDs, routes, servers, lists    *)
(* and number of attempts.                                                 *)
(*                                                                         *)
(* The inductive invariant is IndInv.  FrontendHasBackend alone is not     *)
(* inductive: UpsertFrontend needs that the backends of this attempt are   *)
(* still there, DeleteBackend that the frontend is still gone, and both    *)
(* that no other handler interferes.  AttemptsInOrder says so.             *)
(***************************************************************************)
EXTENDS Engine, TLAPS

IndInv == TypeOK /\ AttemptsInOrder /\ FrontendHasBackend

(* A resource and the position of a resource in a list, by type.           *)
LEMMA ListFacts ==
    ASSUME NEW list \in Seq(Resource), NEW k \in DOMAIN list
    PROVE  /\ list[k] \in Resource
           /\ k \in Nat
           /\ list[k].id \in Ids
           /\ list[k].route \in Routes
           /\ list[k].servers \in SUBSET Servers
    <1>1. DOMAIN list = 1 .. Len(list) /\ Len(list) \in Nat
        OBVIOUS
    <1>2. list[k] \in Resource /\ k \in Nat
        BY <1>1
    <1> QED
        BY <1>2 DEF Resource

(* The fields of a handler's local state, by type.                         *)
LEMMA JobFacts ==
    ASSUME NEW j \in Job
    PROVE  /\ j.op \in {"none", "Add", "Delete", "Update"}
           /\ j.stage \in {"add", "delete"}
           /\ j.adds \in Seq(Resource) /\ j.old \in Seq(Resource)
           /\ j.i \in Nat \ {0} /\ j.tries \in Nat
           /\ j.err \in {"none", "fault", "notfound"}
           /\ j.outcome \in {"ok", "build", "timeout"}
    BY DEF Job

LEMMA NoJobType == NoJob \in Job
    BY DEF NoJob, NewJob, Job

(* While a handler runs, every other controller waits.                     *)
LEMMA OthersIdle ==
    ASSUME IndInv, NEW c \in Controllers, pc[c] # "idle",
           NEW d \in Controllers, d # c
    PROVE  pc[d] = "idle"
    BY DEF IndInv, AttemptsInOrder, Knows

(* A step of the handler of c that moves it to another place: AttemptsInOrder *)
(* need only be shown for c itself.                                        *)
LEMMA OwnKnowledge ==
    ASSUME IndInv, NEW c \in Controllers, pc[c] # "idle",
           NEW p, pc' = [pc EXCEPT ![c] = p],
           NEW j, job' = [job EXCEPT ![c] = j],
           Knows(c)'
    PROVE  AttemptsInOrder'
    <1> SUFFICES ASSUME NEW d \in Controllers, d # c
                 PROVE  Knows(d)'
        BY DEF AttemptsInOrder
    <1>1. pc[d] = "idle"
        BY OthersIdle
    <1>2. pc'[d] = "idle"
        BY <1>1 DEF IndInv, TypeOK
    <1> QED
        BY <1>2 DEF Knows, Calls

LEMMA InitIndInv == Init => IndInv
    <1> SUFFICES ASSUME Init PROVE IndInv
        OBVIOUS
    <1>1. TypeOK
        BY NoJobType DEF Init, TypeOK, Places
    <1>2. AttemptsInOrder
        BY DEF Init, AttemptsInOrder, Knows, Calls
    <1>3. FrontendHasBackend
        BY DEF Init, FrontendHasBackend
    <1> QED
        BY <1>1, <1>2, <1>3 DEF IndInv

(* The updates of a handler's local state that the steps make.             *)
LEMMA IndexType ==
    ASSUME NEW j \in Job
    PROVE  /\ [j EXCEPT !.i = 1] \in Job
           /\ [j EXCEPT !.i = @ + 1] \in Job
    <1>1. [j EXCEPT !.i = 1] \in Job
        BY DEF Job
    <1>2. [j EXCEPT !.i = @ + 1] \in Job
        BY DEF Job
    <1> QED
        BY <1>1, <1>2

LEMMA OutcomeType ==
    ASSUME NEW j \in Job, NEW o \in {"build", "timeout"}
    PROVE  [j EXCEPT !.outcome = o] \in Job
    BY DEF Job

LEMMA FailedType ==
    ASSUME NEW j \in Job, NEW error \in {"fault", "notfound"}
    PROVE  [j EXCEPT !.tries = @ + 1, !.err = error] \in Job
    <1> DEFINE g == [j EXCEPT !.tries = @ + 1]
    <1>1. g \in Job
        BY DEF Job
    <1>2. [j EXCEPT !.tries = @ + 1, !.err = error] = [g EXCEPT !.err = error]
        OBVIOUS
    <1> HIDE DEF g
    <1>3. [g EXCEPT !.err = error] \in Job
        BY <1>1 DEF Job
    <1> QED
        BY <1>2, <1>3

LEMMA AfterCommitType ==
    ASSUME NEW j \in Job
    PROVE  AfterCommit(j) \in Job
    <1>1. CASE j.stage = "add"
        <2> DEFINE g == [j EXCEPT !.i = 1]
        <2>1. g \in Job
            BY IndexType
        <2>2. AfterCommit(j) =
                  [g EXCEPT !.stage = "delete", !.tries = 0, !.err = "none"]
            BY <1>1 DEF AfterCommit
        <2> HIDE DEF g
        <2>3. [g EXCEPT !.stage = "delete", !.tries = 0, !.err = "none"] \in Job
            BY <2>1 DEF Job
        <2> QED
            BY <2>2, <2>3
    <1>2. CASE j.stage # "add"
        <2> DEFINE g == [j EXCEPT !.i = @ + 1]
        <2>1. g \in Job
            BY DEF Job
        <2>2. AfterCommit(j) = [g EXCEPT !.tries = 0, !.err = "none"]
            BY <1>2 DEF AfterCommit
        <2> HIDE DEF g
        <2>3. [g EXCEPT !.tries = 0, !.err = "none"] \in Job
            BY <2>1 DEF Job
        <2> QED
            BY <2>2, <2>3
    <1> QED
        BY <1>1, <1>2

-----------------------------------------------------------------------------
(* A handler starts: it takes a free mutex.                                *)
LEMMA BeginStep ==
    ASSUME IndInv, NEW c \in Controllers, NEW j \in Job,
           NEW p \in {"commit", "return", "delete"},
           p = "commit" => j.stage = "add",
           Begin(c, j, p)
    PROVE  IndInv'
    <1>1. TypeOK'
        BY DEF IndInv, TypeOK, Begin, Places
    <1>2. \A d \in Controllers : d # c => Knows(d)'
        <2> SUFFICES ASSUME NEW d \in Controllers, d # c PROVE Knows(d)'
            OBVIOUS
        <2>1. pc[d] = "idle"
            BY NoneAssumption DEF IndInv, AttemptsInOrder, Knows, Begin
        <2>2. pc'[d] = "idle"
            BY <2>1 DEF Begin, IndInv, TypeOK
        <2> QED
            BY <2>2 DEF Knows, Calls
    <1>3. Knows(c)'
        <2>1. pc'[c] = p /\ job'[c] = j /\ lock' = c
            BY DEF Begin, IndInv, TypeOK
        <2> QED
            BY <2>1 DEF Knows, Calls
    <1>4. FrontendHasBackend'
        BY DEF IndInv, FrontendHasBackend, Begin
    <1> QED
        BY <1>1, <1>2, <1>3, <1>4 DEF IndInv, AttemptsInOrder

LEMMA EventStep ==
    ASSUME IndInv, NEW c \in Controllers, Event(c)
    PROVE  IndInv'
    <1> PICK list \in Lists :
            \/ Add(c, list)
            \/ Delete(c, list)
            \/ \E previous \in Lists : Update(c, list, previous)
        BY DEF Event
    <1>0. list \in Seq(Resource)
        BY ListsAssumption
    <1>a. ASSUME NEW j \in Job, j.stage = "add", BeginAdd(c, j)
          PROVE  IndInv'
        <2>1. CASE AddBuilds(j.adds)
            BY <1>a, <2>1, BeginStep DEF BeginAdd
        <2>2. CASE ~AddBuilds(j.adds)
            <3>1. [j EXCEPT !.outcome = "build"] \in Job
                BY DEF Job
            <3>2. Begin(c, [j EXCEPT !.outcome = "build"], "return")
                BY <1>a, <2>2 DEF BeginAdd
            <3> QED
                BY <3>1, <3>2, BeginStep
        <2> QED
            BY <2>1, <2>2
    <1>1. CASE Add(c, list)
        <2> DEFINE j == NewJob("Add", "add", list, <<>>)
        <2>1. j \in Job /\ j.stage = "add"
            BY <1>0 DEF Job, NewJob
        <2>2. BeginAdd(c, j)
            BY <1>1 DEF Add
        <2> HIDE DEF j
        <2> QED
            BY <1>a, <2>1, <2>2
    <1>2. CASE Delete(c, list)
        <2> DEFINE j == NewJob("Delete", "delete", <<>>, list)
        <2>1. j \in Job
            BY <1>0 DEF Job, NewJob
        <2>2. Begin(c, j, "delete")
            BY <1>2 DEF Delete
        <2> HIDE DEF j
        <2> QED
            BY <2>1, <2>2, BeginStep
    <1>3. CASE \E previous \in Lists : Update(c, list, previous)
        <2> PICK previous \in Lists : Update(c, list, previous)
            BY <1>3
        <2> DEFINE j == NewJob("Update", "add", list, previous)
        <2>1. j \in Job /\ j.stage = "add"
            BY <1>0, ListsAssumption DEF Job, NewJob
        <2>2. BeginAdd(c, j)
            BY DEF Update
        <2> HIDE DEF j
        <2> QED
            BY <1>a, <2>1, <2>2
    <1> QED
        BY <1>1, <1>2, <1>3

-----------------------------------------------------------------------------
(* What a handler's step has to show: the tables keep their type and       *)
(* FrontendHasBackend, and the handler knows enough at its new place.      *)
LEMMA GotoStep ==
    ASSUME IndInv, NEW c \in Controllers, pc[c] # "idle",
           NEW p \in Places, NEW j \in Job, Goto(c, p, j),
           UNCHANGED <<lock, done>>,
           backends' \in [Ids -> {None} \cup SUBSET Servers],
           frontends' \in [Ids -> {None} \cup Routes],
           FrontendHasBackend',
           lock' = c /\ pc'[c] = p /\ job'[c] = j => Knows(c)'
    PROVE  IndInv'
    <1>1. TypeOK'
        BY DEF IndInv, TypeOK, Goto
    <1>2. lock = c
        BY DEF IndInv, AttemptsInOrder, Knows
    <1>3. lock' = c /\ pc'[c] = p /\ job'[c] = j
        BY <1>2 DEF Goto, IndInv, TypeOK
    <1>4. AttemptsInOrder'
        BY <1>3, OwnKnowledge DEF Goto
    <1> QED
        BY <1>1, <1>4 DEF IndInv

(* A step that leaves the tables alone and goes somewhere with nothing to  *)
(* know about them.                                                        *)
LEMMA PlainStep ==
    ASSUME IndInv, NEW c \in Controllers, pc[c] # "idle",
           NEW p \in {"delete", "return"}, NEW j \in Job, Goto(c, p, j),
           UNCHANGED <<lock, done, backends, frontends>>
    PROVE  IndInv'
    <1>1. lock' = c /\ pc'[c] = p => Knows(c)'
        BY DEF Knows, Calls
    <1>2. FrontendHasBackend'
        BY DEF IndInv, FrontendHasBackend
    <1>3. p \in Places
        BY DEF Places
    <1> QED
        BY <1>1, <1>2, <1>3, GotoStep DEF IndInv, TypeOK

LEMMA CommitDoneStep ==
    ASSUME IndInv, NEW c \in Controllers, CommitDone(c)
    PROVE  IndInv'
    <1>1. job[c] \in Job
        BY DEF IndInv, TypeOK
    <1>2. AfterCommit(job[c]) \in Job
        BY <1>1, AfterCommitType
    <1> QED
        BY <1>2, PlainStep DEF CommitDone, CommitOK

LEMMA CommitStopStep ==
    ASSUME IndInv, NEW c \in Controllers, CommitStop(c)
    PROVE  IndInv'
    <1>1. job[c] \in Job
        BY DEF IndInv, TypeOK
    <1>2. [job[c] EXCEPT !.outcome = "timeout"] \in Job
        BY <1>1, OutcomeType
    <1> QED
        BY <1>2, PlainStep DEF CommitStop

LEMMA FrontendsUpsertedStep ==
    ASSUME IndInv, NEW c \in Controllers, FrontendsUpserted(c)
    PROVE  IndInv'
    <1>1. job[c] \in Job
        BY DEF IndInv, TypeOK
    <1>2. AfterCommit(job[c]) \in Job
        BY <1>1, AfterCommitType
    <1> QED
        BY <1>2, PlainStep DEF FrontendsUpserted, CommitOK

LEMMA CommitTryStep ==
    ASSUME IndInv, NEW c \in Controllers, CommitTry(c)
    PROVE  IndInv'
    <1> DEFINE k == [job[c] EXCEPT !.i = 1]
    <1>1. job[c] \in Job
        BY DEF IndInv, TypeOK
    <1>2. FrontendHasBackend'
        BY DEF IndInv, FrontendHasBackend, CommitTry
    <1>3. /\ UNCHANGED <<lock, done, backends, frontends>>
          /\ pc[c] = "commit"
          /\ backends' \in [Ids -> {None} \cup SUBSET Servers]
          /\ frontends' \in [Ids -> {None} \cup Routes]
        BY DEF CommitTry, IndInv, TypeOK
    <1>4. CASE job[c].stage = "add"
        <2>1. k \in Job /\ k.i = 1 /\ k.adds = job[c].adds /\ k.stage = "add"
            <3>1. k \in Job
                BY <1>1, IndexType
            <3> QED
                BY <1>1, <1>4, <3>1 DEF Job
        <2>2. Goto(c, "upsertBackend", k)
            BY <1>4 DEF CommitTry
        <2> HIDE DEF k
        <2>3. \A m \in DOMAIN k.adds : ~(m < k.i)
            BY <2>1, ListFacts, JobFacts DEF Job
        <2>4. lock' = c /\ pc'[c] = "upsertBackend" /\ job'[c] = k => Knows(c)'
            BY <2>1, <2>3 DEF Knows, Calls
        <2> QED
            BY <1>2, <1>3, <2>1, <2>2, <2>4, GotoStep DEF Places, Calls
    <1>5. CASE job[c].stage # "add"
        <2>1. Goto(c, "deleteFrontend", job[c])
            BY <1>5 DEF CommitTry
        <2>2. job[c].stage = "delete"
            BY <1>1, <1>5, JobFacts
        <2>3. job[c].i \in DOMAIN job[c].old /\ Removal(job[c], job[c].i)
            BY <2>2, <1>3 DEF IndInv, AttemptsInOrder, Knows
        <2>4. lock' = c /\ pc'[c] = "deleteFrontend" /\ job'[c] = job[c] => Knows(c)'
            BY <2>3 DEF Knows, Calls
        <2> QED
            BY <1>1, <1>2, <1>3, <2>1, <2>4, GotoStep DEF Places, Calls
    <1> QED
        BY <1>4, <1>5

LEMMA BackendsUpsertedStep ==
    ASSUME IndInv, NEW c \in Controllers, BackendsUpserted(c)
    PROVE  IndInv'
    <1> DEFINE k == [job[c] EXCEPT !.i = 1]
    <1>1. job[c] \in Job
        BY DEF IndInv, TypeOK
    <1>2. k \in Job /\ k.adds = job[c].adds /\ k.stage = job[c].stage
        <2>1. k \in Job
            BY <1>1, IndexType
        <2> QED
            BY <1>1, <2>1 DEF Job
    <1>3. /\ UNCHANGED <<lock, done, backends, frontends>>
          /\ pc[c] = "upsertBackend"
          /\ backends' \in [Ids -> {None} \cup SUBSET Servers]
          /\ frontends' \in [Ids -> {None} \cup Routes]
          /\ FrontendHasBackend'
        BY DEF BackendsUpserted, IndInv, TypeOK, FrontendHasBackend
    <1>4. Goto(c, "upsertFrontend", k)
        BY DEF BackendsUpserted
    <1>5. \A m \in DOMAIN job[c].adds : backends[job[c].adds[m].id] # None
        (* The loop ended, so every position is before the current one.    *)
        <2>1. \A m \in DOMAIN job[c].adds :
                 m < job[c].i => backends[job[c].adds[m].id] # None
            BY <1>3 DEF IndInv, AttemptsInOrder, Knows
        <2>2. job[c].i \notin DOMAIN job[c].adds
            BY DEF BackendsUpserted, MoreToAdd
        <2>3. job[c].i \in Nat \ {0} /\ job[c].adds \in Seq(Resource)
            BY <1>1, JobFacts
        <2>4. /\ DOMAIN job[c].adds = 1 .. Len(job[c].adds)
              /\ Len(job[c].adds) \in Nat
            BY <2>3
        <2>5. \A m \in DOMAIN job[c].adds : m < job[c].i
            BY <2>2, <2>3, <2>4
        <2> QED
            BY <2>1, <2>5
    <1>5a. job[c].stage = "add"
        BY <1>3 DEF IndInv, AttemptsInOrder, Knows
    <1> HIDE DEF k
    <1>6. lock' = c /\ pc'[c] = "upsertFrontend" /\ job'[c] = k => Knows(c)'
        BY <1>2, <1>3, <1>5, <1>5a DEF Knows, Calls
    <1> QED
        BY <1>2, <1>3, <1>4, <1>6, GotoStep DEF Places, Calls

LEMMA DeleteNextStep ==
    ASSUME IndInv, NEW c \in Controllers, DeleteNext(c)
    PROVE  IndInv'
    <1>1. job[c] \in Job
        BY DEF IndInv, TypeOK
    <1>2. /\ UNCHANGED <<lock, done, backends, frontends>>
          /\ pc[c] = "delete"
          /\ backends' \in [Ids -> {None} \cup SUBSET Servers]
          /\ frontends' \in [Ids -> {None} \cup Routes]
          /\ FrontendHasBackend'
        BY DEF DeleteNext, IndInv, TypeOK, FrontendHasBackend
    <1>3. CASE ~MoreToDelete(c)
        <2>1. Goto(c, "return", job[c])
            BY <1>3 DEF DeleteNext
        <2> QED
            BY <1>1, <1>2, <2>1, PlainStep
    <1>4. CASE MoreToDelete(c) /\ ~Removal(job[c], job[c].i)
        <2>1. Goto(c, "delete", [job[c] EXCEPT !.i = @ + 1])
            BY <1>4 DEF DeleteNext
        <2>2. [job[c] EXCEPT !.i = @ + 1] \in Job
            BY <1>1, IndexType
        <2> QED
            BY <1>2, <2>1, <2>2, PlainStep
    <1>5. CASE /\ MoreToDelete(c) /\ Removal(job[c], job[c].i)
               /\ DeleteBuilds(Deleting(c))
        <2>1. Goto(c, "commit", job[c])
            BY <1>5 DEF DeleteNext
        <2>2. lock' = c /\ pc'[c] = "commit" /\ job'[c] = job[c] => Knows(c)'
            BY <1>5 DEF Knows, Calls, MoreToDelete
        <2> QED
            BY <1>1, <1>2, <2>1, <2>2, GotoStep DEF Places
    <1>6. CASE /\ MoreToDelete(c) /\ Removal(job[c], job[c].i)
               /\ ~DeleteBuilds(Deleting(c))
        <2>1. Goto(c, "return", [job[c] EXCEPT !.outcome = "build"])
            BY <1>6 DEF DeleteNext
        <2>2. [job[c] EXCEPT !.outcome = "build"] \in Job
            BY <1>1, OutcomeType
        <2> QED
            BY <1>2, <2>1, <2>2, PlainStep
    <1> QED
        BY <1>3, <1>4, <1>5, <1>6

(* An attempt fails: back to the loop of Commit, knowing only what is to   *)
(* be removed.                                                             *)
LEMMA FailedStep ==
    ASSUME IndInv, NEW c \in Controllers, pc[c] \in Calls,
           NEW error \in {"fault", "notfound"}, FailedAttempt(c, error),
           UNCHANGED <<lock, done>>,
           backends' \in [Ids -> {None} \cup SUBSET Servers],
           frontends' \in [Ids -> {None} \cup Routes],
           FrontendHasBackend'
    PROVE  IndInv'
    <1> DEFINE f == [job[c] EXCEPT !.tries = @ + 1, !.err = error]
    <1>1. job[c] \in Job
        BY DEF IndInv, TypeOK
    <1>2. f \in Job
        BY <1>1, FailedType
    <1>3. /\ f.stage = job[c].stage /\ f.i = job[c].i
          /\ f.old = job[c].old /\ f.adds = job[c].adds
        BY <1>1 DEF Job
    <1>4. Goto(c, "commit", f)
        BY DEF FailedAttempt
    <1> HIDE DEF f
    <1>5. f.stage = "delete" => f.i \in DOMAIN f.old /\ Removal(f, f.i)
        BY <1>3 DEF IndInv, AttemptsInOrder, Knows, Removal, Calls
    <1>6. lock' = c /\ pc'[c] = "commit" /\ job'[c] = f => Knows(c)'
        BY <1>5 DEF Knows, Calls
    <1> QED
        BY <1>2, <1>4, <1>6, GotoStep DEF Places, Calls

(* What UpsertBackend may write is a set of servers; a broken one may also *)
(* leave what was there.                                                   *)
LEMMA BackendValues ==
    ASSUME TypeOK, NEW rsc \in Resource
    PROVE  /\ rsc.id \in Ids
           /\ \A srvs \in Upserted(rsc) :
                 srvs \in SUBSET Servers /\ srvs # None
           /\ \A srvs \in Broken(rsc) :
                 \/ srvs = backends[rsc.id]
                 \/ srvs \in SUBSET Servers /\ srvs # None
    <1>1. rsc.id \in Ids /\ rsc.servers \in SUBSET Servers
        BY DEF Resource
    <1>2. Held(backends[rsc.id]) \in SUBSET Servers
        BY <1>1 DEF Held, TypeOK
    <1>3. \A srvs \in SUBSET Servers : srvs # None
        BY NoneAssumption
    <1>4. ASSUME NEW srvs \in Upserted(rsc)
          PROVE  srvs \in SUBSET Servers
        BY <1>1, <1>2 DEF Upserted, UpsertedBackend
    <1>5. ASSUME NEW srvs \in Broken(rsc), srvs # backends[rsc.id]
          PROVE  srvs \in SUBSET Servers
        BY <1>1, <1>2, <1>5 DEF Broken, BrokenBackend
    <1> QED
        BY <1>1, <1>3, <1>4, <1>5

LEMMA UpsertBackendStep ==
    ASSUME IndInv, NEW c \in Controllers, UpsertBackend(c)
    PROVE  IndInv'
    <1> DEFINE rsc == Adding(c)
               k == [job[c] EXCEPT !.i = @ + 1]
    <1>1. job[c] \in Job /\ job[c].adds \in Seq(Resource) /\ job[c].i \in Nat
        BY JobFacts DEF IndInv, TypeOK
    <1>2. rsc \in Resource
        BY <1>1, ListFacts DEF UpsertBackend, MoreToAdd, Adding
    <1>3. /\ pc[c] = "upsertBackend"
          /\ UNCHANGED <<lock, done, frontends>>
          /\ TypeOK
          /\ frontends' \in [Ids -> {None} \cup Routes]
        BY DEF UpsertBackend, IndInv, TypeOK
    <1>4. ASSUME NEW srvs,
                 backends' = [backends EXCEPT ![rsc.id] = srvs],
                 srvs = backends[rsc.id] \/ (srvs \in SUBSET Servers /\ srvs # None)
          PROVE  /\ backends' \in [Ids -> {None} \cup SUBSET Servers]
                 /\ FrontendHasBackend'
                 /\ \A id \in Ids : backends[id] # None => backends'[id] # None
        <2>1. backends' \in [Ids -> {None} \cup SUBSET Servers]
            BY <1>2, <1>3, <1>4, BackendValues DEF TypeOK
        <2>2. \A id \in Ids : backends[id] # None => backends'[id] # None
            BY <1>3, <1>4 DEF TypeOK
        <2> QED
            BY <1>3, <2>1, <2>2 DEF IndInv, FrontendHasBackend
    <1>5. CASE /\ \E srvs \in Upserted(rsc) :
                     backends' = [backends EXCEPT ![rsc.id] = srvs]
               /\ Goto(c, "upsertBackend", k)
        <2>1. PICK srvs \in Upserted(rsc) :
                  backends' = [backends EXCEPT ![rsc.id] = srvs]
            BY <1>5
        <2>2. srvs \in SUBSET Servers /\ srvs # None /\ rsc.id \in Ids
            BY <1>2, <1>3, BackendValues
        <2>3. /\ backends' \in [Ids -> {None} \cup SUBSET Servers]
              /\ FrontendHasBackend'
              /\ \A id \in Ids : backends[id] # None => backends'[id] # None
            BY <1>4, <2>1, <2>2
        <2>4. backends'[rsc.id] # None
            BY <1>3, <2>1, <2>2 DEF TypeOK
        <2>5. k \in Job /\ k.adds = job[c].adds /\ k.i = job[c].i + 1
                  /\ k.stage = job[c].stage
            <3>1. k \in Job
                BY <1>1, IndexType
            <3> QED
                BY <1>1, <3>1 DEF Job
        <2>6. /\ job[c].stage = "add"
              /\ \A m \in DOMAIN job[c].adds :
                    m < job[c].i => backends[job[c].adds[m].id] # None
            BY <1>3 DEF IndInv, AttemptsInOrder, Knows
        <2>7. ASSUME NEW m \in DOMAIN job[c].adds, m < job[c].i + 1
              PROVE  backends'[job[c].adds[m].id] # None
            <3>1. job[c].adds[m].id \in Ids /\ m \in Nat
                BY <1>1, ListFacts
            <3>2. CASE m = job[c].i
                BY <2>4, <3>2 DEF Adding
            <3>3. CASE m < job[c].i
                BY <2>3, <2>6, <3>1, <3>3
            <3> QED
                BY <1>1, <2>7, <3>1, <3>2, <3>3
        <2> HIDE DEF k
        <2>8. lock' = c /\ pc'[c] = "upsertBackend" /\ job'[c] = k => Knows(c)'
            BY <2>5, <2>6, <2>7 DEF Knows, Calls
        <2> QED
            BY <1>3, <1>5, <2>3, <2>5, <2>8, GotoStep DEF Places, Calls
    <1>6. CASE /\ \E srvs \in Broken(rsc) :
                     backends' = [backends EXCEPT ![rsc.id] = srvs]
               /\ FailedAttempt(c, "fault")
        <2>1. PICK srvs \in Broken(rsc) :
                  backends' = [backends EXCEPT ![rsc.id] = srvs]
            BY <1>6
        <2>2. srvs = backends[rsc.id] \/ (srvs \in SUBSET Servers /\ srvs # None)
            BY <1>2, <1>3, BackendValues
        <2>3. /\ backends' \in [Ids -> {None} \cup SUBSET Servers]
              /\ FrontendHasBackend'
            BY <1>4, <2>1, <2>2
        <2> QED
            BY <1>3, <1>6, <2>3, FailedStep DEF Calls
    <1> QED
        BY <1>5, <1>6 DEF UpsertBackend

LEMMA UpsertFrontendStep ==
    ASSUME IndInv, NEW c \in Controllers, UpsertFrontend(c)
    PROVE  IndInv'
    <1> DEFINE rsc == Adding(c)
               k == [job[c] EXCEPT !.i = @ + 1]
    <1>1. job[c] \in Job /\ job[c].adds \in Seq(Resource)
        BY JobFacts DEF IndInv, TypeOK
    <1>2. rsc.id \in Ids /\ rsc.route \in Routes
        BY <1>1, ListFacts DEF UpsertFrontend, MoreToAdd, Adding
    <1>3. /\ pc[c] = "upsertFrontend"
          /\ UNCHANGED <<lock, done, backends>>
          /\ TypeOK
          /\ backends' \in [Ids -> {None} \cup SUBSET Servers]
        BY DEF UpsertFrontend, IndInv, TypeOK
    <1>4. /\ job[c].stage = "add"
          /\ \A m \in DOMAIN job[c].adds : backends[job[c].adds[m].id] # None
        BY <1>3 DEF IndInv, AttemptsInOrder, Knows
    <1>5. backends[rsc.id] # None
        BY <1>4 DEF UpsertFrontend, MoreToAdd, Adding
    <1>6. ASSUME NEW route \in {frontends[rsc.id], rsc.route},
                 frontends' = [frontends EXCEPT ![rsc.id] = route]
          PROVE  /\ frontends' \in [Ids -> {None} \cup Routes]
                 /\ FrontendHasBackend'
        <2>1. frontends' \in [Ids -> {None} \cup Routes]
            BY <1>2, <1>3, <1>6 DEF TypeOK
        <2>2. \A id \in Ids : id # rsc.id => frontends'[id] = frontends[id]
            BY <1>3, <1>6 DEF TypeOK
        <2> QED
            BY <1>3, <1>5, <2>1, <2>2 DEF IndInv, FrontendHasBackend
    <1>7. CASE /\ frontends' = [frontends EXCEPT ![rsc.id] = rsc.route]
               /\ Goto(c, "upsertFrontend", k)
        <2>1. k \in Job /\ k.adds = job[c].adds /\ k.stage = job[c].stage
            <3>1. k \in Job
                BY <1>1, IndexType
            <3> QED
                BY <1>1, <3>1 DEF Job
        <2>2. /\ frontends' \in [Ids -> {None} \cup Routes]
              /\ FrontendHasBackend'
            BY <1>6, <1>7
        <2> HIDE DEF k
        <2>3. lock' = c /\ pc'[c] = "upsertFrontend" /\ job'[c] = k => Knows(c)'
            BY <1>3, <1>4, <2>1 DEF Knows, Calls
        <2> QED
            BY <1>3, <1>7, <2>1, <2>2, <2>3, GotoStep DEF Places, Calls
    <1>8. CASE /\ \E route \in {frontends[rsc.id], rsc.route} :
                     frontends' = [frontends EXCEPT ![rsc.id] = route]
               /\ FailedAttempt(c, "fault")
        <2>1. PICK route \in {frontends[rsc.id], rsc.route} :
                  frontends' = [frontends EXCEPT ![rsc.id] = route]
            BY <1>8
        <2>2. /\ frontends' \in [Ids -> {None} \cup Routes]
              /\ FrontendHasBackend'
            BY <1>6, <2>1
        <2> QED
            BY <1>3, <1>8, <2>2, FailedStep DEF Calls
    <1> QED
        BY <1>7, <1>8 DEF UpsertFrontend

LEMMA DeleteFrontendStep ==
    ASSUME IndInv, NEW c \in Controllers, DeleteFrontend(c)
    PROVE  IndInv'
    <1> DEFINE id == Deleting(c).id
    <1>1. job[c] \in Job /\ job[c].old \in Seq(Resource)
        BY JobFacts DEF IndInv, TypeOK
    <1>2. /\ pc[c] = "deleteFrontend"
          /\ UNCHANGED <<lock, done, backends>>
          /\ TypeOK
          /\ backends' \in [Ids -> {None} \cup SUBSET Servers]
        BY DEF DeleteFrontend, IndInv, TypeOK
    <1>3. job[c].i \in DOMAIN job[c].old /\ Removal(job[c], job[c].i)
        BY <1>2 DEF IndInv, AttemptsInOrder, Knows
    <1>4. id \in Ids
        BY <1>1, <1>3, ListFacts DEF Deleting
    <1>5. ASSUME NEW route \in {frontends[id], None},
                 frontends' = [frontends EXCEPT ![id] = route]
          PROVE  /\ frontends' \in [Ids -> {None} \cup Routes]
                 /\ FrontendHasBackend'
        <2>1. frontends' \in [Ids -> {None} \cup Routes]
            BY <1>2, <1>4, <1>5 DEF TypeOK
        <2>2. \A d \in Ids : frontends'[d] # None => frontends[d] # None
            BY <1>2, <1>4, <1>5 DEF TypeOK
        <2> QED
            BY <1>2, <2>1, <2>2 DEF IndInv, FrontendHasBackend
    <1>6. CASE /\ frontends' = [frontends EXCEPT ![id] = None]
               /\ Goto(c, "deleteBackend", job[c])
        <2>1. /\ frontends' \in [Ids -> {None} \cup Routes]
              /\ FrontendHasBackend'
            BY <1>5, <1>6
        <2>2. frontends'[id] = None
            BY <1>2, <1>4, <1>6 DEF TypeOK
        <2>3. lock' = c /\ pc'[c] = "deleteBackend" /\ job'[c] = job[c] => Knows(c)'
            BY <1>3, <2>2 DEF Knows, Calls, Deleting
        <2> QED
            BY <1>1, <1>2, <1>6, <2>1, <2>3, GotoStep DEF Places, Calls
    <1>7. CASE FailedAttempt(c, "notfound") /\ UNCHANGED frontends
        <2>1. /\ frontends' \in [Ids -> {None} \cup Routes]
              /\ FrontendHasBackend'
            BY <1>2, <1>7 DEF IndInv, TypeOK, FrontendHasBackend
        <2> QED
            BY <1>2, <1>7, <2>1, FailedStep DEF Calls
    <1>8. CASE /\ \E route \in {frontends[id], None} :
                     frontends' = [frontends EXCEPT ![id] = route]
               /\ FailedAttempt(c, "fault")
        <2>1. PICK route \in {frontends[id], None} :
                  frontends' = [frontends EXCEPT ![id] = route]
            BY <1>8
        <2>2. /\ frontends' \in [Ids -> {None} \cup Routes]
              /\ FrontendHasBackend'
            BY <1>5, <2>1
        <2> QED
            BY <1>2, <1>8, <2>2, FailedStep DEF Calls
    <1> QED
        BY <1>6, <1>7, <1>8 DEF DeleteFrontend

LEMMA DeleteBackendStep ==
    ASSUME IndInv, NEW c \in Controllers, DeleteBackend(c)
    PROVE  IndInv'
    <1> DEFINE id == Deleting(c).id
    <1>1. job[c] \in Job /\ job[c].old \in Seq(Resource)
        BY JobFacts DEF IndInv, TypeOK
    <1>2. /\ pc[c] = "deleteBackend"
          /\ UNCHANGED <<lock, done, frontends>>
          /\ TypeOK
          /\ frontends' \in [Ids -> {None} \cup Routes]
        BY DEF DeleteBackend, IndInv, TypeOK
    <1>3. job[c].i \in DOMAIN job[c].old /\ frontends[id] = None
        BY <1>2 DEF IndInv, AttemptsInOrder, Knows, Deleting
    <1>4. id \in Ids
        BY <1>1, <1>3, ListFacts DEF Deleting
    <1>5. ASSUME NEW srvs \in {backends[id], None},
                 backends' = [backends EXCEPT ![id] = srvs]
          PROVE  /\ backends' \in [Ids -> {None} \cup SUBSET Servers]
                 /\ FrontendHasBackend'
        <2>1. backends' \in [Ids -> {None} \cup SUBSET Servers]
            BY <1>2, <1>4, <1>5 DEF TypeOK
        <2>2. \A d \in Ids : d # id => backends'[d] = backends[d]
            BY <1>2, <1>4, <1>5 DEF TypeOK
        <2> QED
            BY <1>2, <1>3, <2>1, <2>2 DEF IndInv, FrontendHasBackend
    <1>6. CASE /\ backends' = [backends EXCEPT ![id] = None]
               /\ CommitOK(c)
        <2>1. /\ backends' \in [Ids -> {None} \cup SUBSET Servers]
              /\ FrontendHasBackend'
            BY <1>5, <1>6
        <2>2. AfterCommit(job[c]) \in Job
            BY <1>1, AfterCommitType
        <2>3. lock' = c /\ pc'[c] = "delete" => Knows(c)'
            BY DEF Knows, Calls
        <2> QED
            BY <1>2, <1>6, <2>1, <2>2, <2>3, GotoStep DEF CommitOK, Places
    <1>7. CASE FailedAttempt(c, "notfound") /\ UNCHANGED backends
        <2>1. /\ backends' \in [Ids -> {None} \cup SUBSET Servers]
              /\ FrontendHasBackend'
            BY <1>2, <1>7 DEF IndInv, TypeOK, FrontendHasBackend
        <2> QED
            BY <1>2, <1>7, <2>1, FailedStep DEF Calls
    <1>8. CASE /\ \E srvs \in {backends[id], None} :
                     backends' = [backends EXCEPT ![id] = srvs]
               /\ FailedAttempt(c, "fault")
        <2>1. PICK srvs \in {backends[id], None} :
                  backends' = [backends EXCEPT ![id] = srvs]
            BY <1>8
        <2>2. /\ backends' \in [Ids -> {None} \cup SUBSET Servers]
              /\ FrontendHasBackend'
            BY <1>5, <2>1
        <2> QED
            BY <1>2, <1>8, <2>2, FailedStep DEF Calls
    <1> QED
        BY <1>6, <1>7, <1>8 DEF DeleteBackend

LEMMA HangStep ==
    ASSUME IndInv, NEW c \in Controllers, Hang(c)
    PROVE  IndInv'
    <1>1. job[c] \in Job /\ job = [job EXCEPT ![c] = job[c]]
        BY DEF IndInv, TypeOK
    <1>2. Goto(c, "hung", job[c])
        BY <1>1 DEF Hang, Goto
    <1>3. pc[c] # "idle"
        BY DEF Hang, Calls
    <1>4. lock' = c /\ pc'[c] = "hung" => Knows(c)'
        BY DEF Knows, Calls
    <1>5. FrontendHasBackend'
        BY DEF IndInv, FrontendHasBackend, Hang
    <1> QED
        BY <1>1, <1>2, <1>3, <1>4, <1>5, GotoStep DEF Hang, Places, IndInv, TypeOK

LEMMA ReturnStep ==
    ASSUME IndInv, NEW c \in Controllers, Return(c)
    PROVE  IndInv'
    <1>1. TypeOK'
        BY NoJobType DEF IndInv, TypeOK, Return, Goto, Places
    <1>2. pc[c] # "idle"
        BY DEF Return
    <1>3. pc'[c] = "idle"
        BY DEF Return, Goto, IndInv, TypeOK
    <1>4. Knows(c)'
        BY <1>3 DEF Knows, Calls
    <1>5. AttemptsInOrder'
        BY <1>2, <1>4, OwnKnowledge DEF Return, Goto
    <1>6. FrontendHasBackend'
        BY DEF IndInv, FrontendHasBackend, Return
    <1> QED
        BY <1>1, <1>5, <1>6 DEF IndInv

LEMMA RestartStep ==
    ASSUME IndInv, Restart
    PROVE  IndInv'
    <1>1. TypeOK'
        BY NoJobType DEF IndInv, TypeOK, Restart, Places
    <1>2. \A d \in Controllers : pc'[d] = "idle"
        BY DEF Restart
    <1>3. AttemptsInOrder'
        BY <1>2 DEF AttemptsInOrder, Knows, Calls
    <1>4. FrontendHasBackend'
        BY DEF IndInv, FrontendHasBackend, Restart
    <1> QED
        BY <1>1, <1>3, <1>4 DEF IndInv

LEMMA NextIndInv == IndInv /\ [Next]_vars => IndInv'
    <1> SUFFICES ASSUME IndInv, [Next]_vars PROVE IndInv'
        OBVIOUS
    <1>1. CASE UNCHANGED vars
        BY <1>1 DEF IndInv, TypeOK, AttemptsInOrder, Knows, Removal,
                    FrontendHasBackend, vars
    <1>2. CASE Cancel
        BY <1>2 DEF IndInv, TypeOK, AttemptsInOrder, Knows, Removal,
                    FrontendHasBackend, Cancel
    <1>3. CASE Restart
        BY <1>3, RestartStep
    <1>4. ASSUME NEW c \in Controllers, Event(c) \/ Step(c) \/ Hang(c)
          PROVE  IndInv'
        <2>1. CASE Event(c)
            BY <2>1, EventStep
        <2>2. CASE Hang(c)
            BY <2>2, HangStep
        <2>3. CASE Step(c)
            BY <2>3, CommitDoneStep, CommitStopStep, CommitTryStep,
               UpsertBackendStep, BackendsUpsertedStep,
               UpsertFrontendStep, FrontendsUpsertedStep,
               DeleteNextStep, DeleteFrontendStep, DeleteBackendStep, ReturnStep
               DEF Step
        <2> QED
            BY <1>4, <2>1, <2>2, <2>3
    <1> QED
        BY <1>1, <1>2, <1>3, <1>4 DEF Next

LEMMA Invariance == Spec => []IndInv
    BY InitIndInv, NextIndInv, PTL DEF Spec

-----------------------------------------------------------------------------
(* Type correctness of the engine, for every instance: a step of engine.go *)
(* never leaves a handler, the mutex or the provider's table ill-formed.   *)
THEOREM TypeCorrect == Spec => []TypeOK
    <1>1. IndInv => TypeOK
        BY DEF IndInv
    <1> QED
        BY <1>1, Invariance, PTL

(* The order of addResources and deleteResources under the mutex: whatever *)
(* fails, retries, is cancelled or crashes, no frontend the provider holds *)
(* is without its backend.                                                 *)
THEOREM NoDanglingFrontend == Spec => []FrontendHasBackend
    <1>1. IndInv => FrontendHasBackend
        BY DEF IndInv
    <1> QED
        BY <1>1, Invariance, PTL

(* What a handler knows between two calls to the provider (the invariant   *)
(* that carries the others) holds throughout.                              *)
THEOREM HandlerKnowledge == Spec => []AttemptsInOrder
    <1>1. IndInv => AttemptsInOrder
        BY DEF IndInv
    <1> QED
        BY <1>1, Invariance, PTL

-----------------------------------------------------------------------------
(* Only four actions write to the provider, and only the holder of the     *)
(* mutex takes them.                                                       *)
LEMMA Writers ==
    ASSUME IndInv, [Next]_vars
    PROVE  \/ UNCHANGED <<backends, frontends>>
           \/ \E c \in Controllers :
                 /\ lock = c
                 /\ \/ UpsertBackend(c) \/ UpsertFrontend(c)
                    \/ DeleteFrontend(c) \/ DeleteBackend(c)
    <1>1. CASE UNCHANGED vars \/ Cancel \/ Restart
        BY <1>1 DEF vars, Cancel, Restart
    <1>2. ASSUME NEW c \in Controllers, Event(c) \/ Hang(c)
          PROVE  UNCHANGED <<backends, frontends>>
        BY <1>2 DEF Event, Hang, Add, Delete, Update, BeginAdd, Begin
    <1>3. ASSUME NEW c \in Controllers, Step(c)
          PROVE  \/ UNCHANGED <<backends, frontends>>
                 \/ /\ lock = c
                    /\ \/ UpsertBackend(c) \/ UpsertFrontend(c)
                       \/ DeleteFrontend(c) \/ DeleteBackend(c)
        <2>1. pc[c] # "idle" => lock = c
            BY DEF IndInv, AttemptsInOrder, Knows
        <2>2. CASE \/ CommitDone(c) \/ CommitStop(c) \/ CommitTry(c)
                   \/ BackendsUpserted(c) \/ FrontendsUpserted(c)
                   \/ DeleteNext(c) \/ Return(c)
            BY <2>2 DEF CommitDone, CommitStop, CommitTry, BackendsUpserted,
                        FrontendsUpserted, DeleteNext, Return
        <2>3. CASE \/ UpsertBackend(c) \/ UpsertFrontend(c)
                   \/ DeleteFrontend(c) \/ DeleteBackend(c)
            BY <2>1, <2>3 DEF UpsertBackend, UpsertFrontend, DeleteFrontend,
                              DeleteBackend
        <2> QED
            BY <1>3, <2>2, <2>3 DEF Step
    <1> QED
        BY <1>1, <1>2, <1>3 DEF Next

(* What the four do to the table, an entry at a time.                      *)
LEMMA BackendWrite ==
    ASSUME IndInv, NEW c \in Controllers, UpsertBackend(c)
    PROVE  /\ UNCHANGED frontends
           /\ \/ UNCHANGED backends
              \/ \E id \in Ids, srvs \in SUBSET Servers :
                    backends' = [backends EXCEPT ![id] = srvs]
    <1> DEFINE rsc == Adding(c)
    <1>1. job[c] \in Job /\ job[c].adds \in Seq(Resource) /\ TypeOK
        BY JobFacts DEF IndInv, TypeOK
    <1>2. rsc \in Resource
        BY <1>1, ListFacts DEF UpsertBackend, MoreToAdd, Adding
    <1>3. UNCHANGED frontends
        BY DEF UpsertBackend
    <1>4. PICK srvs \in Upserted(rsc) \cup Broken(rsc) :
              backends' = [backends EXCEPT ![rsc.id] = srvs]
        BY DEF UpsertBackend
    <1>5. rsc.id \in Ids /\ (srvs = backends[rsc.id] \/ srvs \in SUBSET Servers)
        BY <1>1, <1>2, BackendValues
    <1>6. CASE srvs = backends[rsc.id]
        BY <1>1, <1>3, <1>4, <1>5, <1>6 DEF TypeOK
    <1>7. CASE srvs \in SUBSET Servers
        BY <1>3, <1>4, <1>5, <1>7
    <1> QED
        BY <1>5, <1>6, <1>7

LEMMA FrontendWrite ==
    ASSUME IndInv, NEW c \in Controllers, UpsertFrontend(c)
    PROVE  /\ UNCHANGED backends
           /\ \/ UNCHANGED frontends
              \/ \E id \in Ids, route \in Routes :
                    /\ backends[id] # None
                    /\ frontends' = [frontends EXCEPT ![id] = route]
    <1> DEFINE rsc == Adding(c)
    <1>1. job[c] \in Job /\ job[c].adds \in Seq(Resource) /\ TypeOK
        BY JobFacts DEF IndInv, TypeOK
    <1>2. rsc.id \in Ids /\ rsc.route \in Routes
        BY <1>1, ListFacts DEF UpsertFrontend, MoreToAdd, Adding
    <1>3. backends[rsc.id] # None
        BY DEF IndInv, AttemptsInOrder, Knows, UpsertFrontend, MoreToAdd, Adding
    <1>4. UNCHANGED backends
        BY DEF UpsertFrontend
    <1>5. PICK route \in {frontends[rsc.id], rsc.route} :
              frontends' = [frontends EXCEPT ![rsc.id] = route]
        BY DEF UpsertFrontend
    <1>6. CASE route = frontends[rsc.id]
        BY <1>1, <1>4, <1>5, <1>6 DEF TypeOK
    <1>7. CASE route = rsc.route
        BY <1>2, <1>3, <1>4, <1>5, <1>7
    <1> QED
        BY <1>6, <1>7

LEMMA FrontendRemoval ==
    ASSUME IndInv, NEW c \in Controllers, DeleteFrontend(c)
    PROVE  /\ UNCHANGED backends
           /\ \/ UNCHANGED frontends
              \/ \E id \in Ids :
                    /\ id \notin IDs(job[c].adds)
                    /\ frontends' = [frontends EXCEPT ![id] = None]
    <1> DEFINE id == Deleting(c).id
    <1>1. job[c] \in Job /\ job[c].old \in Seq(Resource) /\ TypeOK
        BY JobFacts DEF IndInv, TypeOK
    <1>2. job[c].i \in DOMAIN job[c].old /\ Removal(job[c], job[c].i)
        BY DEF IndInv, AttemptsInOrder, Knows, DeleteFrontend
    <1>3. id \in Ids /\ id \notin IDs(job[c].adds)
        BY <1>1, <1>2, ListFacts DEF Deleting, Removal
    <1>4. UNCHANGED backends
        BY DEF DeleteFrontend
    <1>5. \/ UNCHANGED frontends
          \/ frontends' = [frontends EXCEPT ![id] = None]
        BY <1>1 DEF DeleteFrontend, TypeOK
    <1> QED
        BY <1>3, <1>4, <1>5

LEMMA BackendRemoval ==
    ASSUME IndInv, NEW c \in Controllers, DeleteBackend(c)
    PROVE  /\ UNCHANGED frontends
           /\ \/ UNCHANGED backends
              \/ \E id \in Ids :
                    /\ id \notin IDs(job[c].adds)
                    /\ frontends[id] = None
                    /\ backends' = [backends EXCEPT ![id] = None]
    <1> DEFINE id == Deleting(c).id
    <1>1. job[c] \in Job /\ job[c].old \in Seq(Resource) /\ TypeOK
        BY JobFacts DEF IndInv, TypeOK
    <1>2. /\ job[c].i \in DOMAIN job[c].old /\ Removal(job[c], job[c].i)
          /\ frontends[id] = None
        BY DEF IndInv, AttemptsInOrder, Knows, DeleteBackend, Deleting
    <1>3. id \in Ids /\ id \notin IDs(job[c].adds)
        BY <1>1, <1>2, ListFacts DEF Deleting, Removal
    <1>4. UNCHANGED frontends
        BY DEF DeleteBackend
    <1>5. \/ UNCHANGED backends
          \/ backends' = [backends EXCEPT ![id] = None]
        BY <1>1 DEF DeleteBackend, TypeOK
    <1> QED
        BY <1>2, <1>3, <1>4, <1>5

(* The engine implements the abstract routing table: every call it makes,  *)
(* failed ones included, is one step of the table or none.                 *)
THEOREM ImplementsTable == Spec => RefinesTable
    <1>1. Init => Table!TableInit
        BY DEF Init, Table!TableInit
    <1>2. IndInv /\ [Next]_vars => [Table!TableNext]_(Table!tableVars)
        <2> SUFFICES ASSUME IndInv, [Next]_vars,
                            ~UNCHANGED <<backends, frontends>>
                     PROVE  Table!TableNext
            BY DEF Table!tableVars
        <2>1. PICK c \in Controllers :
                  \/ UpsertBackend(c) \/ UpsertFrontend(c)
                  \/ DeleteFrontend(c) \/ DeleteBackend(c)
            BY Writers
        <2>2. CASE UpsertBackend(c)
            BY <2>2, BackendWrite DEF Table!TableNext, Table!PutBackend
        <2>3. CASE UpsertFrontend(c)
            BY <2>3, FrontendWrite DEF Table!TableNext, Table!PutFrontend
        <2>4. CASE DeleteFrontend(c)
            BY <2>4, FrontendRemoval DEF Table!TableNext, Table!DropFrontend
        <2>5. CASE DeleteBackend(c)
            BY <2>5, BackendRemoval DEF Table!TableNext, Table!DropBackend
        <2> QED
            BY <2>1, <2>2, <2>3, <2>4, <2>5
    <1> QED
        BY <1>1, <1>2, Invariance, PTL DEF Spec, RefinesTable, Table!TableSpec

(* updateResources never interrupts what the new object still asks for:    *)
(* no step of an Update takes away a frontend or backend of an ID it adds. *)
THEOREM UpdateIsSafe == Spec => UpdateKeepsLive
    <1> DEFINE Keeps == \A c \in Controllers : lock = c /\ job[c].op = "Update" =>
                  \A id \in IDs(job[c].adds) :
                     /\ frontends[id] # None => frontends'[id] # None
                     /\ backends[id] # None => backends'[id] # None
    <1>1. IndInv /\ [Next]_vars => [Keeps]_vars
        <2> SUFFICES ASSUME IndInv, [Next]_vars,
                            NEW c \in Controllers, lock = c,
                            NEW id \in IDs(job[c].adds)
                     PROVE  /\ frontends[id] # None => frontends'[id] # None
                            /\ backends[id] # None => backends'[id] # None
            OBVIOUS
        <2>1. CASE UNCHANGED <<backends, frontends>>
            BY <2>1
        <2>2. CASE \/ UpsertBackend(c) \/ UpsertFrontend(c)
                   \/ DeleteFrontend(c) \/ DeleteBackend(c)
            <3>1. /\ backends \in [Ids -> {None} \cup SUBSET Servers]
                  /\ frontends \in [Ids -> {None} \cup Routes]
                BY DEF IndInv, TypeOK
            <3>2. id \in Ids
                BY ListFacts, JobFacts DEF IDs, IndInv, TypeOK
            <3>3. CASE UpsertBackend(c)
                BY <3>1, <3>2, <3>3, BackendWrite, NoneAssumption
            <3>4. CASE UpsertFrontend(c)
                BY <3>1, <3>2, <3>4, FrontendWrite, NoneAssumption
            <3>5. CASE DeleteFrontend(c)
                BY <3>1, <3>2, <3>5, FrontendRemoval
            <3>6. CASE DeleteBackend(c)
                BY <3>1, <3>2, <3>6, BackendRemoval
            <3> QED
                BY <2>2, <3>3, <3>4, <3>5, <3>6
        <2> QED
            BY <2>1, <2>2, Writers
    <1> QED
        BY <1>1, Invariance, PTL DEF Spec, UpdateKeepsLive

-----------------------------------------------------------------------------
(***************************************************************************)
(* That the handlers do their work: MakeBeforeBreak and Settled.           *)
(*                                                                         *)
(* Neither is inductive, for both speak of the end of a long series of     *)
(* calls.  Delivering says how far a handler has come at each place; the   *)
(* part of it that is about removals holds only while the context is not   *)
(* cancelled, because Commit then returns nil without having done a thing. *)
(***************************************************************************)

(* The resources of a list before position n that no later one of the list *)
(* replaces have been sent, in this attempt: their backends ...            *)
BackendsSent(list, n) ==
    \A k \in DOMAIN list : k < n /\ Final(list, k) =>
        /\ backends[list[k].id] # None
        /\ list[k].servers \subseteq backends[list[k].id]

(* ... and their frontends.                                                *)
FrontendsSent(list, n) ==
    \A k \in DOMAIN list : k < n /\ Final(list, k) =>
        frontends[list[k].id] = list[k].route

(* What was to be removed, before position n of the previous list, is gone. *)
RemovedUpTo(j, n) ==
    \A k \in DOMAIN j.old : k < n /\ Removal(j, k) =>
        /\ frontends[j.old[k].id] = None
        /\ backends[j.old[k].id] = None

AllRemoved(j) ==
    \A k \in DOMAIN j.old : Removal(j, k) =>
        /\ frontends[j.old[k].id] = None
        /\ backends[j.old[k].id] = None

DeleteCalls == {"deleteFrontend", "deleteBackend"}

(* How far a handler with local state j has come at place p.               *)
Delivered(p, j) ==
    /\ p = "upsertBackend" => BackendsSent(j.adds, j.i)
    /\ p = "upsertFrontend" => /\ BackendsSent(j.adds, Len(j.adds) + 1)
                               /\ FrontendsSent(j.adds, j.i)
    /\ p \in {"delete"} \cup DeleteCalls => j.stage = "delete"
    /\ p \in DeleteCalls => Published(j.adds)
    /\ p \in {"delete", "commit"} \cup DeleteCalls /\ j.stage = "delete" /\ ~done
          => Published(j.adds) /\ RemovedUpTo(j, j.i)
    /\ p = "return" /\ j.outcome = "ok" /\ ~done
          => Published(j.adds) /\ AllRemoved(j)

Delivering == \A c \in Controllers : Delivered(pc[c], job[c])

WorkInv == IndInv /\ Delivering

-----------------------------------------------------------------------------
(* A step of the handler of c: Delivering need only be shown for c itself.  *)
LEMMA OwnDelivery ==
    ASSUME WorkInv, NEW c \in Controllers, pc[c] # "idle",
           NEW p, NEW j, Goto(c, p, j), Delivered(p, j)'
    PROVE  Delivering'
    <1>1. pc \in [Controllers -> Places] /\ job \in [Controllers -> Job]
        BY DEF WorkInv, IndInv, TypeOK
    <1>2. pc'[c] = p /\ job'[c] = j
        BY <1>1 DEF Goto
    <1>3. ASSUME NEW d \in Controllers, d # c
          PROVE  pc'[d] = "idle"
        BY <1>1, <1>3, OthersIdle DEF WorkInv, Goto
    <1>4. ASSUME NEW d \in Controllers
          PROVE  Delivered(pc[d], job[d])'
        <2>1. CASE d = c
            BY <1>2, <2>1 DEF Delivered
        <2>2. CASE d # c
            BY <1>3, <2>2 DEF Delivered, DeleteCalls
        <2> QED
            BY <2>1, <2>2
    <1> QED
        BY <1>4 DEF Delivering

(* What the steps do to a handler's local state, field by field.           *)
LEMMA AfterCommitFields ==
    ASSUME NEW j \in Job
    PROVE  /\ AfterCommit(j).adds = j.adds /\ AfterCommit(j).old = j.old
           /\ AfterCommit(j).stage = "delete"
           /\ AfterCommit(j).i = IF j.stage = "add" THEN 1 ELSE j.i + 1
    BY DEF AfterCommit, Job

LEMMA FailedFields ==
    ASSUME NEW j \in Job, NEW error
    PROVE  LET f == [j EXCEPT !.tries = @ + 1, !.err = error] IN
           /\ f.adds = j.adds /\ f.old = j.old
           /\ f.stage = j.stage /\ f.i = j.i
    BY DEF Job

(* The positions of a list.                                                *)
LEMMA ListDomain ==
    ASSUME NEW list \in Seq(Resource)
    PROVE  /\ Len(list) \in Nat
           /\ DOMAIN list = 1 .. Len(list)
    OBVIOUS

(* A list is published when all of it has been sent.                       *)
LEMMA SentIsPublished ==
    ASSUME NEW list \in Seq(Resource), NEW n \in Nat,
           \A k \in DOMAIN list : k < n,
           BackendsSent(list, Len(list) + 1), FrontendsSent(list, n)
    PROVE  Published(list)
    <1>1. \A k \in DOMAIN list : k < Len(list) + 1
        BY ListDomain
    <1> QED
        BY <1>1 DEF Published, BackendsSent, FrontendsSent

(* Nothing to add is always published.                                     *)
LEMMA EmptyPublished ==
    ASSUME NEW list, list = <<>>
    PROVE  Published(list)
    BY DEF Published

(* At the head of the deletions nothing has been removed yet.              *)
LEMMA NoneRemoved ==
    ASSUME NEW j \in Job, NEW n, n = 1
    PROVE  RemovedUpTo(j, n)
    <1>1. \A k \in DOMAIN j.old : ~(k < n)
        BY JobFacts, ListDomain
    <1> QED
        BY <1>1 DEF RemovedUpTo

(* A deletion of an ID that is not among the added ones disturbs neither   *)
(* what was published nor what was removed.                                *)
LEMMA DeletionFrame ==
    ASSUME WorkInv, NEW j \in Job, NEW id \in Ids, id \notin IDs(j.adds),
           \/ UNCHANGED frontends
           \/ frontends' = [frontends EXCEPT ![id] = None],
           \/ UNCHANGED backends
           \/ backends' = [backends EXCEPT ![id] = None]
    PROVE  /\ Published(j.adds) => Published(j.adds)'
           /\ \A n : RemovedUpTo(j, n) => RemovedUpTo(j, n)'
    <1>1. /\ backends \in [Ids -> {None} \cup SUBSET Servers]
          /\ frontends \in [Ids -> {None} \cup Routes]
        BY DEF WorkInv, IndInv, TypeOK
    <1>2. /\ \A d \in Ids : d # id => /\ frontends'[d] = frontends[d]
                                      /\ backends'[d] = backends[d]
          /\ \A d \in Ids : /\ frontends[d] = None => frontends'[d] = None
                            /\ backends[d] = None => backends'[d] = None
        BY <1>1
    <1>3. \A k \in DOMAIN j.adds : j.adds[k].id \in Ids /\ j.adds[k].id # id
        BY JobFacts, ListFacts DEF IDs
    <1>4. \A k \in DOMAIN j.old : j.old[k].id \in Ids
        BY JobFacts, ListFacts
    <1>5. ASSUME Published(j.adds) PROVE Published(j.adds)'
        BY <1>2, <1>3, <1>5 DEF Published
    <1>6. ASSUME NEW n, RemovedUpTo(j, n) PROVE RemovedUpTo(j, n)'
        BY <1>2, <1>4, <1>6 DEF RemovedUpTo
    <1> QED
        BY <1>5, <1>6

-----------------------------------------------------------------------------
LEMMA InitDelivering == Init => Delivering
    BY DEF Init, Delivering, Delivered, DeleteCalls

(* A handler starts: the deletions of Delete have nothing to publish, and  *)
(* one that could not build its resources does not end well.               *)
LEMMA BeginDelivery ==
    ASSUME WorkInv, NEW c \in Controllers, NEW j \in Job,
           NEW p \in {"commit", "return", "delete"},
           p = "commit" => j.stage = "add",
           p = "return" => j.outcome # "ok",
           p = "delete" => j.stage = "delete" /\ j.adds = <<>> /\ j.i = 1,
           Begin(c, j, p)
    PROVE  Delivering'
    <1>1. pc \in [Controllers -> Places] /\ job \in [Controllers -> Job]
        BY DEF WorkInv, IndInv, TypeOK
    <1>2. pc'[c] = p /\ job'[c] = j
        BY <1>1 DEF Begin
    <1>3. ASSUME NEW d \in Controllers, d # c
          PROVE  pc'[d] = "idle"
        <2>1. pc[d] = "idle"
            BY NoneAssumption DEF WorkInv, IndInv, AttemptsInOrder, Knows, Begin
        <2> QED
            BY <1>1, <1>3, <2>1 DEF Begin
    <1>4. p = "delete" => Published(j.adds)' /\ RemovedUpTo(j, j.i)'
        <2>1. p = "delete" => Published(j.adds) /\ RemovedUpTo(j, j.i)
            BY EmptyPublished, NoneRemoved
        <2> QED
            BY <2>1 DEF Published, RemovedUpTo, Removal, Begin
    <1>5. Delivered(p, j)'
        BY <1>4 DEF Delivered, DeleteCalls
    <1>6. ASSUME NEW d \in Controllers
          PROVE  Delivered(pc[d], job[d])'
        <2>1. CASE d = c
            BY <1>2, <1>5, <2>1 DEF Delivered
        <2>2. CASE d # c
            BY <1>3, <2>2 DEF Delivered, DeleteCalls
        <2> QED
            BY <2>1, <2>2
    <1> QED
        BY <1>6 DEF Delivering

LEMMA EventDelivery ==
    ASSUME WorkInv, NEW c \in Controllers, Event(c)
    PROVE  Delivering'
    <1> PICK list \in Lists :
            \/ Add(c, list)
            \/ Delete(c, list)
            \/ \E previous \in Lists : Update(c, list, previous)
        BY DEF Event
    <1>0. list \in Seq(Resource)
        BY ListsAssumption
    <1>a. ASSUME NEW j \in Job, j.stage = "add", BeginAdd(c, j)
          PROVE  Delivering'
        <2>1. CASE AddBuilds(j.adds)
            BY <1>a, <2>1, BeginDelivery DEF BeginAdd
        <2>2. CASE ~AddBuilds(j.adds)
            <3> DEFINE g == [j EXCEPT !.outcome = "build"]
            <3>1. g \in Job /\ g.outcome = "build"
                BY DEF Job
            <3>2. Begin(c, g, "return")
                BY <1>a, <2>2 DEF BeginAdd
            <3> HIDE DEF g
            <3> QED
                BY <3>1, <3>2, BeginDelivery
        <2> QED
            BY <2>1, <2>2
    <1>1. CASE Add(c, list)
        <2> DEFINE j == NewJob("Add", "add", list, <<>>)
        <2>1. j \in Job /\ j.stage = "add"
            BY <1>0 DEF Job, NewJob
        <2>2. BeginAdd(c, j)
            BY <1>1 DEF Add
        <2> HIDE DEF j
        <2> QED
            BY <1>a, <2>1, <2>2
    <1>2. CASE Delete(c, list)
        <2> DEFINE j == NewJob("Delete", "delete", <<>>, list)
        <2>1. j \in Job /\ j.stage = "delete" /\ j.adds = <<>> /\ j.i = 1
            BY <1>0 DEF Job, NewJob
        <2>2. Begin(c, j, "delete")
            BY <1>2 DEF Delete
        <2> HIDE DEF j
        <2> QED
            BY <2>1, <2>2, BeginDelivery
    <1>3. CASE \E previous \in Lists : Update(c, list, previous)
        <2> PICK previous \in Lists : Update(c, list, previous)
            BY <1>3
        <2> DEFINE j == NewJob("Update", "add", list, previous)
        <2>1. j \in Job /\ j.stage = "add"
            BY <1>0, ListsAssumption DEF Job, NewJob
        <2>2. BeginAdd(c, j)
            BY DEF Update
        <2> HIDE DEF j
        <2> QED
            BY <1>a, <2>1, <2>2
    <1> QED
        BY <1>1, <1>2, <1>3

-----------------------------------------------------------------------------
(* Commit's loop.  A cancelled context makes it return nil with the work   *)
(* undone, which is why Delivered promises nothing then.                   *)
LEMMA CommitDoneDelivery ==
    ASSUME WorkInv, NEW c \in Controllers, CommitDone(c)
    PROVE  Delivering'
    <1>1. job[c] \in Job
        BY DEF WorkInv, IndInv, TypeOK
    <1>2. PICK j : j = AfterCommit(job[c])
        OBVIOUS
    <1>3. Goto(c, "delete", j) /\ pc[c] = "commit" /\ done'
        BY <1>2 DEF CommitDone, CommitOK
    <1>4. j.stage = "delete"
        BY <1>1, <1>2, AfterCommitFields
    <1>5. Delivered("delete", j)'
        BY <1>3, <1>4 DEF Delivered, DeleteCalls
    <1> QED
        BY <1>3, <1>5, OwnDelivery

LEMMA CommitStopDelivery ==
    ASSUME WorkInv, NEW c \in Controllers, CommitStop(c)
    PROVE  Delivering'
    <1>1. PICK j : j = [job[c] EXCEPT !.outcome = "timeout"]
        OBVIOUS
    <1>2. j.outcome = "timeout"
        BY <1>1 DEF WorkInv, IndInv, TypeOK, Job
    <1>3. Goto(c, "return", j) /\ pc[c] = "commit"
        BY <1>1 DEF CommitStop
    <1>4. Delivered("return", j)'
        BY <1>2 DEF Delivered, DeleteCalls
    <1> QED
        BY <1>3, <1>4, OwnDelivery

LEMMA CommitTryDelivery ==
    ASSUME WorkInv, NEW c \in Controllers, CommitTry(c)
    PROVE  Delivering'
    <1>1. PICK j \in Job : j = job[c]
        BY DEF WorkInv, IndInv, TypeOK
    <1>2. Delivered("commit", j) /\ pc[c] = "commit" /\ ~done
        BY <1>1 DEF WorkInv, Delivering, CommitTry
    <1>3. UNCHANGED <<done, backends, frontends>>
        BY DEF CommitTry
    <1>4. CASE j.stage = "add"
        <2>1. PICK g : g = [j EXCEPT !.i = 1]
            OBVIOUS
        <2>2. g \in Job /\ g.i = 1
            BY <2>1 DEF Job
        <2>3. Goto(c, "upsertBackend", g)
            BY <1>1, <1>4, <2>1 DEF CommitTry
        <2>4. \A k \in DOMAIN g.adds : ~(k < g.i)
            BY <2>2, JobFacts, ListDomain
        <2>5. Delivered("upsertBackend", g)'
            BY <2>4 DEF Delivered, DeleteCalls, BackendsSent
        <2> QED
            BY <1>2, <2>3, <2>5, OwnDelivery
    <1>5. CASE j.stage = "delete"
        <2>1. Goto(c, "deleteFrontend", j)
            BY <1>1, <1>5 DEF CommitTry
        <2>2. Published(j.adds) /\ RemovedUpTo(j, j.i)
            BY <1>2, <1>5 DEF Delivered
        <2>3. Published(j.adds)' /\ RemovedUpTo(j, j.i)'
            BY <1>3, <2>2 DEF Published, RemovedUpTo
        <2>4. Delivered("deleteFrontend", j)'
            BY <1>5, <2>3 DEF Delivered, DeleteCalls
        <2> QED
            BY <1>2, <2>1, <2>4, OwnDelivery
    <1> QED
        BY <1>4, <1>5, JobFacts

-----------------------------------------------------------------------------
(* addResources.  What one attempt has sent stays, because a resource that *)
(* a later one of the list does not replace has an ID of its own from then *)
(* on.                                                                     *)
LEMMA FinalAlone ==
    ASSUME NEW list \in Seq(Resource), NEW k \in DOMAIN list, Final(list, k),
           NEW m \in DOMAIN list, k < m
    PROVE  list[m].id # list[k].id
    <1>1. k \in Nat /\ m \in Nat
        BY ListFacts
    <1> QED
        BY <1>1 DEF Final


(* An attempt that fails has nothing to show in the add stage, and in the  *)
(* delete stage what it had.                                               *)
LEMMA FailedDelivery ==
    ASSUME WorkInv, NEW c \in Controllers, pc[c] \in Calls,
           NEW j \in Job, j = job[c], NEW error, FailedAttempt(c, error),
           UNCHANGED done,
           pc[c] \in DeleteCalls /\ ~done =>
               Published(j.adds)' /\ RemovedUpTo(j, j.i)'
    PROVE  Delivering'
    <1>1. PICK f : f = [j EXCEPT !.tries = @ + 1, !.err = error]
        OBVIOUS
    <1>2. f.adds = j.adds /\ f.old = j.old /\ f.stage = j.stage /\ f.i = j.i
        BY <1>1, FailedFields
    <1>3. Goto(c, "commit", f) /\ pc[c] # "idle"
        BY <1>1 DEF FailedAttempt, Calls
    <1>4. j.stage = "delete" => pc[c] \in DeleteCalls
        BY DEF WorkInv, IndInv, AttemptsInOrder, Knows, Calls, DeleteCalls
    <1>5. f.stage = "delete" /\ ~done' => Published(f.adds)' /\ RemovedUpTo(f, f.i)'
        BY <1>2, <1>4 DEF RemovedUpTo, Removal
    <1>6. Delivered("commit", f)'
        BY <1>5 DEF Delivered, DeleteCalls
    <1> QED
        BY <1>3, <1>6, OwnDelivery

LEMMA UpsertBackendDelivery ==
    ASSUME WorkInv, NEW c \in Controllers, UpsertBackend(c)
    PROVE  Delivering'
    <1>1. PICK j \in Job : j = job[c]
        BY DEF WorkInv, IndInv, TypeOK
    <1>2. Delivered("upsertBackend", j) /\ pc[c] = "upsertBackend"
        BY <1>1 DEF WorkInv, Delivering, UpsertBackend
    <1>3. PICK rsc \in Resource : rsc = j.adds[j.i]
        BY <1>1, JobFacts, ListFacts DEF UpsertBackend, MoreToAdd
    <1>4. j.i \in DOMAIN j.adds /\ rsc = Adding(c) /\ UNCHANGED done
        BY <1>1, <1>3 DEF UpsertBackend, MoreToAdd, Adding
    <1>5. CASE FailedAttempt(c, "fault")
        BY <1>1, <1>2, <1>4, <1>5, FailedDelivery DEF Calls, DeleteCalls
    <1>6. CASE /\ \E srvs \in Upserted(rsc) :
                     backends' = [backends EXCEPT ![rsc.id] = srvs]
               /\ Goto(c, "upsertBackend", [job[c] EXCEPT !.i = @ + 1])
        <2>1. PICK srvs \in Upserted(rsc) :
                  backends' = [backends EXCEPT ![rsc.id] = srvs]
            BY <1>6
        <2>2. rsc.id \in Ids /\ srvs # None /\ rsc.servers \subseteq srvs
            BY BackendValues DEF WorkInv, IndInv, Upserted, UpsertedBackend
        <2>3. backends \in [Ids -> {None} \cup SUBSET Servers]
            BY DEF WorkInv, IndInv, TypeOK
        <2>4. PICK g : g = [j EXCEPT !.i = @ + 1]
            OBVIOUS
        <2>5. g.adds = j.adds /\ g.i = j.i + 1 /\ Goto(c, "upsertBackend", g)
            BY <1>1, <1>6, <2>4 DEF Job
        <2>6. ASSUME NEW k \in DOMAIN j.adds, k < j.i + 1, Final(j.adds, k)
              PROVE  /\ backends'[j.adds[k].id] # None
                     /\ j.adds[k].servers \subseteq backends'[j.adds[k].id]
            <3>0. j.adds \in Seq(Resource) /\ j.i \in Nat /\ j.i \in DOMAIN j.adds
                BY <1>4, JobFacts
            <3>1. k \in Nat /\ j.i \in Nat /\ j.adds[k].id \in Ids
                BY <3>0, ListFacts
            <3>2. CASE k = j.i
                BY <1>3, <2>1, <2>2, <2>3, <3>2
            <3>3. CASE k < j.i
                <4>1. j.adds[k].id # rsc.id
                    BY <1>3, <2>6, <3>0, <3>3, FinalAlone
                <4>2. backends'[j.adds[k].id] = backends[j.adds[k].id]
                    BY <2>1, <2>3, <3>1, <4>1
                <4>3. BackendsSent(j.adds, j.i)
                    BY <1>2 DEF Delivered
                <4> QED
                    BY <2>6, <3>3, <4>2, <4>3 DEF BackendsSent
            <3> QED
                BY <2>6, <3>1, <3>2, <3>3
        <2>7. BackendsSent(g.adds, g.i)'
            BY <2>5, <2>6 DEF BackendsSent
        <2>8. Delivered("upsertBackend", g)'
            BY <2>7 DEF Delivered, DeleteCalls
        <2> QED
            BY <1>2, <2>5, <2>8, OwnDelivery
    <1> QED
        BY <1>4, <1>5, <1>6 DEF UpsertBackend

LEMMA BackendsUpsertedDelivery ==
    ASSUME WorkInv, NEW c \in Controllers, BackendsUpserted(c)
    PROVE  Delivering'
    <1>1. PICK j \in Job : j = job[c]
        BY DEF WorkInv, IndInv, TypeOK
    <1>2. /\ BackendsSent(j.adds, j.i) /\ pc[c] = "upsertBackend"
          /\ UNCHANGED backends /\ j.i \notin DOMAIN j.adds
        BY <1>1 DEF WorkInv, Delivering, Delivered, BackendsUpserted, MoreToAdd
    <1>3. PICK g : g = [j EXCEPT !.i = 1]
        OBVIOUS
    <1>4. g.adds = j.adds /\ g.i = 1 /\ Goto(c, "upsertFrontend", g)
        BY <1>1, <1>3 DEF Job, BackendsUpserted
    <1>5. \A k \in DOMAIN j.adds : k < j.i /\ ~(k < 1)
        BY <1>2, JobFacts, ListDomain
    <1>6. BackendsSent(g.adds, Len(g.adds) + 1)'
        BY <1>2, <1>4, <1>5 DEF BackendsSent
    <1>7. FrontendsSent(g.adds, g.i)'
        BY <1>4, <1>5 DEF FrontendsSent
    <1>8. Delivered("upsertFrontend", g)'
        BY <1>6, <1>7 DEF Delivered, DeleteCalls
    <1> QED
        BY <1>2, <1>4, <1>8, OwnDelivery

LEMMA UpsertFrontendDelivery ==
    ASSUME WorkInv, NEW c \in Controllers, UpsertFrontend(c)
    PROVE  Delivering'
    <1>1. PICK j \in Job : j = job[c]
        BY DEF WorkInv, IndInv, TypeOK
    <1>2. Delivered("upsertFrontend", j) /\ pc[c] = "upsertFrontend"
        BY <1>1 DEF WorkInv, Delivering, UpsertFrontend
    <1>3. PICK rsc \in Resource : rsc = j.adds[j.i]
        BY <1>1, JobFacts, ListFacts DEF UpsertFrontend, MoreToAdd
    <1>4. /\ j.i \in DOMAIN j.adds /\ rsc = Adding(c) /\ UNCHANGED <<done, backends>>
          /\ rsc.id \in Ids
        BY <1>1, <1>3 DEF UpsertFrontend, MoreToAdd, Adding, Resource
    <1>5. CASE FailedAttempt(c, "fault")
        BY <1>1, <1>2, <1>4, <1>5, FailedDelivery DEF Calls, DeleteCalls
    <1>6. CASE /\ frontends' = [frontends EXCEPT ![rsc.id] = rsc.route]
               /\ Goto(c, "upsertFrontend", [job[c] EXCEPT !.i = @ + 1])
        <2>1. frontends \in [Ids -> {None} \cup Routes]
            BY DEF WorkInv, IndInv, TypeOK
        <2>2. PICK g : g = [j EXCEPT !.i = @ + 1]
            OBVIOUS
        <2>3. g.adds = j.adds /\ g.i = j.i + 1 /\ Goto(c, "upsertFrontend", g)
            BY <1>1, <1>6, <2>2 DEF Job
        <2>4. ASSUME NEW k \in DOMAIN j.adds, k < j.i + 1, Final(j.adds, k)
              PROVE  frontends'[j.adds[k].id] = j.adds[k].route
            <3>0. j.adds \in Seq(Resource) /\ j.i \in Nat /\ j.i \in DOMAIN j.adds
                BY <1>4, JobFacts
            <3>1. k \in Nat /\ j.i \in Nat /\ j.adds[k].id \in Ids
                BY <3>0, ListFacts
            <3>2. CASE k = j.i
                BY <1>3, <1>4, <1>6, <2>1, <3>2
            <3>3. CASE k < j.i
                <4>1. j.adds[k].id # rsc.id
                    BY <1>3, <2>4, <3>0, <3>3, FinalAlone
                <4>2. frontends'[j.adds[k].id] = frontends[j.adds[k].id]
                    BY <1>6, <2>1, <3>1, <4>1
                <4>3. FrontendsSent(j.adds, j.i)
                    BY <1>2 DEF Delivered
                <4> QED
                    BY <2>4, <3>3, <4>2, <4>3 DEF FrontendsSent
            <3> QED
                BY <2>4, <3>1, <3>2, <3>3
        <2>5. FrontendsSent(g.adds, g.i)'
            BY <2>3, <2>4 DEF FrontendsSent
        <2>6. BackendsSent(g.adds, Len(g.adds) + 1)'
            BY <1>2, <1>4, <2>3 DEF Delivered, BackendsSent
        <2>7. Delivered("upsertFrontend", g)'
            BY <2>5, <2>6 DEF Delivered, DeleteCalls
        <2> QED
            BY <1>2, <2>3, <2>7, OwnDelivery
    <1> QED
        BY <1>4, <1>5, <1>6 DEF UpsertFrontend

(* All of the list has been sent: it is published, and the deletions begin. *)
LEMMA FrontendsUpsertedDelivery ==
    ASSUME WorkInv, NEW c \in Controllers, FrontendsUpserted(c)
    PROVE  Delivering'
    <1>1. PICK j \in Job : j = job[c]
        BY DEF WorkInv, IndInv, TypeOK
    <1>2. /\ BackendsSent(j.adds, Len(j.adds) + 1) /\ FrontendsSent(j.adds, j.i)
          /\ pc[c] = "upsertFrontend" /\ j.i \notin DOMAIN j.adds
          /\ UNCHANGED <<backends, frontends>> /\ j.stage = "add"
        BY <1>1 DEF WorkInv, Delivering, Delivered, FrontendsUpserted, MoreToAdd,
                    IndInv, AttemptsInOrder, Knows
    <1>3. PICK g : g = AfterCommit(j)
        OBVIOUS
    <1>4. g \in Job /\ g.adds = j.adds /\ g.stage = "delete" /\ g.i = 1
        BY <1>2, <1>3, AfterCommitFields, AfterCommitType
    <1>5. Goto(c, "delete", g)
        BY <1>1, <1>3 DEF FrontendsUpserted, CommitOK
    <1>6. j.i \in Nat /\ j.adds \in Seq(Resource) /\ \A k \in DOMAIN j.adds : k < j.i
        BY <1>2, JobFacts, ListDomain
    <1>7. Published(g.adds) /\ RemovedUpTo(g, g.i)
        BY <1>2, <1>4, <1>6, SentIsPublished, NoneRemoved
    <1>8. Published(g.adds)' /\ RemovedUpTo(g, g.i)'
        BY <1>2, <1>7 DEF Published, RemovedUpTo
    <1>9. Delivered("delete", g)'
        BY <1>4, <1>8 DEF Delivered, DeleteCalls
    <1> QED
        BY <1>2, <1>5, <1>9, OwnDelivery

-----------------------------------------------------------------------------
(* deleteResources.                                                        *)
LEMMA DeleteNextDelivery ==
    ASSUME WorkInv, NEW c \in Controllers, DeleteNext(c)
    PROVE  Delivering'
    <1>1. PICK j \in Job : j = job[c]
        BY DEF WorkInv, IndInv, TypeOK
    <1>2. /\ pc[c] = "delete" /\ j.stage = "delete"
          /\ ~done => Published(j.adds) /\ RemovedUpTo(j, j.i)
          /\ UNCHANGED <<done, backends, frontends>>
        BY <1>1 DEF WorkInv, Delivering, Delivered, DeleteNext
    <1>3. ~done' => Published(j.adds)' /\ RemovedUpTo(j, j.i)'
        BY <1>2 DEF Published, RemovedUpTo
    <1>4. j.i \in Nat /\ j.old \in Seq(Resource)
        BY JobFacts
    <1>5. CASE j.i \notin DOMAIN j.old
        (* The loop ended: every position is before the current one.       *)
        <2>1. Goto(c, "return", j)
            BY <1>1, <1>5 DEF DeleteNext, MoreToDelete
        <2>2. \A k \in DOMAIN j.old : k < j.i
            BY <1>4, <1>5, JobFacts, ListDomain
        <2>3. ~done' => Published(j.adds)' /\ AllRemoved(j)'
            BY <1>3, <2>2 DEF RemovedUpTo, AllRemoved
        <2>4. Delivered("return", j)'
            BY <2>3 DEF Delivered, DeleteCalls
        <2> QED
            BY <1>2, <2>1, <2>4, OwnDelivery
    <1>6. CASE j.i \in DOMAIN j.old /\ ~Removal(j, j.i)
        (* The new list has this ID: it is passed over.                    *)
        <2>1. PICK g : g = [j EXCEPT !.i = @ + 1]
            OBVIOUS
        <2>2. /\ g.adds = j.adds /\ g.old = j.old /\ g.stage = "delete"
              /\ g.i = j.i + 1
            BY <1>2, <2>1 DEF Job
        <2>3. Goto(c, "delete", g)
            BY <1>1, <1>6, <2>1 DEF DeleteNext, MoreToDelete
        <2>4. \A k \in DOMAIN j.old : k < j.i + 1 => k < j.i \/ k = j.i
            BY <1>4, ListDomain
        <2>5. ~done' => RemovedUpTo(g, g.i)'
            BY <1>3, <1>6, <2>2, <2>4 DEF RemovedUpTo, Removal
        <2>6. Delivered("delete", g)'
            BY <1>3, <2>2, <2>5 DEF Delivered, DeleteCalls
        <2> QED
            BY <1>2, <2>3, <2>6, OwnDelivery
    <1>7. CASE j.i \in DOMAIN j.old /\ Removal(j, j.i) /\ DeleteBuilds(j.old[j.i])
        <2>1. Goto(c, "commit", j)
            BY <1>1, <1>7 DEF DeleteNext, MoreToDelete, Deleting
        <2>2. Delivered("commit", j)'
            BY <1>3 DEF Delivered, DeleteCalls
        <2> QED
            BY <1>2, <2>1, <2>2, OwnDelivery
    <1>8. CASE j.i \in DOMAIN j.old /\ Removal(j, j.i) /\ ~DeleteBuilds(j.old[j.i])
        <2>1. PICK g : g = [j EXCEPT !.outcome = "build"]
            OBVIOUS
        <2>2. Goto(c, "return", g) /\ g.outcome = "build"
            BY <1>1, <1>8, <2>1 DEF DeleteNext, MoreToDelete, Deleting, Job
        <2>3. Delivered("return", g)'
            BY <2>2 DEF Delivered, DeleteCalls
        <2> QED
            BY <1>2, <2>2, <2>3, OwnDelivery
    <1> QED
        BY <1>5, <1>6, <1>7, <1>8

LEMMA DeleteFrontendDelivery ==
    ASSUME WorkInv, NEW c \in Controllers, DeleteFrontend(c)
    PROVE  Delivering'
    <1>1. PICK j \in Job : j = job[c]
        BY DEF WorkInv, IndInv, TypeOK
    <1>2. /\ pc[c] = "deleteFrontend" /\ j.stage = "delete"
          /\ Published(j.adds)
          /\ ~done => RemovedUpTo(j, j.i)
          /\ UNCHANGED <<done, backends>>
        BY <1>1 DEF WorkInv, Delivering, Delivered, DeleteFrontend, DeleteCalls
    <1>3. j.i \in DOMAIN j.old /\ Removal(j, j.i)
        BY <1>1, <1>2 DEF WorkInv, IndInv, AttemptsInOrder, Knows
    <1>4. PICK id \in Ids : id = j.old[j.i].id /\ id \notin IDs(j.adds)
        BY <1>3, JobFacts, ListFacts DEF Removal
    <1>5. id = Deleting(c).id
        BY <1>1, <1>4 DEF Deleting
    <1>6. UNCHANGED frontends \/ frontends' = [frontends EXCEPT ![id] = None]
        BY <1>5 DEF DeleteFrontend, WorkInv, IndInv, TypeOK
    <1>7. Published(j.adds)' /\ (~done => RemovedUpTo(j, j.i)')
        BY <1>2, <1>4, <1>6, DeletionFrame
    <1>8. CASE FailedAttempt(c, "notfound") \/ FailedAttempt(c, "fault")
        BY <1>1, <1>2, <1>7, <1>8, FailedDelivery DEF Calls
    <1>9. CASE Goto(c, "deleteBackend", job[c])
        <2>1. Delivered("deleteBackend", j)'
            BY <1>2, <1>7 DEF Delivered, DeleteCalls
        <2> QED
            BY <1>1, <1>2, <1>9, <2>1, OwnDelivery
    <1> QED
        BY <1>8, <1>9 DEF DeleteFrontend

LEMMA DeleteBackendDelivery ==
    ASSUME WorkInv, NEW c \in Controllers, DeleteBackend(c)
    PROVE  Delivering'
    <1>1. PICK j \in Job : j = job[c]
        BY DEF WorkInv, IndInv, TypeOK
    <1>2. /\ pc[c] = "deleteBackend" /\ j.stage = "delete"
          /\ Published(j.adds)
          /\ ~done => RemovedUpTo(j, j.i)
          /\ UNCHANGED <<done, frontends>>
        BY <1>1 DEF WorkInv, Delivering, Delivered, DeleteBackend, DeleteCalls
    <1>3. /\ j.i \in DOMAIN j.old /\ Removal(j, j.i)
          /\ frontends[j.old[j.i].id] = None
        BY <1>1, <1>2 DEF WorkInv, IndInv, AttemptsInOrder, Knows
    <1>4. PICK id \in Ids : id = j.old[j.i].id /\ id \notin IDs(j.adds)
        BY <1>3, JobFacts, ListFacts DEF Removal
    <1>5. id = Deleting(c).id
        BY <1>1, <1>4 DEF Deleting
    <1>6. UNCHANGED backends \/ backends' = [backends EXCEPT ![id] = None]
        BY <1>5 DEF DeleteBackend, WorkInv, IndInv, TypeOK
    <1>7. Published(j.adds)' /\ (~done => RemovedUpTo(j, j.i)')
        BY <1>2, <1>4, <1>6, DeletionFrame
    <1>8. CASE FailedAttempt(c, "notfound") \/ FailedAttempt(c, "fault")
        BY <1>1, <1>2, <1>7, <1>8, FailedDelivery DEF Calls
    <1>9. CASE backends' = [backends EXCEPT ![id] = None] /\ CommitOK(c)
        <2>1. PICK g : g = AfterCommit(j)
            OBVIOUS
        <2>2. /\ g.adds = j.adds /\ g.old = j.old /\ g.stage = "delete"
              /\ g.i = j.i + 1 /\ Goto(c, "delete", g)
            BY <1>1, <1>2, <1>9, <2>1, AfterCommitFields DEF CommitOK
        <2>3. frontends'[id] = None /\ backends'[id] = None
            BY <1>2, <1>3, <1>4, <1>9 DEF WorkInv, IndInv, TypeOK
        <2>4. \A k \in DOMAIN j.old : k < j.i + 1 => k < j.i \/ k = j.i
            BY JobFacts, ListDomain
        <2>5. ~done => RemovedUpTo(g, g.i)'
            BY <1>4, <1>7, <2>2, <2>3, <2>4 DEF RemovedUpTo, Removal
        <2>6. Delivered("delete", g)'
            BY <1>2, <1>7, <2>2, <2>5 DEF Delivered, DeleteCalls
        <2> QED
            BY <1>2, <2>2, <2>6, OwnDelivery
    <1> QED
        BY <1>5, <1>8, <1>9 DEF DeleteBackend

-----------------------------------------------------------------------------
LEMMA QuitDelivery ==
    ASSUME WorkInv, NEW c \in Controllers, Hang(c) \/ Return(c)
    PROVE  Delivering'
    <1>1. CASE Hang(c)
        <2>1. PICK j : j = job[c]
            OBVIOUS
        <2>2. Goto(c, "hung", j) /\ pc[c] # "idle"
            BY <1>1, <2>1 DEF Hang, Goto, Calls, WorkInv, IndInv, TypeOK
        <2>3. Delivered("hung", j)'
            BY DEF Delivered, DeleteCalls
        <2> QED
            BY <2>2, <2>3, OwnDelivery
    <1>2. CASE Return(c)
        <2>1. Goto(c, "idle", NoJob) /\ pc[c] # "idle"
            BY <1>2 DEF Return
        <2>2. Delivered("idle", NoJob)'
            BY DEF Delivered, DeleteCalls
        <2> QED
            BY <2>1, <2>2, OwnDelivery
    <1> QED
        BY <1>1, <1>2

LEMMA NextWorkInv == WorkInv /\ [Next]_vars => WorkInv'
    <1> SUFFICES ASSUME WorkInv, [Next]_vars PROVE Delivering'
        BY NextIndInv DEF WorkInv
    <1>1. CASE UNCHANGED vars
        BY <1>1 DEF WorkInv, Delivering, Delivered, BackendsSent, FrontendsSent,
                    Published, RemovedUpTo, AllRemoved, vars
    <1>2. CASE Cancel
        BY <1>2 DEF WorkInv, Delivering, Delivered, BackendsSent, FrontendsSent,
                    Published, Cancel
    <1>3. CASE Restart
        BY <1>3 DEF Restart, Delivering, Delivered, DeleteCalls
    <1>4. ASSUME NEW c \in Controllers, Event(c) \/ Step(c) \/ Hang(c)
          PROVE  Delivering'
        BY <1>4, EventDelivery, QuitDelivery, CommitDoneDelivery,
           CommitStopDelivery, CommitTryDelivery, UpsertBackendDelivery,
           BackendsUpsertedDelivery, UpsertFrontendDelivery,
           FrontendsUpsertedDelivery, DeleteNextDelivery,
           DeleteFrontendDelivery, DeleteBackendDelivery
           DEF Step
    <1> QED
        BY <1>1, <1>2, <1>3, <1>4 DEF Next

LEMMA WorkInvariance == Spec => []WorkInv
    <1>1. Init => WorkInv
        BY InitIndInv, InitDelivering DEF WorkInv
    <1> QED
        BY <1>1, NextWorkInv, PTL DEF Spec

-----------------------------------------------------------------------------
(* updateResources is make-before-break, for every instance: whatever      *)
(* fails, is retried, is cancelled or crashes, a call that removes         *)
(* something is made only while all that the new object asks for is in the *)
(* provider's table.                                                       *)
THEOREM MakesBeforeItBreaks == Spec => []MakeBeforeBreak
    <1>1. WorkInv => MakeBeforeBreak
        BY DEF WorkInv, Delivering, Delivered, DeleteCalls, MakeBeforeBreak
    <1> QED
        BY <1>1, WorkInvariance, PTL

(* A handler of engine.go that returns no error, with no cancel, has done  *)
(* its work: what it was to add is there and what it was to remove is gone, *)
(* though its Commits may have been repeated any number of times.          *)
THEOREM HandlersSettle == Spec => []Settled
    <1>1. WorkInv => Settled
        BY DEF WorkInv, Delivering, Delivered, AllRemoved, Settled
    <1> QED
        BY <1>1, WorkInvariance, PTL

-----------------------------------------------------------------------------
(***************************************************************************)
(* A provider that obliges: calls succeed unless they ask for the removal  *)
(* of what is not there.  A is the set of the IDs that may stay, B and F   *)
(* are the backends and the frontends, p is where the handler is and j its *)
(* local state.                                                            *)
(***************************************************************************)
(* The handler will still come to remove the entry.                        *)
Leaving(p, j, id) ==
    /\ p # "return"
    /\ \E k \in DOMAIN j.old : j.old[k].id = id /\ (j.stage = "add" \/ k >= j.i)

(* The handler is between the two calls for the entry.                     *)
Halfway(p, j, id) ==
    \/ p \in {"upsertBackend", "upsertFrontend"} /\ id \in IDs(j.adds)
    \/ p = "deleteBackend" /\ id = j.old[j.i].id

(* What it adds may stay.  If something of what it removes may not, then   *)
(* it removes one entry only: a Commit that gives up drops the others.     *)
Removes(j, A) ==
    /\ IDs(j.adds) \subseteq A
    /\ \A k \in DOMAIN j.old : j.old[k].builds = "all"
    /\ IDs(j.old) \subseteq A \/ \A k, m \in DOMAIN j.old : k = m

(* Only a removal is tried again, and only when there is nothing left.     *)
Retries(p, j, B, F) ==
    /\ j.stage = "add" \/ p = "delete" => j.tries = 0
    /\ p \in {"delete", "deleteFrontend", "deleteBackend"} => j.stage = "delete"
    /\ p \in {"commit", "deleteFrontend"} /\ j.stage = "delete" /\ j.tries > 0 =>
          F[j.old[j.i].id] = None /\ B[j.old[j.i].id] = None

Sent(p, j, F) ==
    p = "upsertFrontend" => \A k \in DOMAIN j.adds : k < j.i => F[j.adds[k].id] # None

Accounted(p, j, A, B, F) ==
    \A id \in Ids : B[id] # None =>
        /\ id \in A \/ Leaving(p, j, id)
        /\ F[id] # None \/ Halfway(p, j, id)

Steady(p, j, A, B, F) ==
    /\ p \in {"commit", "delete", "return"} \cup Calls
    /\ Removes(j, A) /\ Retries(p, j, B, F) /\ Sent(p, j, F)
    /\ Accounted(p, j, A, B, F)

Orderly(A) ==
    /\ ~done
    /\ IF lock = None
       THEN \A id \in Ids : backends[id] # None => id \in A /\ frontends[id] # None
       ELSE Steady(pc[lock], job[lock], A, backends, frontends)

LEMMA SteadyGrows ==
    ASSUME NEW p, NEW j, NEW A, NEW B, NEW F, Steady(p, j, A, B, F), NEW C, A \subseteq C
    PROVE  Steady(p, j, C, B, F)
    BY DEF Steady, Removes, Accounted

LEMMA OrderlyGrows ==
    ASSUME NEW A, Orderly(A), NEW C, A \subseteq C
    PROVE  Orderly(C)
    BY SteadyGrows DEF Orderly

(* A running handler is the one that holds the mutex.                      *)
LEMMA OwnSteady ==
    ASSUME IndInv, NEW A, Orderly(A), NEW c \in Controllers, pc[c] # "idle"
    PROVE  /\ lock = c /\ ~done
           /\ Steady(pc[c], job[c], A, backends, frontends)
    <1>1. lock = c
        BY DEF IndInv, AttemptsInOrder, Knows
    <1>2. c # None
        BY NoneAssumption
    <1> QED
        BY <1>1, <1>2 DEF Orderly

LEMMA OwnOrderly ==
    ASSUME IndInv, NEW A, Orderly(A), NEW c \in Controllers, pc[c] # "idle",
           NEW p, NEW j, Goto(c, p, j), UNCHANGED <<lock, done>>,
           Steady(p, j, A, backends', frontends')
    PROVE  Orderly(A)'
    <1>1. lock' = c /\ c # None /\ ~done'
        BY OwnSteady, NoneAssumption
    <1>2. pc'[c] = p /\ job'[c] = j
        BY DEF Goto, IndInv, TypeOK
    <1> QED
        BY <1>1, <1>2 DEF Orderly

LEMMA CommitStopOrderly ==
    ASSUME IndInv, NEW A, Orderly(A), NEW c \in Controllers, CommitStop(c),
           MaxAttempts # 0, job'[c].outcome = "timeout" => job[c].tries = MaxAttempts
    PROVE  Orderly(A)'
    <1>1. PICK j \in Job : j = job[c]
        BY DEF IndInv, TypeOK
    <1>2. PICK g : g = [j EXCEPT !.outcome = "timeout"]
        OBVIOUS
    <1>3. /\ g.adds = j.adds /\ g.old = j.old /\ g.stage = j.stage /\ g.i = j.i
          /\ g.tries = j.tries /\ g.outcome = "timeout"
        BY <1>2 DEF Job
    <1>4. /\ pc[c] = "commit" /\ Goto(c, "return", g)
          /\ UNCHANGED <<lock, done, backends, frontends>>
        BY <1>1, <1>2 DEF CommitStop
    <1>5. job'[c] = g
        BY <1>4 DEF Goto, IndInv, TypeOK
    <1>6. j.tries = MaxAttempts /\ j.tries \in Nat /\ j.tries > 0
        BY <1>1, <1>3, <1>5, JobFacts, AttemptsAssumption
    <1>7. Steady("commit", j, A, backends, frontends)
        BY <1>1, <1>4, OwnSteady
    <1>8. j.stage = "delete"
        BY <1>6, <1>7, JobFacts DEF Steady, Retries
    <1>9. backends[j.old[j.i].id] = None /\ j.i \in DOMAIN j.old
        BY <1>1, <1>4, <1>6, <1>7, <1>8
           DEF Steady, Retries, IndInv, AttemptsInOrder, Knows
    <1>10. ASSUME NEW id \in Ids, backends[id] # None
           PROVE  id \in A /\ frontends[id] # None
        <2>1. id \in A \/ Leaving("commit", j, id)
            BY <1>7, <1>10 DEF Steady, Accounted
        <2>2. frontends[id] # None
            BY <1>7, <1>10 DEF Steady, Accounted, Halfway
        <2>3. ASSUME NEW k \in DOMAIN j.old, j.old[k].id = id PROVE id \in A
            <3>1. CASE IDs(j.old) \subseteq A
                BY <2>3, <3>1 DEF IDs
            <3>2. CASE \A m, n \in DOMAIN j.old : m = n
                BY <1>9, <1>10, <2>3, <3>2
            <3> QED
                BY <1>7, <3>1, <3>2 DEF Steady, Removes
        <2> QED
            BY <2>1, <2>2, <2>3 DEF Leaving
    <1>11. Steady("return", g, A, backends, frontends)
        <2>1. Removes(g, A)
            BY <1>3, <1>7 DEF Steady, Removes
        <2>2. Retries("return", g, backends, frontends) /\ Sent("return", g, frontends)
            BY <1>3, <1>8 DEF Retries, Sent
        <2> QED
            BY <1>10, <2>1, <2>2 DEF Steady, Accounted
    <1> QED
        BY <1>4, <1>11, OwnOrderly

LEMMA CommitTryOrderly ==
    ASSUME IndInv, NEW A, Orderly(A), NEW c \in Controllers, CommitTry(c)
    PROVE  Orderly(A)'
    <1>1. PICK j \in Job : j = job[c]
        BY DEF IndInv, TypeOK
    <1>2. /\ pc[c] = "commit" /\ UNCHANGED <<lock, done, backends, frontends>>
        BY DEF CommitTry
    <1>3. Steady("commit", j, A, backends, frontends)
        BY <1>1, <1>2, OwnSteady
    <1>4. CASE j.stage = "add"
        <2>1. PICK g : g = [j EXCEPT !.i = 1]
            OBVIOUS
        <2>2. /\ g.adds = j.adds /\ g.old = j.old /\ g.stage = j.stage /\ g.tries = j.tries
            BY <2>1 DEF Job
        <2>3. Goto(c, "upsertBackend", g)
            BY <1>1, <1>4, <2>1 DEF CommitTry
        <2>4. Removes(g, A) /\ Retries("upsertBackend", g, backends, frontends)
                  /\ Sent("upsertBackend", g, frontends)
            BY <1>3, <1>4, <2>2 DEF Steady, Removes, Retries, Sent
        <2>5. Accounted("upsertBackend", g, A, backends, frontends)
            BY <1>3, <1>4, <2>2 DEF Steady, Accounted, Leaving, Halfway
        <2>6. Steady("upsertBackend", g, A, backends, frontends)
            BY <2>4, <2>5 DEF Steady, Calls
        <2> QED
            BY <1>2, <2>3, <2>6, OwnOrderly
    <1>5. CASE j.stage # "add"
        <2>1. Goto(c, "deleteFrontend", j) /\ j.stage = "delete"
            BY <1>1, <1>5, JobFacts DEF CommitTry
        <2>2. Retries("deleteFrontend", j, backends, frontends)
                  /\ Sent("deleteFrontend", j, frontends)
            BY <1>3, <2>1 DEF Steady, Retries, Sent
        <2>3. Accounted("deleteFrontend", j, A, backends, frontends)
            BY <1>3, <2>1 DEF Steady, Accounted, Leaving, Halfway
        <2>4. Steady("deleteFrontend", j, A, backends, frontends)
            BY <1>3, <2>2, <2>3 DEF Steady, Calls
        <2> QED
            BY <1>2, <2>1, <2>4, OwnOrderly
    <1> QED
        BY <1>4, <1>5

(* A failed attempt leaves its error in the local state.                   *)
LEMMA NoFault ==
    ASSUME IndInv, NEW c \in Controllers, FailedAttempt(c, "fault")
    PROVE  job'[c].err = "fault"
    BY DEF FailedAttempt, Goto, IndInv, TypeOK, Job

LEMMA UpsertBackendOrderly ==
    ASSUME IndInv, NEW A, Orderly(A), NEW c \in Controllers, UpsertBackend(c),
           job'[c].err # "fault"
    PROVE  Orderly(A)'
    <1>1. PICK j \in Job : j = job[c]
        BY DEF IndInv, TypeOK
    <1>2. PICK id, g : id = j.adds[j.i].id /\ g = [j EXCEPT !.i = @ + 1]
        OBVIOUS
    <1>3. /\ g.adds = j.adds /\ g.old = j.old /\ g.stage = j.stage /\ g.tries = j.tries
        BY <1>2 DEF Job
    <1>4. /\ pc[c] = "upsertBackend" /\ j.i \in DOMAIN j.adds /\ j.stage = "add"
          /\ UNCHANGED <<lock, done, frontends>>
        BY <1>1 DEF UpsertBackend, MoreToAdd, IndInv, AttemptsInOrder, Knows
    <1>5. Steady("upsertBackend", j, A, backends, frontends)
        BY <1>1, <1>4, OwnSteady
    <1>6. id \in IDs(j.adds) /\ id \in A
        BY <1>2, <1>4, <1>5 DEF IDs, Steady, Removes
    <1>7. PICK srvs : backends' = [backends EXCEPT ![id] = srvs]
        BY <1>1, <1>2, NoFault DEF UpsertBackend, Adding
    <1>8. Goto(c, "upsertBackend", g)
        BY <1>1, <1>2, NoFault DEF UpsertBackend
    <1>9. \A x \in Ids : x # id => backends'[x] = backends[x]
        BY <1>7 DEF IndInv, TypeOK
    <1>10. Removes(g, A) /\ Retries("upsertBackend", g, backends', frontends')
                  /\ Sent("upsertBackend", g, frontends')
        BY <1>3, <1>4, <1>5 DEF Steady, Removes, Retries, Sent
    <1>11. Accounted("upsertBackend", g, A, backends', frontends')
        BY <1>3, <1>4, <1>5, <1>6, <1>9 DEF Steady, Accounted, Leaving, Halfway
    <1>12. Steady("upsertBackend", g, A, backends', frontends')
        BY <1>10, <1>11 DEF Steady, Calls
    <1> QED
        BY <1>4, <1>8, <1>12, OwnOrderly

LEMMA BackendsUpsertedOrderly ==
    ASSUME IndInv, NEW A, Orderly(A), NEW c \in Controllers, BackendsUpserted(c)
    PROVE  Orderly(A)'
    <1>1. PICK j \in Job : j = job[c]
        BY DEF IndInv, TypeOK
    <1>2. PICK g : g = [j EXCEPT !.i = 1]
        OBVIOUS
    <1>3. /\ g.adds = j.adds /\ g.old = j.old /\ g.stage = j.stage /\ g.tries = j.tries
          /\ g.i = 1
        BY <1>2 DEF Job
    <1>4. /\ pc[c] = "upsertBackend" /\ Goto(c, "upsertFrontend", g) /\ j.stage = "add"
          /\ UNCHANGED <<lock, done, backends, frontends>>
        BY <1>1, <1>2 DEF BackendsUpserted, IndInv, AttemptsInOrder, Knows
    <1>5. Steady("upsertBackend", j, A, backends, frontends)
        BY <1>1, <1>4, OwnSteady
    <1>6. \A k \in DOMAIN g.adds : ~(k < g.i)
        BY <1>3, JobFacts, ListDomain
    <1>7. Removes(g, A) /\ Retries("upsertFrontend", g, backends, frontends)
                  /\ Sent("upsertFrontend", g, frontends)
        BY <1>3, <1>4, <1>5, <1>6 DEF Steady, Removes, Retries, Sent
    <1>8. Accounted("upsertFrontend", g, A, backends, frontends)
        BY <1>3, <1>4, <1>5 DEF Steady, Accounted, Leaving, Halfway
    <1>9. Steady("upsertFrontend", g, A, backends, frontends)
        BY <1>7, <1>8 DEF Steady, Calls
    <1> QED
        BY <1>4, <1>9, OwnOrderly

LEMMA UpsertFrontendOrderly ==
    ASSUME IndInv, NEW A, Orderly(A), NEW c \in Controllers, UpsertFrontend(c),
           job'[c].err # "fault"
    PROVE  Orderly(A)'
    <1>1. PICK j \in Job : j = job[c]
        BY DEF IndInv, TypeOK
    <1>2. PICK id, g, route : /\ id = j.adds[j.i].id /\ g = [j EXCEPT !.i = @ + 1]
                              /\ route = j.adds[j.i].route
        OBVIOUS
    <1>3. /\ g.adds = j.adds /\ g.old = j.old /\ g.stage = j.stage /\ g.tries = j.tries
          /\ g.i = j.i + 1 /\ j.i \in Nat
        BY <1>2 DEF Job
    <1>4. /\ pc[c] = "upsertFrontend" /\ j.i \in DOMAIN j.adds /\ j.stage = "add"
          /\ UNCHANGED <<lock, done, backends>>
        BY <1>1 DEF UpsertFrontend, MoreToAdd, IndInv, AttemptsInOrder, Knows
    <1>5. Steady("upsertFrontend", j, A, backends, frontends)
        BY <1>1, <1>4, OwnSteady
    <1>6. route # None
        BY <1>2, <1>4, JobFacts, ListFacts, NoneAssumption
    <1>7. frontends' = [frontends EXCEPT ![id] = route] /\ Goto(c, "upsertFrontend", g)
        BY <1>1, <1>2, NoFault DEF UpsertFrontend, Adding
    <1>8. \A x \in Ids : frontends[x] # None \/ x = id => frontends'[x] # None
        BY <1>6, <1>7 DEF IndInv, TypeOK
    <1>9. \A k \in DOMAIN j.adds : j.adds[k].id \in Ids /\ (k < g.i => k < j.i \/ k = j.i)
        BY <1>3, JobFacts, ListFacts
    <1>10. Removes(g, A) /\ Retries("upsertFrontend", g, backends', frontends')
        BY <1>3, <1>4, <1>5 DEF Steady, Removes, Retries
    <1>11. Sent("upsertFrontend", g, frontends')
        BY <1>2, <1>3, <1>5, <1>8, <1>9 DEF Steady, Sent
    <1>12. Accounted("upsertFrontend", g, A, backends', frontends')
        BY <1>3, <1>4, <1>5, <1>8 DEF Steady, Accounted, Leaving, Halfway
    <1>13. Steady("upsertFrontend", g, A, backends', frontends')
        BY <1>10, <1>11, <1>12 DEF Steady, Calls
    <1> QED
        BY <1>4, <1>7, <1>13, OwnOrderly

LEMMA FrontendsUpsertedOrderly ==
    ASSUME IndInv, NEW A, Orderly(A), NEW c \in Controllers, FrontendsUpserted(c)
    PROVE  Orderly(A)'
    <1>1. PICK j \in Job : j = job[c]
        BY DEF IndInv, TypeOK
    <1>2. PICK g : g = AfterCommit(j)
        OBVIOUS
    <1>3. /\ pc[c] = "upsertFrontend" /\ j.i \notin DOMAIN j.adds /\ j.stage = "add"
          /\ Goto(c, "delete", g)
          /\ UNCHANGED <<lock, done, backends, frontends>>
        BY <1>1, <1>2
           DEF FrontendsUpserted, CommitOK, MoreToAdd, IndInv, AttemptsInOrder, Knows
    <1>4. /\ g.adds = j.adds /\ g.old = j.old /\ g.stage = "delete" /\ g.i = 1
          /\ g.tries = 0
        BY <1>2, <1>3 DEF AfterCommit, Job
    <1>5. Steady("upsertFrontend", j, A, backends, frontends)
        BY <1>1, <1>3, OwnSteady
    <1>6. \A k \in DOMAIN j.adds : k < j.i
        BY <1>3, JobFacts, ListDomain
    <1>7. \A k \in DOMAIN j.old : k >= g.i
        BY <1>4, JobFacts, ListDomain
    <1>8. Removes(g, A) /\ Retries("delete", g, backends, frontends)
              /\ Sent("delete", g, frontends)
        BY <1>4, <1>5 DEF Steady, Removes, Retries, Sent
    <1>9. \A id \in IDs(j.adds) : frontends[id] # None
        BY <1>5, <1>6 DEF Steady, Sent, IDs
    <1>10. Accounted("delete", g, A, backends, frontends)
        BY <1>4, <1>5, <1>7, <1>9 DEF Steady, Accounted, Leaving, Halfway
    <1>11. Steady("delete", g, A, backends, frontends)
        BY <1>8, <1>10 DEF Steady
    <1> QED
        BY <1>3, <1>11, OwnOrderly

LEMMA DeleteNextOrderly ==
    ASSUME IndInv, NEW A, Orderly(A), NEW c \in Controllers, DeleteNext(c)
    PROVE  Orderly(A)'
    <1>1. PICK j \in Job : j = job[c]
        BY DEF IndInv, TypeOK
    <1>2. pc[c] = "delete" /\ UNCHANGED <<lock, done, backends, frontends>>
        BY DEF DeleteNext
    <1>3. Steady("delete", j, A, backends, frontends)
        BY <1>1, <1>2, OwnSteady
    <1>4. j.stage = "delete" /\ j.tries = 0 /\ Removes(j, A)
        BY <1>3 DEF Steady, Retries
    <1>5. CASE j.i \notin DOMAIN j.old
        <2>1. Goto(c, "return", j)
            BY <1>1, <1>5 DEF DeleteNext, MoreToDelete
        <2>2. \A k \in DOMAIN j.old : ~(k >= j.i)
            BY <1>5, JobFacts, ListDomain
        <2>3. Accounted("return", j, A, backends, frontends)
            BY <1>3, <1>4, <2>2 DEF Steady, Accounted, Leaving, Halfway
        <2>4. Steady("return", j, A, backends, frontends)
            BY <1>4, <2>3 DEF Steady, Retries, Sent
        <2> QED
            BY <1>2, <2>1, <2>4, OwnOrderly
    <1>6. CASE j.i \in DOMAIN j.old /\ ~Removal(j, j.i)
        <2>1. PICK g : g = [j EXCEPT !.i = @ + 1]
            OBVIOUS
        <2>2. /\ g.adds = j.adds /\ g.old = j.old /\ g.stage = j.stage /\ g.tries = j.tries
              /\ g.i = j.i + 1 /\ j.i \in Nat
            BY <2>1 DEF Job
        <2>3. Goto(c, "delete", g)
            BY <1>1, <1>6, <2>1 DEF DeleteNext, MoreToDelete
        <2>4. \A k \in DOMAIN j.old : k >= j.i => k >= g.i \/ k = j.i
            BY <2>2, JobFacts, ListDomain
        <2>5. j.old[j.i].id \in A
            BY <1>4, <1>6 DEF Removal, Removes
        <2>6. Removes(g, A) /\ Retries("delete", g, backends, frontends)
                  /\ Sent("delete", g, frontends)
            BY <1>4, <2>2 DEF Removes, Retries, Sent
        <2>7. Accounted("delete", g, A, backends, frontends)
            BY <1>3, <1>4, <2>2, <2>4, <2>5 DEF Steady, Accounted, Leaving, Halfway
        <2>8. Steady("delete", g, A, backends, frontends)
            BY <2>6, <2>7 DEF Steady
        <2> QED
            BY <1>2, <2>3, <2>8, OwnOrderly
    <1>7. CASE j.i \in DOMAIN j.old /\ Removal(j, j.i)
        <2>1. DeleteBuilds(j.old[j.i])
            BY <1>4, <1>7 DEF Removes, DeleteBuilds
        <2>2. Goto(c, "commit", j)
            BY <1>1, <1>7, <2>1 DEF DeleteNext, MoreToDelete, Deleting
        <2>3. Accounted("commit", j, A, backends, frontends)
            BY <1>3, <1>4 DEF Steady, Accounted, Leaving, Halfway
        <2>4. Steady("commit", j, A, backends, frontends)
            BY <1>4, <2>3 DEF Steady, Retries, Sent
        <2> QED
            BY <1>2, <2>2, <2>4, OwnOrderly
    <1> QED
        BY <1>5, <1>6, <1>7

(* An attempt to remove what is not there.                                 *)
LEMMA NotFoundOrderly ==
    ASSUME IndInv, NEW A, Orderly(A), NEW c \in Controllers,
           pc[c] \in {"deleteFrontend", "deleteBackend"},
           FailedAttempt(c, "notfound"),
           UNCHANGED <<lock, done, backends, frontends>>,
           frontends[Deleting(c).id] = None, backends[Deleting(c).id] = None
    PROVE  Orderly(A)'
    <1>1. PICK j \in Job : j = job[c]
        BY DEF IndInv, TypeOK
    <1>2. PICK p : p = pc[c]
        OBVIOUS
    <1>3. PICK g : g = [j EXCEPT !.tries = @ + 1, !.err = "notfound"]
        OBVIOUS
    <1>4. g.adds = j.adds /\ g.old = j.old /\ g.stage = j.stage /\ g.i = j.i
        BY <1>3, FailedFields
    <1>5. Goto(c, "commit", g)
        BY <1>1, <1>3 DEF FailedAttempt
    <1>6. Steady(p, j, A, backends, frontends) /\ p \in {"deleteFrontend", "deleteBackend"}
        BY <1>1, <1>2, OwnSteady
    <1>7. j.stage = "delete"
        BY <1>6 DEF Steady, Retries
    <1>8. frontends[j.old[j.i].id] = None /\ backends[j.old[j.i].id] = None
        BY <1>1 DEF Deleting
    <1>9. Removes(g, A) /\ Retries("commit", g, backends, frontends)
              /\ Sent("commit", g, frontends)
        BY <1>4, <1>6, <1>7, <1>8 DEF Steady, Removes, Retries, Sent
    <1>10. Accounted("commit", g, A, backends, frontends)
        BY <1>4, <1>6, <1>7, <1>8 DEF Steady, Accounted, Leaving, Halfway
    <1>11. Steady("commit", g, A, backends, frontends)
        BY <1>9, <1>10 DEF Steady
    <1> QED
        BY <1>5, <1>11, OwnOrderly

LEMMA DeleteFrontendOrderly ==
    ASSUME IndInv, NEW A, Orderly(A), NEW c \in Controllers, DeleteFrontend(c),
           job'[c].err # "fault"
    PROVE  Orderly(A)'
    <1>1. PICK j \in Job : j = job[c]
        BY DEF IndInv, TypeOK
    <1>2. PICK id : id = j.old[j.i].id
        OBVIOUS
    <1>3. /\ pc[c] = "deleteFrontend" /\ UNCHANGED <<lock, done, backends>>
          /\ id = Deleting(c).id
        BY <1>1, <1>2 DEF DeleteFrontend, Deleting
    <1>4. Steady("deleteFrontend", j, A, backends, frontends)
        BY <1>1, <1>3, OwnSteady
    <1>5. id \in Ids
        <2>1. j.i \in DOMAIN j.old
            BY <1>1, <1>3 DEF IndInv, AttemptsInOrder, Knows
        <2> QED
            BY <1>2, <2>1, JobFacts, ListFacts
    <1>6. CASE /\ frontends' = [frontends EXCEPT ![id] = None]
               /\ Goto(c, "deleteBackend", j)
        <2>1. \A x \in Ids : x # id => frontends'[x] = frontends[x]
            BY <1>6 DEF IndInv, TypeOK
        <2>2. Retries("deleteBackend", j, backends', frontends')
                  /\ Sent("deleteBackend", j, frontends')
            BY <1>4 DEF Steady, Retries, Sent
        <2>3. Accounted("deleteBackend", j, A, backends', frontends')
            BY <1>2, <1>3, <1>4, <2>1 DEF Steady, Accounted, Leaving, Halfway
        <2>4. Steady("deleteBackend", j, A, backends', frontends')
            BY <1>4, <2>2, <2>3 DEF Steady, Calls
        <2> QED
            BY <1>3, <1>6, <2>4, OwnOrderly
    <1>7. CASE frontends[id] = None /\ FailedAttempt(c, "notfound") /\ UNCHANGED frontends
        <2>1. backends[id] = None
            BY <1>4, <1>5, <1>7 DEF Steady, Accounted, Halfway
        <2> QED
            BY <1>3, <1>7, <2>1, NotFoundOrderly
    <1> QED
        BY <1>1, <1>3, <1>6, <1>7, NoFault DEF DeleteFrontend

LEMMA DeleteBackendOrderly ==
    ASSUME IndInv, NEW A, Orderly(A), NEW c \in Controllers, DeleteBackend(c),
           job'[c].err # "fault"
    PROVE  Orderly(A)'
    <1>1. PICK j \in Job : j = job[c]
        BY DEF IndInv, TypeOK
    <1>2. PICK id : id = j.old[j.i].id
        OBVIOUS
    <1>3. /\ pc[c] = "deleteBackend" /\ UNCHANGED <<lock, done, frontends>>
          /\ id = Deleting(c).id
        BY <1>1, <1>2 DEF DeleteBackend, Deleting
    <1>4. Steady("deleteBackend", j, A, backends, frontends)
        BY <1>1, <1>3, OwnSteady
    <1>5. id \in Ids /\ frontends[id] = None
        <2>1. j.i \in DOMAIN j.old /\ frontends[j.old[j.i].id] = None
            BY <1>1, <1>3 DEF IndInv, AttemptsInOrder, Knows
        <2> QED
            BY <1>2, <2>1, JobFacts, ListFacts
    <1>6. CASE backends' = [backends EXCEPT ![id] = None] /\ CommitOK(c)
        <2>1. PICK g : g = AfterCommit(j)
            OBVIOUS
        <2>2. j.stage = "delete"
            BY <1>4 DEF Steady, Retries
        <2>3. /\ g.adds = j.adds /\ g.old = j.old /\ g.stage = "delete" /\ g.i = j.i + 1
              /\ g.tries = 0 /\ j.i \in Nat
            BY <2>1, <2>2 DEF AfterCommit, Job
        <2>4. Goto(c, "delete", g)
            BY <1>1, <1>6, <2>1 DEF CommitOK
        <2>5. backends'[id] = None /\ \A x \in Ids : x # id => backends'[x] = backends[x]
            BY <1>5, <1>6 DEF IndInv, TypeOK
        <2>6. \A k \in DOMAIN j.old : k >= j.i => k >= g.i \/ k = j.i
            BY <2>3, JobFacts, ListDomain
        <2>7. Removes(g, A) /\ Retries("delete", g, backends', frontends')
                  /\ Sent("delete", g, frontends')
            BY <1>4, <2>3 DEF Steady, Removes, Retries, Sent
        <2>8. Accounted("delete", g, A, backends', frontends')
            BY <1>2, <1>3, <1>4, <2>2, <2>3, <2>5, <2>6
               DEF Steady, Accounted, Leaving, Halfway
        <2>9. Steady("delete", g, A, backends', frontends')
            BY <2>7, <2>8 DEF Steady
        <2> QED
            BY <1>3, <2>4, <2>9, OwnOrderly
    <1>7. CASE backends[id] = None /\ FailedAttempt(c, "notfound") /\ UNCHANGED backends
        BY <1>3, <1>5, <1>7, NotFoundOrderly
    <1> QED
        BY <1>1, <1>3, <1>6, <1>7, NoFault DEF DeleteBackend

LEMMA ReturnOrderly ==
    ASSUME IndInv, NEW A, Orderly(A), NEW c \in Controllers, Return(c)
    PROVE  Orderly(A)'
    <1>1. pc[c] = "return" /\ lock' = None /\ UNCHANGED <<done, backends, frontends>>
        BY DEF Return
    <1>2. Steady("return", job[c], A, backends, frontends) /\ ~done
        BY <1>1, OwnSteady
    <1>3. \A id \in Ids : backends[id] # None => id \in A /\ frontends[id] # None
        BY <1>2 DEF Steady, Accounted, Leaving, Halfway
    <1> QED
        BY <1>1, <1>2, <1>3 DEF Orderly

(* A step of a handler, with a provider that obliges, within lb-timeout.   *)
LEMMA StepOrderly ==
    ASSUME IndInv, NEW A, Orderly(A), NEW c \in Controllers, Step(c),
           MaxAttempts # 0, job'[c].err # "fault",
           job'[c].outcome = "timeout" => job[c].tries = MaxAttempts
    PROVE  Orderly(A)'
    <1>1. ~CommitDone(c)
        BY OwnSteady DEF CommitDone
    <1> QED
        BY <1>1, CommitStopOrderly, CommitTryOrderly, UpsertBackendOrderly,
           BackendsUpsertedOrderly, UpsertFrontendOrderly, FrontendsUpsertedOrderly,
           DeleteNextOrderly, DeleteFrontendOrderly, DeleteBackendOrderly, ReturnOrderly
        DEF Step

(* A handler starts, and with it what may stay changes to C: it removes    *)
(* the one entry that may no longer stay, or nothing of the kind.          *)
LEMMA BeginOrderly ==
    ASSUME IndInv, NEW A, Orderly(A), NEW c \in Controllers,
           NEW op, NEW stage \in {"add", "delete"}, NEW adds, NEW old \in Seq(Resource),
           NEW j, j = NewJob(op, stage, adds, old),
           NEW p, p = IF stage = "add" THEN "commit" ELSE "delete",
           Begin(c, j, p), NEW C, Removes(j, C), A \subseteq C \cup IDs(old)
    PROVE  Orderly(C)'
    <1>1. /\ j.adds = adds /\ j.old = old /\ j.stage = stage /\ j.i = 1 /\ j.tries = 0
        BY DEF NewJob
    <1>2. /\ lock = None /\ lock' = c /\ pc'[c] = p /\ job'[c] = j
          /\ UNCHANGED <<done, backends, frontends>>
        BY DEF Begin, IndInv, TypeOK
    <1>3. ~done /\ \A id \in Ids : backends[id] # None => id \in A /\ frontends[id] # None
        BY <1>2 DEF Orderly
    <1>4. \A k \in DOMAIN j.old : k >= j.i
        BY <1>1, ListDomain
    <1>5. \A id \in IDs(old) : Leaving(p, j, id)
        BY <1>1, <1>4 DEF Leaving, IDs
    <1>6. Accounted(p, j, C, backends, frontends)
        BY <1>3, <1>5 DEF Accounted
    <1>7. Retries(p, j, backends, frontends) /\ Sent(p, j, frontends)
        BY <1>1 DEF Retries, Sent
    <1>8. Steady(p, j, C, backends, frontends)
        BY <1>6, <1>7 DEF Steady
    <1>9. c # None
        BY NoneAssumption
    <1> QED
        BY <1>2, <1>3, <1>8, <1>9 DEF Orderly


(* A handler keeps to the event and the list it was called with.           *)
KeepsTo(c, j) == j.op = job[c].op /\ j.adds = job[c].adds

LEMMA SameWork ==
    ASSUME IndInv, NEW c \in Controllers, Step(c)
    PROVE  /\ \A d \in Controllers \ {c} : pc'[d] = pc[d] /\ job'[d] = job[d]
           /\ pc[c] # "idle"
           /\ pc'[c] # "idle" => job'[c].op = job[c].op /\ job'[c].adds = job[c].adds
    <1>1. job[c] \in Job /\ pc[c] # "idle"
        BY DEF Step, CommitDone, CommitStop, CommitTry, UpsertBackend, BackendsUpserted,
               UpsertFrontend, FrontendsUpserted, DeleteNext, DeleteFrontend, DeleteBackend,
               Return, IndInv, TypeOK
    <1>2. AfterCommit(job[c]).op = job[c].op /\ AfterCommit(job[c]).adds = job[c].adds
        BY <1>1 DEF AfterCommit, Job
    <1>3. PICK p, j : Goto(c, p, j) /\ (p # "idle" => KeepsTo(c, j))
        <2>1. KeepsTo(c, job[c]) /\ \A i : KeepsTo(c, [job[c] EXCEPT !.i = i])
            BY <1>1 DEF KeepsTo, Job
        <2>2. CommitOK(c) => \E p, j : Goto(c, p, j) /\ KeepsTo(c, j)
            BY <1>2 DEF CommitOK, KeepsTo
        <2>3. ASSUME NEW error, FailedAttempt(c, error)
              PROVE  \E p, j : Goto(c, p, j) /\ KeepsTo(c, j)
            <3>1. PICK g : g = [job[c] EXCEPT !.tries = @ + 1, !.err = error]
                OBVIOUS
            <3>2. KeepsTo(c, g)
                BY <1>1, <3>1 DEF KeepsTo, Job
            <3> QED
                BY <2>3, <3>1, <3>2 DEF FailedAttempt
        <2>4. CASE CommitDone(c) \/ FrontendsUpserted(c)
            BY <2>2, <2>4 DEF CommitDone, FrontendsUpserted
        <2>5. CASE CommitStop(c)
            BY <1>1, <2>5 DEF CommitStop, KeepsTo, Job
        <2>6. CASE CommitTry(c) \/ BackendsUpserted(c)
            BY <2>1, <2>6 DEF CommitTry, BackendsUpserted
        <2>7. CASE UpsertBackend(c)
            BY <2>1, <2>3, <2>7 DEF UpsertBackend
        <2>8. CASE UpsertFrontend(c)
            BY <2>1, <2>3, <2>8 DEF UpsertFrontend
        <2>9. CASE DeleteNext(c)
            BY <1>1, <2>9 DEF DeleteNext, KeepsTo, Job
        <2>10. CASE DeleteFrontend(c)
            BY <2>1, <2>3, <2>10 DEF DeleteFrontend
        <2>11. CASE DeleteBackend(c)
            BY <2>2, <2>3, <2>11 DEF DeleteBackend
        <2>12. CASE Return(c)
            BY <2>12 DEF Return
        <2> QED
            BY <2>4, <2>5, <2>6, <2>7, <2>8, <2>9, <2>10, <2>11, <2>12 DEF Step
    <1>4. /\ pc'[c] = p /\ job'[c] = j
          /\ \A d \in Controllers \ {c} : pc'[d] = pc[d] /\ job'[d] = job[d]
        BY <1>3 DEF Goto, IndInv, TypeOK
    <1> QED
        BY <1>1, <1>3, <1>4 DEF KeepsTo

-----------------------------------------------------------------------------
(***************************************************************************)
(* What a handler has still to remove, whatever fails: an ID leaves the    *)
(* set only when its entry is gone, unless the handler returns.            *)
(***************************************************************************)
StillThere(j) ==
    {m \in DOMAIN j.old : Removal(j, m) /\ (j.stage = "delete" => m >= j.i)}

ToRemove(j) == {j.old[k].id : k \in StillThere(j)}

Used(id) == frontends[id] # None \/ backends[id] # None

(* What a step that does not end the handler of c leads to: the local      *)
(* state j, with the same lists.  It forgets at most entries that it       *)
(* removes.                                                                *)
Progress(c, j) ==
    /\ j.adds = job[c].adds /\ j.old = job[c].old
    /\ \A k \in StillThere(job[c]) :
          k \in StillThere(j) \/ (frontends'[job[c].old[k].id] = None
                                   /\ backends'[job[c].old[k].id] = None)

Adds(c) ==
    \A id \in Ids : Used(id)' => Used(id) \/ id \in IDs(job[c].adds)

LEMMA SameTask ==
    ASSUME NEW c, NEW j, j.adds = job[c].adds, j.old = job[c].old,
           j.stage = "add" \/ (j.stage = job[c].stage /\ j.i = job[c].i)
    PROVE  Progress(c, j)
    BY DEF Progress, StillThere, Removal

LEMMA CommittedTask ==
    ASSUME NEW c, job[c] \in Job, NEW j, j = AfterCommit(job[c]),
           \/ job[c].stage = "add"
           \/ /\ job[c].i \in DOMAIN job[c].old
              /\ frontends'[job[c].old[job[c].i].id] = None
              /\ backends'[job[c].old[job[c].i].id] = None
    PROVE  Progress(c, j)
    <1>1. /\ j.adds = job[c].adds /\ j.old = job[c].old /\ j.stage = "delete"
          /\ j.i = IF job[c].stage = "add" THEN 1 ELSE job[c].i + 1
        BY AfterCommitFields
    <1>2. /\ \A m \in DOMAIN job[c].old : m \in Nat /\ m >= 1
          /\ job[c].i \in Nat /\ job[c].stage \in {"add", "delete"}
        BY JobFacts, ListDomain
    <1>3. ASSUME NEW k \in StillThere(job[c]), k \notin StillThere(j)
          PROVE  /\ frontends'[job[c].old[k].id] = None
                 /\ backends'[job[c].old[k].id] = None
        <2>1. k \in DOMAIN job[c].old /\ ~(k >= j.i)
            BY <1>1, <1>3 DEF StillThere, Removal
        <2>2. job[c].stage = "delete" => k >= job[c].i
            BY <1>3 DEF StillThere
        <2>3. job[c].stage = "delete" /\ k = job[c].i
            BY <1>1, <1>2, <2>1, <2>2
        <2> QED
            BY <2>3
    <1> QED
        BY <1>1, <1>3 DEF Progress

LEMMA StepRemoves ==
    ASSUME IndInv, ~done, NEW c \in Controllers, Step(c), pc[c] # "return"
    PROVE  /\ Progress(c, job'[c]) /\ Adds(c)
           /\ pc'[c] # "idle"
    <1>1. job[c] \in Job /\ Knows(c)
        BY DEF IndInv, TypeOK, AttemptsInOrder
    <1>2. ASSUME NEW p, NEW j, Goto(c, p, j) PROVE pc'[c] = p /\ job'[c] = j
        BY <1>2 DEF Goto, IndInv, TypeOK
    <1>3. ASSUME NEW error, FailedAttempt(c, error)
          PROVE  Progress(c, job'[c]) /\ pc'[c] # "idle"
        <2>1. PICK g : g = [job[c] EXCEPT !.tries = @ + 1, !.err = error]
            OBVIOUS
        <2>2. g.adds = job[c].adds /\ g.old = job[c].old
                  /\ g.stage = job[c].stage /\ g.i = job[c].i
            BY <1>1, <2>1, FailedFields
        <2>3. job'[c] = g /\ pc'[c] = "commit"
            BY <1>2, <1>3, <2>1 DEF FailedAttempt
        <2> QED
            BY <2>2, <2>3, SameTask
    <1>4. ASSUME NEW p, p # "idle", NEW i, Goto(c, p, [job[c] EXCEPT !.i = i]),
                 job[c].stage = "add"
          PROVE  Progress(c, job'[c]) /\ pc'[c] # "idle"
        <2>1. PICK g : g = [job[c] EXCEPT !.i = i]
            OBVIOUS
        <2>2. g.adds = job[c].adds /\ g.old = job[c].old /\ g.stage = "add"
            BY <1>1, <1>4, <2>1 DEF Job
        <2>3. job'[c] = g /\ pc'[c] # "idle"
            BY <1>2, <1>4, <2>1
        <2> QED
            BY <2>2, <2>3, SameTask
    <1>5. ASSUME UNCHANGED <<backends, frontends>> PROVE Adds(c)
        BY <1>5 DEF Adds, Used
    <1>6. ASSUME NEW p, p # "idle", Goto(c, p, job[c])
          PROVE  Progress(c, job'[c]) /\ pc'[c] # "idle"
        BY <1>2, <1>6, SameTask
    <1>7. ASSUME NEW o, Goto(c, "return", [job[c] EXCEPT !.outcome = o])
          PROVE  Progress(c, job'[c]) /\ pc'[c] # "idle"
        <2>1. PICK g : g = [job[c] EXCEPT !.outcome = o]
            OBVIOUS
        <2>2. g.adds = job[c].adds /\ g.old = job[c].old
                  /\ g.stage = job[c].stage /\ g.i = job[c].i
            BY <1>1, <2>1 DEF Job
        <2>3. job'[c] = g /\ pc'[c] = "return"
            BY <1>2, <1>7, <2>1
        <2> QED
            BY <2>2, <2>3, SameTask
    <1>8. CASE CommitDone(c)
        BY <1>8 DEF CommitDone
    <1>9. CASE CommitStop(c)
        BY <1>5, <1>7, <1>9 DEF CommitStop
    <1>10. CASE CommitTry(c)
        BY <1>4, <1>5, <1>6, <1>10 DEF CommitTry
    <1>11. CASE UpsertBackend(c)
        <2>1. Adding(c).id \in IDs(job[c].adds) /\ job[c].stage = "add"
            BY <1>1, <1>11 DEF UpsertBackend, MoreToAdd, Adding, IDs, Knows
        <2>2. Adds(c)
            <3>1. frontends' = frontends /\ \E v : backends' = [backends EXCEPT ![Adding(c).id] = v]
                BY <1>11 DEF UpsertBackend
            <3>2. \A id \in Ids : id # Adding(c).id => backends'[id] = backends[id]
                BY <3>1 DEF IndInv, TypeOK
            <3> QED
                BY <2>1, <3>1, <3>2 DEF Adds, Used
        <2>3. Progress(c, job'[c]) /\ pc'[c] # "idle"
            <3>1. CASE \E error : FailedAttempt(c, error)
                BY <1>3, <3>1
            <3>2. CASE Goto(c, "upsertBackend", [job[c] EXCEPT !.i = job[c].i + 1])
                BY <1>4, <2>1, <3>2
            <3> QED
                BY <1>11, <3>1, <3>2 DEF UpsertBackend
        <2> QED
            BY <2>2, <2>3
    <1>12. CASE BackendsUpserted(c)
        <2>1. job[c].stage = "add"
            BY <1>1, <1>12 DEF BackendsUpserted, Knows
        <2> QED
            BY <1>4, <1>5, <1>12, <2>1 DEF BackendsUpserted
    <1>13. CASE UpsertFrontend(c)
        <2>1. Adding(c).id \in IDs(job[c].adds) /\ job[c].stage = "add"
            BY <1>1, <1>13 DEF UpsertFrontend, MoreToAdd, Adding, IDs, Knows
        <2>2. Adds(c)
            <3>1. backends' = backends /\ \E v : frontends' = [frontends EXCEPT ![Adding(c).id] = v]
                BY <1>13 DEF UpsertFrontend
            <3>2. \A id \in Ids : id # Adding(c).id => frontends'[id] = frontends[id]
                BY <3>1 DEF IndInv, TypeOK
            <3> QED
                BY <2>1, <3>1, <3>2 DEF Adds, Used
        <2>3. Progress(c, job'[c]) /\ pc'[c] # "idle"
            <3>1. CASE \E error : FailedAttempt(c, error)
                BY <1>3, <3>1
            <3>2. CASE Goto(c, "upsertFrontend", [job[c] EXCEPT !.i = job[c].i + 1])
                BY <1>4, <2>1, <3>2
            <3> QED
                BY <1>13, <3>1, <3>2 DEF UpsertFrontend
        <2> QED
            BY <2>2, <2>3
    <1>14. CASE FrontendsUpserted(c)
        <2>1. job[c].stage = "add" /\ CommitOK(c)
            BY <1>1, <1>14 DEF FrontendsUpserted, Knows
        <2>2. job'[c] = AfterCommit(job[c]) /\ pc'[c] = "delete"
            BY <1>2, <2>1 DEF CommitOK
        <2>3. Progress(c, job'[c])
            BY <1>1, <2>1, <2>2, CommittedTask
        <2> QED
            BY <1>5, <1>14, <2>2, <2>3 DEF FrontendsUpserted
    <1>15. CASE DeleteNext(c)
        <2>1. CASE Goto(c, "delete", [job[c] EXCEPT !.i = job[c].i + 1])
                   /\ ~Removal(job[c], job[c].i)
            <3>1. PICK g : g = [job[c] EXCEPT !.i = job[c].i + 1]
                OBVIOUS
            <3>2. g.adds = job[c].adds /\ g.old = job[c].old /\ g.stage = job[c].stage
                      /\ g.i = job[c].i + 1
                BY <1>1, <3>1 DEF Job
            <3>3. job'[c] = g /\ pc'[c] = "delete"
                BY <1>2, <2>1, <3>1
            <3>4. job[c].i \in Nat /\ \A m \in DOMAIN job[c].old : m \in Nat
                BY <1>1, JobFacts, ListDomain
            <3>5. \A k \in StillThere(job[c]) : k # job[c].i
                BY <2>1 DEF StillThere
            <3>6. \A k \in StillThere(job[c]) : k \in StillThere(g)
                BY <3>2, <3>4, <3>5 DEF StillThere, Removal
            <3> QED
                BY <1>5, <1>15, <3>2, <3>3, <3>6 DEF Progress, DeleteNext
        <2> QED
            BY <1>5, <1>6, <1>7, <1>15, <2>1 DEF DeleteNext
    <1>16. CASE DeleteFrontend(c)
        <2>1. Adds(c)
            <3>1. /\ backends' = backends
                  /\ \/ \E v \in {frontends[Deleting(c).id], None} :
                           frontends' = [frontends EXCEPT ![Deleting(c).id] = v]
                     \/ frontends' = frontends
                BY <1>16 DEF DeleteFrontend
            <3>2. \A id \in Ids : frontends'[id] \in {frontends[id], None}
                BY <3>1 DEF IndInv, TypeOK
            <3> QED
                BY <3>1, <3>2 DEF Adds, Used
        <2>2. CASE \E error : FailedAttempt(c, error)
            BY <1>3, <2>1, <2>2
        <2>3. CASE Goto(c, "deleteBackend", job[c])
            BY <1>6, <2>1, <2>3
        <2> QED
            BY <1>16, <2>2, <2>3 DEF DeleteFrontend
    <1>17. CASE DeleteBackend(c)
        <2>1. Adds(c)
            <3>1. /\ frontends' = frontends
                  /\ \/ \E v \in {backends[Deleting(c).id], None} :
                           backends' = [backends EXCEPT ![Deleting(c).id] = v]
                     \/ backends' = backends
                BY <1>17 DEF DeleteBackend
            <3>2. \A id \in Ids : backends'[id] \in {backends[id], None}
                BY <3>1 DEF IndInv, TypeOK
            <3> QED
                BY <3>1, <3>2 DEF Adds, Used
        <2>2. CASE \E error : FailedAttempt(c, error)
            BY <1>3, <2>1, <2>2
        <2>3. CASE CommitOK(c) /\ backends' = [backends EXCEPT ![Deleting(c).id] = None]
            <3>1. job'[c] = AfterCommit(job[c]) /\ pc'[c] = "delete"
                BY <1>2, <2>3 DEF CommitOK
            <3>2. /\ job[c].i \in DOMAIN job[c].old
                  /\ frontends'[job[c].old[job[c].i].id] = None
                BY <1>1, <1>17 DEF DeleteBackend, Knows
            <3>3. backends'[job[c].old[job[c].i].id] = None
                <4>1. job[c].old[job[c].i].id \in Ids
                    BY <1>1, <3>2, JobFacts, ListFacts
                <4> QED
                    BY <2>3, <4>1 DEF Deleting, IndInv, TypeOK
            <3>4. Progress(c, job'[c])
                BY <1>1, <3>1, <3>2, <3>3, CommittedTask
            <3> QED
                BY <2>1, <3>1, <3>4
        <2> QED
            BY <1>17, <2>2, <2>3 DEF DeleteBackend
    <1>18. ~Return(c)
        BY DEF Return
    <1> QED
        BY <1>8, <1>9, <1>10, <1>11, <1>12, <1>13, <1>14, <1>15, <1>16, <1>17, <1>18 DEF Step

=============================================================================
