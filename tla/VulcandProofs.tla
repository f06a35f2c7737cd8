--------------------------- MODULE VulcandProofs ----------------------------
(***************************************************************************)
(* Proofs about Vulcand for any servers, routes, middlewares and           *)
(* resources.                                                              *)
(*                                                                         *)
(* MeetsContract says nothing of extra and of how far the loop over the    *)
(* servers is, so it is not inductive.  Progress says what UpsertBackend   *)
(* knows at each of its requests: until the removals start the backend has *)
(* all it had and only what it had or is to have, the servers up to the    *)
(* current one are there and will not be removed, and all of them are once *)
(* removals start.                                                         *)
(***************************************************************************)
EXTENDS Vulcand, TLAPS

Grown == /\ Held(before) \subseteq backend
         /\ backend \subseteq Held(before) \cup Asked

Progress ==
    /\ pc = "backend" => backend = before /\ i = 1
    /\ pc = "getServers" => backend = Held(before) /\ i = 1
    /\ pc = "upsertServer" => Grown
    /\ pc = "upsertServer" =>
          \A k \in DOMAIN want.servers :
              k < i => want.servers[k] \in backend \ extra
    /\ pc \in {"upsertServer", "deleteServer"} => extra \subseteq Held(before)
    /\ pc = "deleteServer" =>
          /\ Asked \subseteq backend
          /\ backend \subseteq Held(before) \cup Asked
          /\ extra \cap Asked = {}

(* What makes an upsert without a failed request exact.                    *)
CleanProgress ==
    /\ pc \in {"upsertServer", "deleteServer"} /\ clean => backend \ extra \subseteq Asked
    /\ pc = "frontend" => i = 1
    /\ pc = "middleware" =>
          /\ frontend = want.route
          /\ clean => \A k \in DOMAIN want.mids : k < i => want.mids[k] \in mids

IndInv == /\ TypeOK
          /\ Progress /\ CleanProgress
          /\ MeetsContract /\ CleanUpsertRepairs

(* The two sets of Provider, by inclusion.                                 *)
LEMMA BrokenFacts ==
    ASSUME NEW b, NEW srvs
    PROVE  /\ b \in BrokenBackend(b, srvs)
           /\ \A x : Held(b) \subseteq x /\ x \subseteq Held(b) \cup srvs
                    => x \in BrokenBackend(b, srvs)
    <1>1. b \in BrokenBackend(b, srvs)
        BY DEF BrokenBackend
    <1>2. ASSUME NEW x, Held(b) \subseteq x, x \subseteq Held(b) \cup srvs
          PROVE  x \in BrokenBackend(b, srvs)
        <2>1. x = Held(b) \cup (x \cap srvs)
            BY <1>2
        <2>2. x \cap srvs \in SUBSET srvs
            OBVIOUS
        <2> QED
            BY <2>1, <2>2 DEF BrokenBackend
    <1> QED
        BY <1>1, <1>2

LEMMA UpsertedFacts ==
    ASSUME NEW b, NEW srvs, NEW x, srvs \subseteq x, x \subseteq Held(b) \cup srvs
    PROVE  x \in UpsertedBackend(b, srvs)
    <1>1. x = srvs \cup (x \cap Held(b))
        OBVIOUS
    <1>2. x \cap Held(b) \in SUBSET Held(b)
        OBVIOUS
    <1> QED
        BY <1>1, <1>2 DEF UpsertedBackend

LEMMA WantFacts ==
    ASSUME NEW w \in Want
    PROVE  /\ \A k \in DOMAIN w.servers : w.servers[k] \in Servers /\ k \in Nat \ {0}
           /\ \A k \in DOMAIN w.mids : w.mids[k] \in Mids
           /\ w.route \in Routes
           /\ Range(w.servers) \in SUBSET Servers
    <1>1. w.servers \in Seq(Servers) /\ w.mids \in Seq(Mids) /\ w.route \in Routes
        BY DEF Want
    <1>2. DOMAIN w.servers = 1..Len(w.servers) /\ DOMAIN w.mids = 1..Len(w.mids)
        BY <1>1
    <1> QED
        BY <1>1, <1>2 DEF Range

USE DEF InBackend, InFrontend

LEMMA InitInv == Init => IndInv
    <1> SUFFICES ASSUME Init PROVE IndInv
        OBVIOUS
    <1>1. want \in Want
        BY WantsAssumption DEF Init
    <1> QED
        BY <1>1 DEF Init, IndInv, TypeOK, Progress, CleanProgress,
                    MeetsContract, CleanUpsertRepairs

LEMMA BeginInv ==
    ASSUME IndInv, NEW w \in Wants, NEW call \in {"backend", "frontend"}, Begin(call, w)
    PROVE  IndInv'
    <1>1. w \in Want
        BY WantsAssumption
    <1>2. TypeOK' /\ i' # 0
        BY <1>1 DEF IndInv, TypeOK, Begin
    <1>3. backend' = before' /\ i' = 1 /\ pc' \in {"backend", "frontend"}
        BY DEF Begin
    <1>4. Progress'
        BY <1>3 DEF Progress
    <1>5. CleanProgress' /\ CleanUpsertRepairs'
        BY <1>3 DEF CleanProgress, CleanUpsertRepairs
    <1>6. backend' \in BrokenBackend(before, Asked)'
        BY <1>3, BrokenFacts
    <1>7. MeetsContract'
        BY <1>3, <1>6 DEF MeetsContract
    <1> QED
        BY <1>2, <1>4, <1>5, <1>7 DEF IndInv

LEMMA PutBackendInv ==
    ASSUME IndInv, PutBackend
    PROVE  IndInv'
    <1>1. TypeOK' /\ i' # 0
        BY DEF IndInv, TypeOK, PutBackend, Held
    <1>2. backend = before /\ before' = before /\ Asked' = Asked
        BY DEF IndInv, PutBackend, Progress, Asked
    <1>3. backend' = before \/ backend' = Held(before)
        BY <1>2 DEF PutBackend
    <1>4. Held(before') = Held(before)
        BY <1>2
    <1>5. backend' \in BrokenBackend(before', Asked')
        BY <1>2, <1>3, <1>4, BrokenFacts
    <1>6. Progress'
        BY <1>2, <1>4 DEF IndInv, PutBackend, Progress
    <1>7. CleanProgress' /\ CleanUpsertRepairs'
        BY DEF PutBackend, CleanProgress, CleanUpsertRepairs
    <1>8. MeetsContract'
        BY <1>5 DEF PutBackend, MeetsContract
    <1> QED
        BY <1>1, <1>6, <1>7, <1>8 DEF IndInv

LEMMA GetServersInv ==
    ASSUME IndInv, GetServers
    PROVE  IndInv'
    <1>1. /\ pc = "getServers" /\ pc' = "upsertServer" /\ backend' = backend
          /\ before' = before /\ want' = want /\ i' = i
          /\ frontend' = frontend /\ mids' = mids
        BY DEF GetServers
    <1>2. Asked' = Asked /\ Held(before') = Held(before) /\ backend = Held(before)
        BY <1>1 DEF Asked, IndInv, Progress
    <1>3. TypeOK' /\ i' # 0
        BY <1>1, <1>2 DEF IndInv, TypeOK, GetServers, Held
    <1>4. Grown' /\ extra' \subseteq Held(before')
        BY <1>1, <1>2 DEF Grown, GetServers
    <1>5. i' = 1
        BY <1>1 DEF IndInv, Progress
    <1>6. \A k \in DOMAIN want'.servers : ~(k < i')
        BY <1>1, <1>5, WantFacts DEF IndInv, TypeOK
    <1>7. Progress'
        BY <1>1, <1>4, <1>6 DEF Progress
    <1>8. clean' => backend' \ extra' = {}
        BY <1>1 DEF GetServers, IndInv, TypeOK
    <1>9. CleanProgress' /\ CleanUpsertRepairs'
        BY <1>1, <1>8 DEF CleanProgress, CleanUpsertRepairs
    <1>10. MeetsContract'
        BY <1>1, <1>4, BrokenFacts DEF MeetsContract, Grown
    <1> QED
        BY <1>3, <1>7, <1>9, <1>10 DEF IndInv

LEMMA UpsertServerInv ==
    ASSUME IndInv, UpsertServer
    PROVE  IndInv'
    <1> DEFINE srv == want.servers[i]
    <1>1. /\ pc = "upsertServer" /\ before' = before /\ want' = want
          /\ frontend' = frontend /\ mids' = mids
          /\ i \in DOMAIN want.servers
        BY DEF UpsertServer
    <1>2. /\ Asked' = Asked /\ Held(before') = Held(before)
          /\ want.servers \in Seq(Servers) /\ i \in Nat \ {0}
        BY <1>1 DEF Asked, IndInv, TypeOK, Want
    <1>3. srv \in Servers /\ srv \in Asked
        BY <1>1, WantFacts DEF IndInv, TypeOK, Asked, Range
    <1>4. Grown /\ backend \in SUBSET Servers /\ extra \in SUBSET Servers
        BY <1>1, <1>2, NotNoneAssumption, WantFacts
           DEF IndInv, Progress, TypeOK, Grown, Held, Asked
    <1>5. backend' \in {backend, backend \cup {srv}} /\ extra' \subseteq extra
        BY DEF UpsertServer
    <1>6. TypeOK' /\ i' # 0
        <2>1. i' \in Nat \ {0}
            BY <1>2 DEF UpsertServer
        <2>2. backend' \in SUBSET Servers /\ extra' \in SUBSET Servers
            BY <1>3, <1>4, <1>5
        <2>3. pc' \in {"upsertServer", "backendFailed"} /\ clean' \in BOOLEAN
            BY <1>1 DEF UpsertServer, IndInv, TypeOK
        <2> QED
            BY <1>1, <2>1, <2>2, <2>3 DEF IndInv, TypeOK
    <1>7. Grown' /\ extra' \subseteq Held(before')
        BY <1>1, <1>2, <1>3, <1>4, <1>5 DEF Grown, IndInv, Progress
    <1>8. MeetsContract'
        BY <1>1, <1>7, BrokenFacts DEF MeetsContract, Grown, UpsertServer
    <1>9. CleanProgress' /\ CleanUpsertRepairs'
        BY <1>1, <1>2, <1>3 DEF IndInv, CleanProgress, CleanUpsertRepairs, UpsertServer
    <1>10. pc' = "upsertServer" => \A k \in DOMAIN want'.servers :
              k < i' => want'.servers[k] \in backend' \ extra'
        <2> SUFFICES ASSUME pc' = "upsertServer", NEW k \in DOMAIN want.servers, k < i'
                     PROVE  want.servers[k] \in backend' \ extra'
            BY <1>1
        <2>1. /\ i' = i + 1 /\ backend' = backend \cup {srv} /\ extra' = extra \ {srv}
            BY <1>1 DEF UpsertServer
        <2>2. k \in Nat
            BY <1>1, WantFacts DEF IndInv, TypeOK
        <2>3. CASE k = i
            BY <2>1, <2>3
        <2>4. CASE k < i
            BY <1>1, <2>1, <2>4 DEF IndInv, Progress
        <2> QED
            BY <1>2, <2>1, <2>2, <2>3, <2>4
    <1>11. Progress'
        BY <1>1, <1>7, <1>10 DEF Progress, UpsertServer
    <1> QED
        BY <1>6, <1>8, <1>9, <1>11 DEF IndInv

(* Every server of the resource has been written and none of them is left  *)
(* to be removed.                                                          *)
LEMMA ServersUpsertedInv ==
    ASSUME IndInv, ServersUpserted
    PROVE  IndInv'
    <1>1. /\ pc = "upsertServer" /\ pc' = "deleteServer" /\ i \notin DOMAIN want.servers
          /\ before' = before /\ want' = want /\ i' = i /\ extra' = extra
          /\ backend' = backend /\ frontend' = frontend /\ mids' = mids /\ clean' = clean
        BY DEF ServersUpserted
    <1>2. Asked' = Asked /\ Held(before') = Held(before)
        BY <1>1 DEF Asked
    <1>3. TypeOK' /\ i' # 0
        BY <1>1 DEF IndInv, TypeOK
    <1>4. ASSUME NEW srv \in Asked
          PROVE  srv \in backend \ extra
        <2>1. PICK k \in DOMAIN want.servers : srv = want.servers[k]
            BY DEF Asked, Range
        <2>2. want.servers \in Seq(Servers) /\ i \in Nat \ {0}
            BY DEF IndInv, TypeOK, Want
        <2>3. DOMAIN want.servers = 1..Len(want.servers) /\ Len(want.servers) \in Nat
            BY <2>2
        <2>4. k < i
            BY <1>1, <2>1, <2>2, <2>3
        <2> QED
            BY <1>1, <2>1, <2>4 DEF IndInv, Progress
    <1>5. Grown /\ extra \subseteq Held(before)
        BY <1>1 DEF IndInv, Progress
    <1>6. Asked' \subseteq backend' /\ extra' \cap Asked' = {}
        BY <1>1, <1>2, <1>4
    <1>7. /\ Held(before') \subseteq backend'
          /\ backend' \subseteq Held(before') \cup Asked'
        BY <1>1, <1>2, <1>5 DEF Grown
    <1>8. Progress'
        BY <1>1, <1>2, <1>5, <1>6, <1>7 DEF Progress
    <1>9. CleanProgress' /\ CleanUpsertRepairs'
        BY <1>1, <1>2 DEF IndInv, CleanProgress, CleanUpsertRepairs
    <1>10. MeetsContract'
        BY <1>1, <1>7, BrokenFacts DEF MeetsContract
    <1> QED
        BY <1>3, <1>8, <1>9, <1>10 DEF IndInv

LEMMA DeleteServerInv ==
    ASSUME IndInv, DeleteServer
    PROVE  IndInv'
    <1>1. /\ pc = "deleteServer" /\ pc' = "deleteServer"
          /\ before' = before /\ want' = want /\ i' = i
          /\ frontend' = frontend /\ mids' = mids
        BY DEF DeleteServer
    <1>2. Asked' = Asked /\ Held(before') = Held(before)
        BY <1>1 DEF Asked
    <1>3. PICK srv \in extra :
             /\ extra' = extra \ {srv}
             /\ \/ backend' = backend \ {srv} /\ clean' = clean
                \/ clean' = FALSE /\ backend' = backend
        BY DEF DeleteServer
    <1>4. /\ Asked \subseteq backend /\ backend \subseteq Held(before) \cup Asked
          /\ extra \cap Asked = {} /\ extra \subseteq Held(before)
        BY <1>1 DEF IndInv, Progress
    <1>5. backend \in SUBSET Servers /\ extra \in SUBSET Servers
        <2>1. Asked \in SUBSET Servers
            BY WantFacts DEF IndInv, TypeOK, Asked
        <2>2. Held(before) \in SUBSET Servers
            BY DEF IndInv, TypeOK, Held
        <2> QED
            BY <1>4, <2>1, <2>2
    <1>6. TypeOK' /\ i' # 0
        <2>1. backend' \in SUBSET Servers /\ extra' \in SUBSET Servers
            BY <1>3, <1>5
        <2>2. clean' \in BOOLEAN
            BY <1>3 DEF IndInv, TypeOK
        <2> QED
            BY <1>1, <2>1, <2>2 DEF IndInv, TypeOK
    <1>7. /\ Asked' \subseteq backend' /\ backend' \subseteq Held(before') \cup Asked'
          /\ extra' \cap Asked' = {} /\ extra' \subseteq Held(before')
        BY <1>2, <1>3, <1>4
    <1>8. Progress'
        BY <1>1, <1>7 DEF Progress
    <1>9. CleanProgress' /\ CleanUpsertRepairs'
        <2>1. clean' => backend' \ extra' \subseteq Asked'
            BY <1>1, <1>2, <1>3 DEF IndInv, CleanProgress
        <2> QED
            BY <1>1, <2>1 DEF CleanProgress, CleanUpsertRepairs
    <1>10. MeetsContract'
        BY <1>1, <1>7, UpsertedFacts DEF MeetsContract
    <1> QED
        BY <1>6, <1>8, <1>9, <1>10 DEF IndInv

LEMMA ServersDeletedInv ==
    ASSUME IndInv, ServersDeleted
    PROVE  IndInv'
    <1>1. /\ pc = "deleteServer" /\ pc' = "backendOK" /\ extra = {}
          /\ before' = before /\ want' = want /\ i' = i /\ extra' = extra
          /\ backend' = backend /\ frontend' = frontend /\ mids' = mids /\ clean' = clean
        BY DEF ServersDeleted
    <1>2. Asked' = Asked /\ Held(before') = Held(before)
        BY <1>1 DEF Asked
    <1>3. TypeOK' /\ i' # 0
        BY <1>1 DEF IndInv, TypeOK
    <1>4. Asked \subseteq backend /\ backend \subseteq Held(before) \cup Asked
        BY <1>1 DEF IndInv, Progress
    <1>5. Progress' /\ CleanProgress'
        BY <1>1 DEF Progress, CleanProgress
    <1>6. backend' \in UpsertedBackend(before', Asked')
        BY <1>1, <1>2, <1>4, UpsertedFacts
    <1>7. MeetsContract'
        BY <1>1, <1>6 DEF MeetsContract
    <1>8. clean' => backend' = Asked'
        BY <1>1, <1>2, <1>4 DEF IndInv, CleanProgress
    <1>9. CleanUpsertRepairs'
        BY <1>1, <1>8 DEF CleanUpsertRepairs
    <1> QED
        BY <1>3, <1>5, <1>7, <1>9 DEF IndInv

LEMMA FrontendInv ==
    ASSUME IndInv, PutFrontend \/ UpsertMiddleware \/ MiddlewaresUpserted
    PROVE  IndInv'
    <1>1. /\ pc \in {"frontend", "middleware"}
          /\ pc' \in InFrontend
          /\ want' = want /\ extra' = extra /\ backend' = backend /\ before' = before
        BY DEF PutFrontend, UpsertMiddleware, MiddlewaresUpserted, IndInv, TypeOK
    <1>2. want.route \in Routes /\ want.mids \in Seq(Mids)
        BY DEF IndInv, TypeOK, Want
    <1>3. i' \in Nat \ {0}
        BY DEF PutFrontend, UpsertMiddleware, MiddlewaresUpserted, IndInv, TypeOK
    <1>4. mids' \in SUBSET Mids
        BY <1>2, WantFacts
           DEF PutFrontend, UpsertMiddleware, MiddlewaresUpserted, IndInv, TypeOK
    <1>5. frontend' \in {None} \cup Routes
        BY <1>2 DEF PutFrontend, UpsertMiddleware, MiddlewaresUpserted, IndInv, TypeOK
    <1>6. clean' \in BOOLEAN
        BY DEF PutFrontend, UpsertMiddleware, MiddlewaresUpserted, IndInv, TypeOK
    <1>7. TypeOK' /\ i' # 0
        BY <1>1, <1>3, <1>4, <1>5, <1>6 DEF IndInv, TypeOK
    <1>8. Progress' /\ MeetsContract'
        BY <1>1 DEF Progress, MeetsContract
    <1>9. CleanProgress' /\ CleanUpsertRepairs'
        <2>1. CASE PutFrontend
            <3>1. i' = i /\ want' = want /\ (pc' = "middleware" => frontend' = want.route)
                BY <2>1 DEF PutFrontend
            <3>2. pc' \in {"middleware", "frontendFailed"}
                BY <2>1 DEF PutFrontend
            <3>3. i = 1
                BY <2>1 DEF PutFrontend, IndInv, CleanProgress
            <3>4. \A k \in DOMAIN want.mids : ~(k < i)
                BY <1>2, <3>3
            <3> QED
                BY <3>1, <3>2, <3>4 DEF CleanProgress, CleanUpsertRepairs
        <2>2. CASE UpsertMiddleware
            <3>1. /\ i' = i + 1 /\ want' = want /\ frontend' = frontend
                  /\ pc = "middleware" /\ pc' = "middleware"
                BY <2>2 DEF UpsertMiddleware
            <3>2. ASSUME clean', NEW k \in DOMAIN want.mids, k < i + 1
                  PROVE  want.mids[k] \in mids'
                <4>1. clean /\ mids' = mids \cup {want.mids[i]}
                    BY <2>2, <3>2 DEF UpsertMiddleware
                <4>2. k \in Nat /\ i \in Nat
                    BY <1>2 DEF IndInv, TypeOK
                <4>3. k = i \/ k < i
                    BY <3>2, <4>2
                <4> QED
                    BY <3>1, <4>1, <4>3 DEF IndInv, CleanProgress
            <3>3. CleanProgress'
                BY <3>1, <3>2 DEF IndInv, CleanProgress
            <3> QED
                BY <3>1, <3>3 DEF CleanUpsertRepairs
        <2>3. CASE MiddlewaresUpserted
            <3>1. /\ pc = "middleware" /\ pc' = "frontendOK" /\ i \notin DOMAIN want.mids
                  /\ want' = want /\ mids' = mids /\ clean' = clean /\ frontend' = frontend
                BY <2>3 DEF MiddlewaresUpserted
            <3>2. \A k \in DOMAIN want.mids : k < i
                <4>1. DOMAIN want.mids = 1..Len(want.mids) /\ Len(want.mids) \in Nat
                    BY <1>2
                <4>2. i \in Nat \ {0}
                    BY DEF IndInv, TypeOK
                <4> QED
                    BY <3>1, <4>1, <4>2
            <3>3. clean => Range(want.mids) \subseteq mids
                BY <3>1, <3>2 DEF IndInv, CleanProgress, Range
            <3>4. frontend = want.route
                BY <3>1 DEF IndInv, CleanProgress
            <3>5. CleanUpsertRepairs'
                BY <3>1, <3>3, <3>4 DEF CleanUpsertRepairs
            <3> QED
                BY <3>1, <3>5 DEF CleanProgress
        <2> QED
            BY <2>1, <2>2, <2>3
    <1> QED
        BY <1>7, <1>8, <1>9 DEF IndInv

(* Between two upserts nothing is known that could be disturbed.           *)
LEMMA IdleInv ==
    ASSUME IndInv, DeleteFrontend \/ DeleteBackend \/ Return
    PROVE  IndInv'
    <1>1. pc' = "idle" /\ i' = i /\ want' = want /\ before' = before /\ clean' = clean
        BY DEF DeleteFrontend, DeleteBackend, Return
    <1>2. TypeOK' /\ i' # 0
        BY <1>1 DEF DeleteFrontend, DeleteBackend, Return, IndInv, TypeOK
    <1>3. Progress' /\ CleanProgress' /\ MeetsContract' /\ CleanUpsertRepairs'
        BY <1>1 DEF Progress, CleanProgress, MeetsContract, CleanUpsertRepairs
    <1> QED
        BY <1>2, <1>3 DEF IndInv

LEMMA StutterInv ==
    ASSUME IndInv, UNCHANGED vulcanVars
    PROVE  IndInv'
    BY DEF IndInv, vulcanVars, TypeOK, Progress, CleanProgress, MeetsContract,
           CleanUpsertRepairs, Grown, Asked

LEMMA StepInv ==
    ASSUME IndInv, [Next]_vulcanVars
    PROVE  IndInv'
    BY BeginInv, PutBackendInv, GetServersInv, UpsertServerInv, ServersUpsertedInv,
       DeleteServerInv, ServersDeletedInv, FrontendInv, IdleInv, StutterInv
       DEF Next

LEMMA Invariance == Spec => []IndInv
    BY InitInv, StepInv, PTL DEF Spec

(* The variables of the vulcand provider keep their types.                 *)
THEOREM TypeCorrect == Spec => []TypeOK
    <1>1. IndInv => TypeOK
        BY DEF IndInv
    <1> QED
        BY <1>1, Invariance, PTL

(* Whatever fails, the requests of vulcan.UpsertBackend amount to the call *)
(* the engine relies on.                                                   *)
THEOREM ContractMet == Spec => []MeetsContract
    <1>1. IndInv => MeetsContract
        BY DEF IndInv
    <1> QED
        BY <1>1, Invariance, PTL

(* An upsert of which no request failed leaves exactly the servers of the  *)
(* resource, whatever earlier ones left.                                   *)
THEOREM UpsertRepairs == Spec => []CleanUpsertRepairs
    <1>1. IndInv => CleanUpsertRepairs
        BY DEF IndInv
    <1> QED
        BY <1>1, Invariance, PTL

(* vulcan.UpsertBackend never removes a server that the resource has.      *)
THEOREM WantedStay == Spec => WantedServersStay
    <1> DEFINE A == ({pc, pc'} \subseteq InBackend)
                       => Held(backend) \cap Asked \subseteq Held(backend')
    <1>1. ASSUME IndInv, [Next]_vulcanVars
          PROVE  [A]_vulcanVars
        <2> SUFFICES ASSUME Next, pc \in InBackend, pc' \in InBackend,
                            NEW srv \in Held(backend), srv \in Asked
                     PROVE  srv \in Held(backend')
            BY <1>1
        <2>1. backend # None /\ backend \in SUBSET Servers /\ srv \in backend
            BY <1>1 DEF IndInv, TypeOK, Held
        <2>2. CASE PutBackend
            BY <2>1, <2>2 DEF PutBackend, Held
        <2>3. CASE UpsertServer
            <3>1. srv \in backend'
                BY <2>1, <2>3 DEF UpsertServer
            <3>2. backend' # None
                <4>1. want.servers[i] \in Servers
                    BY <1>1, <2>3, WantFacts DEF IndInv, TypeOK, UpsertServer
                <4>2. backend' \in SUBSET Servers
                    BY <2>1, <2>3, <4>1 DEF UpsertServer
                <4> QED
                    BY <4>2, NotNoneAssumption
            <3> QED
                BY <3>1, <3>2 DEF Held
        <2>4. CASE DeleteServer
            <3>1. PICK gone \in extra : backend' \in {backend, backend \ {gone}}
                BY <2>4 DEF DeleteServer
            <3>2. extra \cap Asked = {}
                BY <1>1, <2>4 DEF IndInv, Progress, DeleteServer
            <3>3. srv \in backend' /\ backend' \in SUBSET Servers
                BY <2>1, <3>1, <3>2
            <3> QED
                BY <3>3, NotNoneAssumption DEF Held
        <2>5. CASE backend' = backend
            BY <2>5
        <2> QED
            BY <2>2, <2>3, <2>4, <2>5
               DEF Next, Begin, GetServers, ServersUpserted, ServersDeleted, PutFrontend,
                   UpsertMiddleware, MiddlewaresUpserted, DeleteFrontend, DeleteBackend,
                   Return
    <1> QED
        BY <1>1, Invariance, PTL DEF Spec, WantedServersStay

=============================================================================
