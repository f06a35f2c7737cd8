--------------------------- MODULE TraefikProofs ----------------------------
(***************************************************************************)
(* Proofs about Traefik for any servers, rules and resources.              *)
(*                                                                         *)
(* The properties speak of the keys that are there, and the next step      *)
(* depends on those still to be written, so neither is inductive.  The     *)
(* invariant says what the pending writes can do (PendingFits), that       *)
(* UpsertBackend has so far only added to the servers it found (Grown),    *)
(* and that without a failure each key an upsert must write has been       *)
(* written or is pending (CleanProgress).                                  *)
(***************************************************************************)
EXTENDS Traefik, TLAPS, FiniteSetTheorems, SequenceTheorems

LoadBalancer == Key("backends", "", "loadbalancer")
RuleKey(r) == Key("frontends", r, "rule")
ServerKey(srv, name) == Key("backends", srv, name)

Writes == [key : Keys, val : Stored]

(* The writes of a sequence.                                               *)
Pending(ws) == {ws[k] : k \in 1..Len(ws)}
Has(ws, key) == \E x \in Pending(ws) : x.key = key

Complete == {srv \in Servers : /\ etcd[Key("backends", srv, "url")] # None
                               /\ etcd[Key("backends", srv, "weight")] # None}

Typed ==
    /\ want \in Wants
    /\ writes \in Seq(Writes)
    /\ etcd \in [Keys -> Stored \cup {None}]
    /\ \A r \in Rules : etcd[RuleKey(r)] \in Values \cup {None}

(* Only the upserts that run have something to write, and what.            *)
OfBackend(x, srvs) ==
    /\ x.key[1] = "backends"
    /\ x.key[3] \in {"url", "weight"} => x.key[2] \in srvs
OfFrontend(x, rules) ==
    /\ x.key[1] = "frontends"
    /\ x.key[3] = "rule" => x.key[2] \in DOMAIN rules /\ x.val = rules[x.key[2]]

PendingFits ==
    /\ pc \notin {"backend", "frontend", "server"} => writes = <<>>
    /\ pc = "backend" => \A x \in Pending(writes) : OfBackend(x, want.servers)
    /\ pc = "server" => \A x \in Pending(writes) : x.key[1] = "backends"
    /\ pc = "frontend" => \A x \in Pending(writes) : OfFrontend(x, want.rules)

Grown ==
    pc \in {"backend", "backendOK"} =>
        /\ Held(before) \subseteq Complete
        /\ Complete \subseteq Held(before) \cup want.servers
        /\ before # None => Exists("backends")

(* A key that is to be set to a value in V is, or will be.                 *)
ServersDone(ws) ==
    \A srv \in want.servers : \A name \in {"url", "weight"} :
        etcd[ServerKey(srv, name)] # None \/ Has(ws, ServerKey(srv, name))
RulesDone(ws) ==
    \A r \in DOMAIN want.rules :
        etcd[RuleKey(r)] = want.rules[r] \/ Has(ws, RuleKey(r))

CleanProgress ==
    clean => /\ pc \in {"backend", "backendOK"} => ServersDone(writes)
             /\ pc \in {"frontend", "frontendOK"} => RulesDone(writes)

IndInv == Typed /\ PendingFits /\ Grown /\ CleanProgress

-----------------------------------------------------------------------------
(***************************************************************************)
(* Sequences of writes.                                                    *)
(***************************************************************************)
LEMMA FirstPending ==
    ASSUME NEW S, NEW ws \in Seq(S), ws # <<>>
    PROVE  /\ Head(ws) \in S
           /\ Head(ws) \in Pending(ws)
           /\ Tail(ws) \in Seq(S)
           /\ \A x : x \in Pending(ws) <=> x = Head(ws) \/ x \in Pending(Tail(ws))
    <1>1. /\ Len(ws) \in Nat \ {0}
          /\ Tail(ws) \in Seq(S)
          /\ Len(Tail(ws)) = Len(ws) - 1
          /\ \A k \in 1..Len(Tail(ws)) : Tail(ws)[k] = ws[k + 1]
          /\ Head(ws) = ws[1]
        BY EmptySeq, HeadTailProperties, LenProperties
    <1>2. 1 \in 1..Len(ws)
        BY <1>1
    <1>3. Head(ws) \in S
        BY <1>1, <1>2, ElementOfSeq
    <1>4. Head(ws) \in Pending(ws)
        BY <1>1, <1>2 DEF Pending
    <1>5. ASSUME NEW x, x \in Pending(ws), x # Head(ws)
          PROVE  x \in Pending(Tail(ws))
        <2>1. PICK k \in 1..Len(ws) : x = ws[k]
            BY <1>5 DEF Pending
        <2>2. k # 1
            BY <2>1, <1>5, <1>1
        <2>3. k - 1 \in 1..Len(Tail(ws)) /\ (k - 1) + 1 = k
            BY <2>2, <1>1
        <2>4. Tail(ws)[k - 1] = ws[k]
            BY <2>3, <1>1
        <2> QED
            BY <2>1, <2>3, <2>4 DEF Pending
    <1>6. ASSUME NEW x, x \in Pending(Tail(ws))
          PROVE  x \in Pending(ws)
        <2>1. PICK k \in 1..Len(Tail(ws)) : x = Tail(ws)[k]
            BY <1>6 DEF Pending
        <2>2. k + 1 \in 1..Len(ws) /\ x = ws[k + 1]
            BY <2>1, <1>1
        <2> QED
            BY <2>2 DEF Pending
    <1> QED
        BY <1>1, <1>3, <1>4, <1>5, <1>6

LEMMA NonePending == Pending(<<>>) = {}
    BY EmptySeq DEF Pending

LEMMA PendingOfConcat ==
    ASSUME NEW S, NEW s \in Seq(S), NEW t \in Seq(S)
    PROVE  /\ s \o t \in Seq(S)
           /\ Pending(s \o t) = Pending(s) \cup Pending(t)
    <1>1. /\ s \o t \in Seq(S)
          /\ Len(s \o t) = Len(s) + Len(t)
          /\ \A k \in 1..(Len(s) + Len(t)) :
                (s \o t)[k] = IF k <= Len(s) THEN s[k] ELSE t[k - Len(s)]
          /\ Len(s) \in Nat /\ Len(t) \in Nat
        BY ConcatProperties, LenProperties
    <1>2. ASSUME NEW x, x \in Pending(s \o t)
          PROVE  x \in Pending(s) \cup Pending(t)
        <2>1. PICK k \in 1..(Len(s) + Len(t)) : x = (s \o t)[k]
            BY <1>1, <1>2 DEF Pending
        <2>2. CASE k <= Len(s)
            <3>1. k \in 1..Len(s) /\ x = s[k]
                BY <2>1, <2>2, <1>1
            <3> QED
                BY <3>1 DEF Pending
        <2>3. CASE ~(k <= Len(s))
            <3>1. k - Len(s) \in 1..Len(t) /\ x = t[k - Len(s)]
                BY <2>1, <2>3, <1>1
            <3> QED
                BY <3>1 DEF Pending
        <2> QED
            BY <2>2, <2>3
    <1>3. ASSUME NEW x, x \in Pending(s)
          PROVE  x \in Pending(s \o t)
        <2>1. PICK k \in 1..Len(s) : x = s[k]
            BY <1>3 DEF Pending
        <2>2. k \in 1..(Len(s) + Len(t)) /\ k <= Len(s)
            BY <1>1
        <2>3. x = (s \o t)[k]
            BY <2>1, <2>2, <1>1
        <2> QED
            BY <2>2, <2>3, <1>1 DEF Pending
    <1>4. ASSUME NEW x, x \in Pending(t)
          PROVE  x \in Pending(s \o t)
        <2>1. PICK k \in 1..Len(t) : x = t[k]
            BY <1>4 DEF Pending
        <2>2. /\ Len(s) + k \in 1..(Len(s) + Len(t))
              /\ ~(Len(s) + k <= Len(s))
              /\ (Len(s) + k) - Len(s) = k
            BY <1>1
        <2>3. x = (s \o t)[Len(s) + k]
            BY <2>1, <2>2, <1>1
        <2> QED
            BY <2>2, <2>3, <1>1 DEF Pending
    <1> QED
        BY <1>1, <1>2, <1>3, <1>4

(* An order of a finite set has all its members.                           *)
LEMMA OrderHasAll ==
    ASSUME NEW S, IsFiniteSet(S), NEW order \in SetToSeqs(S)
    PROVE  /\ order \in Seq(S)
           /\ Len(order) \in Nat
           /\ order \in [1..Len(order) -> S]
           /\ \A x \in S : \E k \in 1..Len(order) : order[k] = x
    <1> DEFINE n == Cardinality(S)
    <1>1. n \in Nat
        BY FS_CardinalityType
    <1>2. /\ order \in [1..n -> S]
          /\ \A a, b \in 1..n : a # b => order[a] # order[b]
        BY DEF SetToSeqs
    <1>3. order \in Seq(S) /\ Len(order) = n
        BY <1>1, <1>2, SeqDef
    <1>4. order \in Injection(1..n, S)
        BY <1>2 DEF Injection, IsInjective
    <1>5. IsFiniteSet(1..n) /\ Cardinality(1..n) = n
        BY <1>1, FS_Interval
    <1>6. order \in Surjection(1..n, S)
        BY <1>4, <1>5, FS_Injection
    <1>7. \A x \in S : \E k \in 1..n : order[k] = x
        BY <1>6 DEF Surjection
    <1> QED
        BY <1>1, <1>2, <1>3, <1>7

LEMMA OneWrite ==
    ASSUME NEW key \in Keys, NEW val \in Stored
    PROVE  /\ <<Write(key, val)>> \in Seq(Writes)
           /\ Pending(<<Write(key, val)>>) = {Write(key, val)}
           /\ Write(key, val).key = key /\ Write(key, val).val = val
    <1>1. Write(key, val) \in Writes
        BY DEF Write, Writes
    <1>2. <<Write(key, val)>> \in Seq(Writes) /\ Len(<<Write(key, val)>>) = 1
        BY <1>1
    <1>3. Pending(<<Write(key, val)>>) = {Write(key, val)}
        BY <1>2 DEF Pending
    <1> QED
        BY <1>2, <1>3 DEF Write

LEMMA KeyFacts ==
    /\ Key("backends", "", "circuitbreaker") \in Keys /\ LoadBalancer \in Keys
    /\ \A srv \in Servers : /\ ServerKey(srv, "url") \in Keys
                            /\ ServerKey(srv, "weight") \in Keys
    /\ Key("frontends", "", "backend") \in Keys
    /\ Key("frontends", "", "passHostHeader") \in Keys
    /\ \A r \in Rules : RuleKey(r) \in Keys
    BY DEF Keys, Key, LoadBalancer, ServerKey, RuleKey

LEMMA ServerWritesFit ==
    ASSUME NEW srv \in Servers
    PROVE  /\ ServerWrites(srv) \in Seq(Writes)
           /\ Len(ServerWrites(srv)) = 2
           /\ ServerWrites(srv)[1] = Write(ServerKey(srv, "url"), srv)
           /\ ServerWrites(srv)[2] = Write(ServerKey(srv, "weight"), "1")
           /\ Write(ServerKey(srv, "url"), srv) \in Writes
           /\ Write(ServerKey(srv, "weight"), "1") \in Writes
           /\ \A x \in Pending(ServerWrites(srv)) : x.key[1] = "backends"
    <1>1. /\ Write(ServerKey(srv, "url"), srv) \in Writes
          /\ Write(ServerKey(srv, "weight"), "1") \in Writes
        BY KeyFacts DEF Write, Writes, Stored
    <1>2. /\ ServerWrites(srv) \in Seq(Writes)
          /\ Len(ServerWrites(srv)) = 2
          /\ ServerWrites(srv)[1] = Write(ServerKey(srv, "url"), srv)
          /\ ServerWrites(srv)[2] = Write(ServerKey(srv, "weight"), "1")
        BY <1>1 DEF ServerWrites, ServerKey
    <1>3. ASSUME NEW x \in Pending(ServerWrites(srv))
          PROVE  x.key[1] = "backends"
        <2>1. PICK k \in 1..2 : x = ServerWrites(srv)[k]
            BY <1>2 DEF Pending
        <2>2. k = 1 \/ k = 2
            OBVIOUS
        <2> QED
            BY <2>1, <2>2, <1>2 DEF Write, ServerKey, Key
    <1> QED
        BY <1>1, <1>2, <1>3

(* The writes of the servers, two by two.                                  *)
PairsOf(order) ==
    [k \in 1..(2 * Len(order)) |-> ServerWrites(order[(k + 1) \div 2])[2 - (k % 2)]]

LEMMA PairsFit ==
    ASSUME NEW S \in SUBSET Servers, IsFiniteSet(S), NEW order \in SetToSeqs(S)
    PROVE  /\ PairsOf(order) \in Seq(Writes)
           /\ \A x \in Pending(PairsOf(order)) : OfBackend(x, S)
           /\ \A srv \in S : \A name \in {"url", "weight"} :
                 Has(PairsOf(order), ServerKey(srv, name))
    <1> DEFINE n == Len(order)
    <1>1. /\ n \in Nat /\ order \in [1..n -> S]
          /\ \A x \in S : \E k \in 1..n : order[k] = x
        BY OrderHasAll
    <1>2. ASSUME NEW k \in 1..(2 * n)
          PROVE  /\ (k + 1) \div 2 \in 1..n
                 /\ (2 - (k % 2)) \in {1, 2}
        BY <1>1
    <1>3. ASSUME NEW k \in 1..(2 * n)
          PROVE  /\ PairsOf(order)[k] \in Writes
                 /\ OfBackend(PairsOf(order)[k], S)
        <2>1. PICK j \in 1..n : j = (k + 1) \div 2
            BY <1>2
        <2>2. order[j] \in S /\ order[j] \in Servers
            BY <1>1
        <2>3. PICK m \in {1, 2} : m = 2 - (k % 2)
            BY <1>2
        <2>4. PairsOf(order)[k] = ServerWrites(order[j])[m]
            BY <2>1, <2>3 DEF PairsOf
        <2>5. \/ PairsOf(order)[k] = Write(ServerKey(order[j], "url"), order[j])
              \/ PairsOf(order)[k] = Write(ServerKey(order[j], "weight"), "1")
            BY <2>2, <2>3, <2>4, ServerWritesFit
        <2>6. PairsOf(order)[k] \in Writes
            BY <2>2, <2>5, ServerWritesFit
        <2> QED
            BY <2>2, <2>5, <2>6 DEF OfBackend, Write, ServerKey, Key
    <1>4. PairsOf(order) \in Seq(Writes) /\ Len(PairsOf(order)) = 2 * n
        <2>1. PairsOf(order) \in [1..(2 * n) -> Writes]
            BY <1>3 DEF PairsOf
        <2>2. 2 * n \in Nat
            BY <1>1
        <2> QED
            BY <2>1, <2>2, SeqDef
    <1>5. \A x \in Pending(PairsOf(order)) : OfBackend(x, S)
        BY <1>3, <1>4 DEF Pending
    <1>6. ASSUME NEW srv \in S
          PROVE  /\ Has(PairsOf(order), ServerKey(srv, "url"))
                 /\ Has(PairsOf(order), ServerKey(srv, "weight"))
        <2>1. PICK j \in 1..n : order[j] = srv
            BY <1>1
        <2>2. /\ 2 * j - 1 \in 1..(2 * n) /\ 2 * j \in 1..(2 * n)
              /\ ((2 * j - 1) + 1) \div 2 = j /\ 2 - ((2 * j - 1) % 2) = 1
              /\ (2 * j + 1) \div 2 = j /\ 2 - ((2 * j) % 2) = 2
            BY <1>1
        <2>3. /\ PairsOf(order)[2 * j - 1] = ServerWrites(srv)[1]
              /\ PairsOf(order)[2 * j] = ServerWrites(srv)[2]
            BY <2>1, <2>2 DEF PairsOf
        <2>4. /\ PairsOf(order)[2 * j - 1].key = ServerKey(srv, "url")
              /\ PairsOf(order)[2 * j].key = ServerKey(srv, "weight")
            <3>1. srv \in Servers
                OBVIOUS
            <3>2. /\ PairsOf(order)[2 * j - 1] = Write(ServerKey(srv, "url"), srv)
                  /\ PairsOf(order)[2 * j] = Write(ServerKey(srv, "weight"), "1")
                BY <2>3, <3>1, ServerWritesFit
            <3> QED
                BY <3>2 DEF Write
        <2>5. /\ PairsOf(order)[2 * j - 1] \in Pending(PairsOf(order))
              /\ PairsOf(order)[2 * j] \in Pending(PairsOf(order))
            BY <2>2, <1>4 DEF Pending
        <2> QED
            BY <2>4, <2>5 DEF Has
    <1> QED
        BY <1>4, <1>5, <1>6

BreakerWrites(w) ==
    IF w.breaker = "" THEN <<>>
    ELSE <<Write(Key("backends", "", "circuitbreaker"), w.breaker)>>
BalancerWrites == <<Write(LoadBalancer, "wrr")>>

LEMMA BreakerFits ==
    ASSUME NEW w \in Wants
    PROVE  /\ BreakerWrites(w) \in Seq(Writes)
           /\ \A x \in Pending(BreakerWrites(w)) : OfBackend(x, w.servers)
    <1> DEFINE key == Key("backends", "", "circuitbreaker")
    <1>1. CASE w.breaker = ""
        <2>1. BreakerWrites(w) = <<>>
            BY <1>1 DEF BreakerWrites
        <2> QED
            BY <2>1, NonePending
    <1>2. CASE w.breaker # ""
        <2>1. w.breaker \in Stored /\ key \in Keys
            BY KeyFacts DEF Stored
        <2>2. BreakerWrites(w) = <<Write(key, w.breaker)>>
            BY <1>2 DEF BreakerWrites
        <2>3. /\ BreakerWrites(w) \in Seq(Writes)
              /\ Pending(BreakerWrites(w)) = {Write(key, w.breaker)}
              /\ Write(key, w.breaker).key = key
            <3> HIDE DEF key
            <3> QED
                BY <2>1, <2>2, OneWrite
        <2>4. OfBackend(Write(key, w.breaker), w.servers)
            BY DEF OfBackend, Key, Write
        <2> QED
            BY <2>3, <2>4
    <1> QED
        BY <1>1, <1>2

LEMMA BalancerFits ==
    ASSUME NEW srvs
    PROVE  /\ BalancerWrites \in Seq(Writes)
           /\ \A x \in Pending(BalancerWrites) : OfBackend(x, srvs)
           /\ Has(BalancerWrites, LoadBalancer)
    <1>1. "wrr" \in Stored /\ LoadBalancer \in Keys
        BY KeyFacts DEF Stored
    <1>2. /\ BalancerWrites \in Seq(Writes)
          /\ Pending(BalancerWrites) = {Write(LoadBalancer, "wrr")}
          /\ Write(LoadBalancer, "wrr").key = LoadBalancer
        BY <1>1, OneWrite DEF BalancerWrites
    <1>3. OfBackend(Write(LoadBalancer, "wrr"), srvs)
        BY DEF OfBackend, LoadBalancer, Key, Write
    <1> QED
        BY <1>2, <1>3 DEF Has

LEMMA BackendWritesFit ==
    ASSUME NEW w \in Wants, NEW ws \in BackendWrites(w)
    PROVE  /\ ws \in Seq(Writes)
           /\ \A x \in Pending(ws) : OfBackend(x, w.servers)
           /\ \A srv \in w.servers : \A name \in {"url", "weight"} :
                 Has(ws, ServerKey(srv, name))
           /\ Has(ws, LoadBalancer)
    <1>1. PICK order \in SetToSeqs(w.servers) :
              ws = BreakerWrites(w) \o BalancerWrites \o PairsOf(order)
        BY DEF BackendWrites, PairsOf, LoadBalancer, BreakerWrites, BalancerWrites
    <1>2. w.servers \in SUBSET Servers /\ IsFiniteSet(w.servers)
        BY WantsAssumption
    <1>3. /\ PairsOf(order) \in Seq(Writes)
          /\ \A x \in Pending(PairsOf(order)) : OfBackend(x, w.servers)
          /\ \A srv \in w.servers : \A name \in {"url", "weight"} :
                 Has(PairsOf(order), ServerKey(srv, name))
        BY <1>2, PairsFit
    <1>4. /\ BreakerWrites(w) \o BalancerWrites \in Seq(Writes)
          /\ Pending(BreakerWrites(w) \o BalancerWrites)
             = Pending(BreakerWrites(w)) \cup Pending(BalancerWrites)
        BY BreakerFits, BalancerFits, PendingOfConcat
    <1>5. PICK first \in Seq(Writes) : first = BreakerWrites(w) \o BalancerWrites
        BY <1>4
    <1>6. /\ first \o PairsOf(order) \in Seq(Writes)
          /\ Pending(first \o PairsOf(order)) = Pending(first) \cup Pending(PairsOf(order))
        BY <1>3, PendingOfConcat
    <1>7. /\ ws \in Seq(Writes)
          /\ Pending(ws) = Pending(BreakerWrites(w)) \cup Pending(BalancerWrites)
                           \cup Pending(PairsOf(order))
        BY <1>1, <1>4, <1>5, <1>6
    <1> QED
        BY <1>3, <1>7, BreakerFits, BalancerFits DEF Has

RulesOf(w, order) ==
    [k \in 1..Len(order) |-> Write(RuleKey(order[k]), w.rules[order[k]])]
PassHostWrites(w) ==
    IF w.passHost THEN <<Write(Key("frontends", "", "passHostHeader"), "true")>> ELSE <<>>
IdWrites == <<Write(Key("frontends", "", "backend"), "id")>>

LEMMA RulesFit ==
    ASSUME NEW w \in Wants, NEW order \in SetToSeqs(DOMAIN w.rules)
    PROVE  /\ RulesOf(w, order) \in Seq(Writes)
           /\ \A x \in Pending(RulesOf(w, order)) : OfFrontend(x, w.rules)
           /\ \A r \in DOMAIN w.rules : Has(RulesOf(w, order), RuleKey(r))
    <1> DEFINE n == Len(order)
    <1>1. /\ DOMAIN w.rules \in SUBSET Rules /\ IsFiniteSet(DOMAIN w.rules)
          /\ \A r \in DOMAIN w.rules : w.rules[r] \in Values
        BY WantsAssumption
    <1>2. /\ n \in Nat /\ order \in [1..n -> DOMAIN w.rules]
          /\ \A r \in DOMAIN w.rules : \E k \in 1..n : order[k] = r
        BY <1>1, OrderHasAll
    <1>3. ASSUME NEW r \in DOMAIN w.rules
          PROVE  /\ Write(RuleKey(r), w.rules[r]) \in Writes
                 /\ OfFrontend(Write(RuleKey(r), w.rules[r]), w.rules)
                 /\ Write(RuleKey(r), w.rules[r]).key = RuleKey(r)
        <2>1. RuleKey(r) \in Keys /\ w.rules[r] \in Stored
            BY <1>1, KeyFacts DEF Stored
        <2>2. Write(RuleKey(r), w.rules[r]) \in Writes
            BY <2>1 DEF Write, Writes
        <2>3. OfFrontend(Write(RuleKey(r), w.rules[r]), w.rules)
            BY DEF OfFrontend, Write, RuleKey, Key
        <2> QED
            BY <2>2, <2>3 DEF Write
    <1>4. \A k \in 1..n : /\ order[k] \in DOMAIN w.rules
                          /\ RulesOf(w, order)[k] = Write(RuleKey(order[k]), w.rules[order[k]])
        BY <1>2 DEF RulesOf
    <1>5. RulesOf(w, order) \in Seq(Writes) /\ Len(RulesOf(w, order)) = n
        <2>1. RulesOf(w, order) \in [1..n -> Writes]
            BY <1>3, <1>4 DEF RulesOf
        <2> QED
            BY <2>1, <1>2, SeqDef
    <1>6. \A x \in Pending(RulesOf(w, order)) : OfFrontend(x, w.rules)
        BY <1>3, <1>4, <1>5 DEF Pending
    <1>7. ASSUME NEW r \in DOMAIN w.rules
          PROVE  Has(RulesOf(w, order), RuleKey(r))
        <2>1. PICK k \in 1..n : order[k] = r
            BY <1>2
        <2>2. RulesOf(w, order)[k] = Write(RuleKey(r), w.rules[r])
            BY <2>1, <1>4
        <2>3. RulesOf(w, order)[k] \in Pending(RulesOf(w, order))
            BY <1>5 DEF Pending
        <2> QED
            BY <2>2, <2>3, <1>3 DEF Has
    <1> QED
        BY <1>5, <1>6, <1>7

LEMMA PassHostFits ==
    ASSUME NEW w \in Wants
    PROVE  /\ PassHostWrites(w) \in Seq(Writes)
           /\ \A x \in Pending(PassHostWrites(w)) : OfFrontend(x, w.rules)
    <1> DEFINE key == Key("frontends", "", "passHostHeader")
    <1>1. CASE ~w.passHost
        <2>1. PassHostWrites(w) = <<>>
            BY <1>1 DEF PassHostWrites
        <2> QED
            BY <2>1, NonePending
    <1>2. CASE w.passHost
        <2>1. "true" \in Stored /\ key \in Keys
            BY KeyFacts DEF Stored
        <2>2. PassHostWrites(w) = <<Write(key, "true")>>
            BY <1>2 DEF PassHostWrites
        <2>3. /\ PassHostWrites(w) \in Seq(Writes)
              /\ Pending(PassHostWrites(w)) = {Write(key, "true")}
            <3> HIDE DEF key
            <3> QED
                BY <2>1, <2>2, OneWrite
        <2>4. OfFrontend(Write(key, "true"), w.rules)
            BY DEF OfFrontend, Key, Write
        <2> QED
            BY <2>3, <2>4
    <1> QED
        BY <1>1, <1>2

LEMMA IdFits ==
    ASSUME NEW rules
    PROVE  /\ IdWrites \in Seq(Writes)
           /\ \A x \in Pending(IdWrites) : OfFrontend(x, rules)
    <1> DEFINE key == Key("frontends", "", "backend")
    <1>1. "id" \in Stored /\ key \in Keys
        BY KeyFacts DEF Stored
    <1>2. IdWrites = <<Write(key, "id")>>
        BY DEF IdWrites
    <1>3. IdWrites \in Seq(Writes) /\ Pending(IdWrites) = {Write(key, "id")}
        <2> HIDE DEF key
        <2> QED
            BY <1>1, <1>2, OneWrite
    <1>4. OfFrontend(Write(key, "id"), rules)
        BY DEF OfFrontend, Key, Write
    <1> QED
        BY <1>3, <1>4

LEMMA FrontendWritesFit ==
    ASSUME NEW w \in Wants, NEW ws \in FrontendWrites(w)
    PROVE  /\ ws \in Seq(Writes)
           /\ \A x \in Pending(ws) : OfFrontend(x, w.rules)
           /\ \A r \in DOMAIN w.rules : Has(ws, RuleKey(r))
    <1>1. PICK order \in SetToSeqs(DOMAIN w.rules) :
              ws = IdWrites \o PassHostWrites(w)
                   \o [k \in DOMAIN order |-> Write(RuleKey(order[k]), w.rules[order[k]])]
        BY DEF FrontendWrites, RuleKey, IdWrites, PassHostWrites
    <1>2. [k \in DOMAIN order |-> Write(RuleKey(order[k]), w.rules[order[k]])]
          = RulesOf(w, order)
        <2>1. DOMAIN order = 1..Len(order)
            <3>1. IsFiniteSet(DOMAIN w.rules)
                BY WantsAssumption
            <3> QED
                BY <3>1, OrderHasAll
        <2> QED
            BY <2>1 DEF RulesOf
    <1>3. /\ RulesOf(w, order) \in Seq(Writes)
          /\ \A x \in Pending(RulesOf(w, order)) : OfFrontend(x, w.rules)
          /\ \A r \in DOMAIN w.rules : Has(RulesOf(w, order), RuleKey(r))
        BY RulesFit
    <1>4. /\ IdWrites \o PassHostWrites(w) \in Seq(Writes)
          /\ Pending(IdWrites \o PassHostWrites(w))
             = Pending(IdWrites) \cup Pending(PassHostWrites(w))
        BY PassHostFits, IdFits, PendingOfConcat
    <1>5. PICK first \in Seq(Writes) : first = IdWrites \o PassHostWrites(w)
        BY <1>4
    <1>6. /\ first \o RulesOf(w, order) \in Seq(Writes)
          /\ Pending(first \o RulesOf(w, order))
             = Pending(first) \cup Pending(RulesOf(w, order))
        BY <1>3, PendingOfConcat
    <1>7. /\ ws \in Seq(Writes)
          /\ Pending(ws) = Pending(IdWrites) \cup Pending(PassHostWrites(w))
                           \cup Pending(RulesOf(w, order))
        BY <1>1, <1>2, <1>4, <1>5, <1>6
    <1> QED
        BY <1>3, <1>7, PassHostFits, IdFits DEF Has

-----------------------------------------------------------------------------
(***************************************************************************)
(* Requests.                                                               *)
(***************************************************************************)
Put(x) == etcd' = [etcd EXCEPT ![x.key] = x.val]

LEMMA PutFacts ==
    ASSUME Typed, NEW x \in Writes, Put(x)
    PROVE  /\ etcd' \in [Keys -> Stored \cup {None}]
           /\ x.key \in Keys /\ x.val \in Stored /\ x.val # None
           /\ etcd'[x.key] = x.val
           /\ \A k \in Keys : k # x.key => etcd'[k] = etcd[k]
           /\ \A k \in Keys : etcd[k] # None => etcd'[k] # None
    <1>1. x.key \in Keys /\ x.val \in Stored
        BY DEF Writes
    <1>2. x.val # None
        BY <1>1, NotNoneAssumption
    <1>3. etcd \in [Keys -> Stored \cup {None}]
        BY DEF Typed
    <1> QED
        BY <1>1, <1>2, <1>3 DEF Put

LEMMA Grows ==
    ASSUME Typed, NEW x \in Writes, Put(x)
    PROVE  /\ Exists("backends") => Exists("backends")'
           /\ Complete \subseteq Complete'
           /\ \A srv \in Complete' \ Complete :
                 /\ x.key[1] = "backends" /\ x.key[2] = srv
                 /\ x.key[3] \in {"url", "weight"}
    <1>1. Exists("backends") => Exists("backends")'
        BY PutFacts DEF Exists
    <1>2. Complete \subseteq Complete'
        BY PutFacts, KeyFacts DEF Complete, ServerKey
    <1>3. ASSUME NEW srv \in Complete', srv \notin Complete
          PROVE  /\ x.key[1] = "backends" /\ x.key[2] = srv
                 /\ x.key[3] \in {"url", "weight"}
        <2>1. srv \in Servers
            BY <1>3 DEF Complete
        <2>2. x.key = ServerKey(srv, "url") \/ x.key = ServerKey(srv, "weight")
            BY <2>1, <1>3, PutFacts, KeyFacts DEF Complete, ServerKey
        <2> QED
            BY <2>2 DEF ServerKey, Key
    <1> QED
        BY <1>1, <1>2, <1>3

LEMMA WantFacts ==
    ASSUME Typed
    PROVE  /\ want.servers \subseteq Servers
           /\ DOMAIN want.rules \subseteq Rules
           /\ \A r \in DOMAIN want.rules : want.rules[r] \in Values
    BY WantsAssumption DEF Typed

LEMMA RuleKeysDiffer ==
    /\ \A r \in Rules : RuleKey(r)[1] = "frontends" /\ RuleKey(r)[2] = r
                        /\ RuleKey(r)[3] = "rule"
    /\ \A srv \in Servers : /\ ServerKey(srv, "url")[1] = "backends"
                            /\ ServerKey(srv, "weight")[1] = "backends"
    BY DEF RuleKey, ServerKey, Key

(* The first pending write fits whatever runs.                             *)
LEMMA FirstFits ==
    ASSUME IndInv, writes # <<>>
    PROVE  /\ pc \in {"backend", "frontend", "server"}
           /\ Head(writes) \in Writes
           /\ pc = "backend" => OfBackend(Head(writes), want.servers)
           /\ pc = "server" => Head(writes).key[1] = "backends"
           /\ pc = "frontend" => OfFrontend(Head(writes), want.rules)
           /\ Tail(writes) \in Seq(Writes)
           /\ \A x : x \in Pending(writes) <=>
                        x = Head(writes) \/ x \in Pending(Tail(writes))
    <1>1. writes \in Seq(Writes)
        BY DEF IndInv, Typed
    <1>2. /\ Head(writes) \in Writes
          /\ Head(writes) \in Pending(writes)
          /\ Tail(writes) \in Seq(Writes)
          /\ \A x : x \in Pending(writes) <=>
                       x = Head(writes) \/ x \in Pending(Tail(writes))
        BY <1>1, FirstPending
    <1> QED
        BY <1>2 DEF IndInv, PendingFits

LEMMA EtcdTyped ==
    ASSUME IndInv, writes # <<>>, UNCHANGED etcd \/ Put(Head(writes))
    PROVE  /\ etcd' \in [Keys -> Stored \cup {None}]
           /\ \A r \in Rules : etcd'[RuleKey(r)] \in Values \cup {None}
    <1>1. Typed /\ Head(writes) \in Writes
        BY FirstFits DEF IndInv
    <1>2. CASE UNCHANGED etcd
        BY <1>1, <1>2 DEF Typed
    <1>3. CASE Put(Head(writes))
        <2>1. etcd' \in [Keys -> Stored \cup {None}]
            BY <1>1, <1>3, PutFacts
        <2>2. ASSUME NEW r \in Rules
              PROVE  etcd'[RuleKey(r)] \in Values \cup {None}
            <3>1. RuleKey(r) \in Keys
                BY KeyFacts
            <3>2. CASE RuleKey(r) # Head(writes).key
                BY <3>1, <3>2, <1>1, <1>3, PutFacts DEF Typed
            <3>3. CASE RuleKey(r) = Head(writes).key
                <4>1. Head(writes).key[1] = "frontends" /\ Head(writes).key[3] = "rule"
                    BY <3>3, RuleKeysDiffer
                <4>2. OfFrontend(Head(writes), want.rules)
                    BY <4>1, FirstFits DEF OfBackend
                <4>3. Head(writes).val \in Values
                    BY <4>1, <4>2, <1>1, WantFacts DEF OfFrontend
                <4> QED
                    BY <3>3, <4>3, <1>1, <1>3, PutFacts
            <3> QED
                BY <3>2, <3>3
        <2> QED
            BY <2>1, <2>2
    <1> QED
        BY <1>2, <1>3

LEMMA StaysGrown ==
    ASSUME IndInv, writes # <<>>, UNCHANGED etcd \/ Put(Head(writes)),
           UNCHANGED <<want, before>>, pc' \in {pc, "failed"}
    PROVE  Grown'
    <1> SUFFICES ASSUME pc = "backend"
                 PROVE  /\ Held(before) \subseteq Complete'
                        /\ Complete' \subseteq Held(before) \cup want.servers
                        /\ before # None => Exists("backends")'
        BY FirstFits DEF Grown
    <1>1. /\ Held(before) \subseteq Complete
          /\ Complete \subseteq Held(before) \cup want.servers
          /\ before # None => Exists("backends")
        BY DEF IndInv, Grown
    <1>2. CASE UNCHANGED etcd
        <2>1. Complete' = Complete /\ Exists("backends")' = Exists("backends")
            BY <1>2 DEF Complete, Exists
        <2> QED
            BY <1>1, <2>1
    <1>3. CASE Put(Head(writes))
        <2>1. Typed /\ Head(writes) \in Writes /\ OfBackend(Head(writes), want.servers)
            BY FirstFits DEF IndInv
        <2>2. \A srv \in Complete' \ Complete : srv \in want.servers
            BY <2>1, <1>3, Grows DEF OfBackend
        <2>3. Complete \subseteq Complete' /\ (Exists("backends") => Exists("backends")')
            BY <2>1, <1>3, Grows
        <2> QED
            BY <1>1, <2>2, <2>3
    <1> QED
        BY <1>2, <1>3

LEMMA SetInv ==
    ASSUME IndInv, Set
    PROVE  IndInv'
    <1>1. /\ writes # <<>> /\ Put(Head(writes)) /\ writes' = Tail(writes)
          /\ UNCHANGED <<pc, want, before, clean>>
        BY DEF Set, Put
    <1>2. Typed'
        BY <1>1, FirstFits, EtcdTyped DEF Typed, IndInv
    <1>3. PendingFits'
        BY <1>1, FirstFits DEF PendingFits, IndInv
    <1>4. Grown'
        BY <1>1, StaysGrown
    <1>5. ASSUME clean, pc \in {"backend", "backendOK"}
          PROVE  ServersDone(writes)'
        <2>1. ServersDone(writes)
            BY <1>5 DEF IndInv, CleanProgress
        <2>2. ASSUME NEW srv \in want.servers, NEW name \in {"url", "weight"}
              PROVE  etcd'[ServerKey(srv, name)] # None \/ Has(writes', ServerKey(srv, name))
            <3>1. ServerKey(srv, name) \in Keys
                BY WantFacts, KeyFacts DEF IndInv
            <3>2. CASE etcd[ServerKey(srv, name)] # None
                BY <3>1, <3>2, <1>1, FirstFits, PutFacts DEF IndInv
            <3>3. CASE Has(writes, ServerKey(srv, name))
                BY <3>1, <3>3, <1>1, FirstFits, PutFacts DEF IndInv, Has
            <3> QED
                BY <2>1, <3>2, <3>3 DEF ServersDone
        <2> QED
            BY <1>1, <2>2 DEF ServersDone
    <1>6. ASSUME clean, pc \in {"frontend", "frontendOK"}
          PROVE  RulesDone(writes)'
        <2>1. RulesDone(writes) /\ pc = "frontend" /\ OfFrontend(Head(writes), want.rules)
            BY <1>1, <1>6, FirstFits DEF IndInv, CleanProgress
        <2>2. ASSUME NEW r \in DOMAIN want.rules
              PROVE  etcd'[RuleKey(r)] = want.rules[r] \/ Has(writes', RuleKey(r))
            <3>1. RuleKey(r) \in Keys /\ r \in Rules
                BY WantFacts, KeyFacts DEF IndInv
            <3>2. CASE RuleKey(r) = Head(writes).key
                <4>1. Head(writes).val = want.rules[r]
                    BY <3>1, <3>2, <2>1, RuleKeysDiffer DEF OfFrontend
                <4> QED
                    BY <3>2, <4>1, <1>1, FirstFits, PutFacts DEF IndInv
            <3>3. CASE RuleKey(r) # Head(writes).key
                <4>1. etcd'[RuleKey(r)] = etcd[RuleKey(r)]
                    BY <3>1, <3>3, <1>1, FirstFits, PutFacts DEF IndInv
                <4>2. Has(writes, RuleKey(r)) => Has(writes', RuleKey(r))
                    BY <3>3, <1>1, FirstFits DEF Has
                <4> QED
                    BY <4>1, <4>2, <2>1 DEF RulesDone
            <3> QED
                BY <3>2, <3>3
        <2> QED
            BY <1>1, <2>2 DEF RulesDone
    <1>7. CleanProgress'
        BY <1>1, <1>5, <1>6 DEF CleanProgress
    <1> QED
        BY <1>2, <1>3, <1>4, <1>7 DEF IndInv

LEMMA SetFailsInv ==
    ASSUME IndInv, SetFails
    PROVE  IndInv'
    <1>1. /\ writes # <<>>
          /\ UNCHANGED etcd \/ Put(Head(writes))
          /\ \/ writes' = <<>> /\ pc' = "failed"
             \/ writes' = Tail(writes) /\ pc' = pc
          /\ clean' = FALSE
          /\ UNCHANGED <<want, before>>
        BY DEF SetFails, Put
    <1>2. writes' \in Seq(Writes)
        <2>1. <<>> \in Seq(Writes) /\ Tail(writes) \in Seq(Writes)
            BY <1>1, FirstFits
        <2> QED
            BY <1>1, <2>1
    <1>3. Typed'
        BY <1>1, <1>2, EtcdTyped DEF Typed, IndInv
    <1>4. PendingFits'
        BY <1>1, FirstFits DEF PendingFits, IndInv
    <1>5. Grown'
        BY <1>1, StaysGrown
    <1>6. CleanProgress'
        BY <1>1 DEF CleanProgress
    <1> QED
        BY <1>3, <1>4, <1>5, <1>6 DEF IndInv

LEMMA InitInv == Init => IndInv
    <1> SUFFICES ASSUME Init PROVE IndInv
        OBVIOUS
    <1>1. <<>> \in Seq(Writes) /\ writes = <<>>
        BY DEF Init
    <1>2. Typed
        BY <1>1, KeyFacts DEF Init, Typed
    <1> QED
        BY <1>1, <1>2 DEF Init, IndInv, PendingFits, Grown, CleanProgress

(* A backend that is not there has no servers.                             *)
LEMMA BackendFacts ==
    ASSUME Typed
    PROVE  /\ backend = IF Exists("backends") THEN Complete ELSE None
           /\ ~Exists("backends") => Complete = {}
           /\ Complete \subseteq Servers /\ Complete # None
           /\ Held(backend) = Complete
           /\ backend # None <=> Exists("backends")
    <1>1. backend = IF Exists("backends") THEN Complete ELSE None
        BY DEF backend, Complete
    <1>2. Complete \in SUBSET Servers
        BY DEF Complete
    <1>3. Complete # None
        BY <1>2, NotNoneAssumption
    <1>4. ASSUME NEW srv \in Complete
          PROVE  Exists("backends")
        <2>1. /\ ServerKey(srv, "url") \in Keys /\ ServerKey(srv, "url")[1] = "backends"
              /\ etcd[ServerKey(srv, "url")] # None
            <3>1. srv \in Servers /\ etcd[ServerKey(srv, "url")] # None
                BY DEF Complete, ServerKey
            <3> QED
                BY <3>1, KeyFacts, RuleKeysDiffer
        <2> QED
            BY <2>1 DEF Exists
    <1> QED
        BY <1>1, <1>2, <1>3, <1>4 DEF Held

LEMMA FrontendFacts ==
    ASSUME Typed
    PROVE  /\ frontend = IF Exists("frontends") THEN RulesIn(etcd) ELSE None
           /\ RulesIn(etcd) \in SUBSET (Rules \X Values) /\ RulesIn(etcd) # None
           /\ Exists("frontends") => Held(frontend) = RulesIn(etcd)
           /\ frontend # None <=> Exists("frontends")
    <1>1. frontend = IF Exists("frontends") THEN RulesIn(etcd) ELSE None
        BY DEF frontend
    <1>2. ASSUME NEW x \in RulesIn(etcd)
          PROVE  x \in Rules \X Values
        <2>1. PICK r \in Rules : /\ x = <<r, etcd[RuleKey(r)]>>
                                 /\ etcd[RuleKey(r)] # None
            BY DEF RulesIn, RuleKey
        <2>2. etcd[RuleKey(r)] \in Values
            BY <2>1 DEF Typed
        <2> QED
            BY <2>1, <2>2
    <1>3. RulesIn(etcd) \in SUBSET (Rules \X Values) /\ RulesIn(etcd) # None
        BY <1>2, NotNoneAssumption
    <1> QED
        BY <1>1, <1>3 DEF Held

LEMMA UpsertBackendInv ==
    ASSUME IndInv, NEW w \in Wants, UpsertBackend(w)
    PROVE  IndInv'
    <1>1. /\ want' = w /\ writes' \in BackendWrites(w) /\ pc' = "backend"
          /\ before' = backend /\ UNCHANGED etcd
        BY DEF UpsertBackend
    <1>2. /\ writes' \in Seq(Writes)
          /\ \A x \in Pending(writes') : OfBackend(x, w.servers)
          /\ \A srv \in w.servers : \A name \in {"url", "weight"} :
                Has(writes', ServerKey(srv, name))
        BY <1>1, BackendWritesFit
    <1>3. Typed'
        BY <1>1, <1>2 DEF IndInv, Typed
    <1>4. PendingFits'
        BY <1>1, <1>2 DEF PendingFits
    <1>5. Grown'
        <2>1. Complete' = Complete /\ Exists("backends")' = Exists("backends")
            BY <1>1 DEF Complete, Exists
        <2>2. Typed
            BY DEF IndInv
        <2>3. /\ Held(backend) = Complete
              /\ backend # None => Exists("backends")
            BY <2>2, BackendFacts
        <2>4. Held(before)' = Held(backend)
            BY <1>1 DEF Held
        <2> QED
            BY <1>1, <2>1, <2>3, <2>4 DEF Grown
    <1>6. CleanProgress'
        BY <1>1, <1>2 DEF CleanProgress, ServersDone
    <1> QED
        BY <1>3, <1>4, <1>5, <1>6 DEF IndInv

LEMMA UpsertFrontendInv ==
    ASSUME IndInv, UpsertFrontend
    PROVE  IndInv'
    <1>1. /\ writes' \in FrontendWrites(want) /\ pc' = "frontend"
          /\ UNCHANGED <<want, etcd, before>> /\ want \in Wants
        BY DEF UpsertFrontend, IndInv, Typed
    <1>2. /\ writes' \in Seq(Writes)
          /\ \A x \in Pending(writes') : OfFrontend(x, want.rules)
          /\ \A r \in DOMAIN want.rules : Has(writes', RuleKey(r))
        BY <1>1, FrontendWritesFit
    <1>3. Typed'
        BY <1>1, <1>2 DEF IndInv, Typed
    <1>4. PendingFits'
        BY <1>1, <1>2 DEF PendingFits
    <1>5. Grown'
        BY <1>1 DEF Grown
    <1>6. CleanProgress'
        BY <1>1, <1>2 DEF CleanProgress, RulesDone
    <1> QED
        BY <1>3, <1>4, <1>5, <1>6 DEF IndInv

LEMMA UpsertServerInv ==
    ASSUME IndInv, NEW srv \in Servers, UpsertServer(srv)
    PROVE  IndInv'
    <1>1. /\ writes' = ServerWrites(srv) /\ pc' = "server"
          /\ UNCHANGED <<want, etcd, before, clean>>
        BY DEF UpsertServer
    <1>2. /\ ServerWrites(srv) \in Seq(Writes)
          /\ \A x \in Pending(ServerWrites(srv)) : x.key[1] = "backends"
        BY ServerWritesFit
    <1>3. Typed'
        BY <1>1, <1>2 DEF IndInv, Typed
    <1>4. PendingFits'
        BY <1>1, <1>2 DEF PendingFits
    <1> QED
        BY <1>1, <1>3, <1>4 DEF IndInv, Grown, CleanProgress

LEMMA UpsertedInv ==
    ASSUME IndInv, Upserted
    PROVE  IndInv'
    <1>1. /\ writes = <<>> /\ UNCHANGED <<want, writes, etcd, before, clean>>
          /\ \/ pc = "backend" /\ pc' = "backendOK"
             \/ pc = "frontend" /\ pc' = "frontendOK"
             \/ pc = "server" /\ pc' = "idle"
        BY DEF Upserted
    <1>2. Typed'
        BY <1>1 DEF IndInv, Typed
    <1>3. PendingFits'
        BY <1>1 DEF PendingFits
    <1>4. Complete' = Complete /\ Exists("backends")' = Exists("backends")
        BY <1>1 DEF Complete, Exists
    <1>5. Held(before)' = Held(before)
        BY <1>1 DEF Held
    <1>6. Grown'
        BY <1>1, <1>4, <1>5 DEF IndInv, Grown
    <1>7. ServersDone(writes)' = ServersDone(writes) /\ RulesDone(writes)' = RulesDone(writes)
        BY <1>1 DEF ServersDone, RulesDone
    <1>8. CleanProgress'
        BY <1>1, <1>7 DEF IndInv, CleanProgress
    <1> QED
        BY <1>2, <1>3, <1>6, <1>8 DEF IndInv

(* Deletions and the end of an upsert: keys go at most, nothing is written.*)
Fewer == /\ etcd' \in [Keys -> Stored \cup {None}]
         /\ \A k \in Keys : etcd'[k] \in {etcd[k], None}

LEMMA FewerInv ==
    ASSUME IndInv, Fewer, UNCHANGED want, writes' = <<>>, pc' \in {"idle", "frontendGone"}
    PROVE  IndInv'
    <1>1. <<>> \in Seq(Writes)
        OBVIOUS
    <1>2. \A r \in Rules : etcd'[RuleKey(r)] \in Values \cup {None}
        BY KeyFacts DEF Fewer, IndInv, Typed
    <1>3. Typed'
        BY <1>1, <1>2 DEF IndInv, Typed, Fewer
    <1> QED
        BY <1>3 DEF IndInv, PendingFits, Grown, CleanProgress

LEMMA DeletionInv ==
    ASSUME IndInv,
           \/ DeleteFrontend \/ DeleteBackend \/ Return
           \/ \E srv \in Servers : DeleteServer(srv)
    PROVE  IndInv'
    <1>1. etcd \in [Keys -> Stored \cup {None}]
        BY DEF IndInv, Typed
    <1>2. CASE Return
        <2>1. Fewer
            BY <1>1, <1>2 DEF Return, Fewer
        <2> QED
            BY <1>2, <2>1, FewerInv DEF Return
    <1>3. CASE DeleteFrontend
        <2>1. Fewer
            BY <1>1, <1>3 DEF DeleteFrontend, Fewer, Cleared
        <2>2. writes' = <<>> /\ pc' \in {"idle", "frontendGone"} /\ UNCHANGED want
            BY <1>3 DEF DeleteFrontend, IndInv, PendingFits
        <2> QED
            BY <2>1, <2>2, FewerInv
    <1>4. CASE DeleteBackend
        <2>1. Fewer
            BY <1>1, <1>4 DEF DeleteBackend, Fewer, Cleared
        <2>2. writes' = <<>> /\ pc' = "idle" /\ UNCHANGED want
            BY <1>4 DEF DeleteBackend, IndInv, PendingFits
        <2> QED
            BY <2>1, <2>2, FewerInv
    <1>5. ASSUME NEW srv \in Servers, DeleteServer(srv)
          PROVE  IndInv'
        <2>1. Fewer
            BY <1>1, <1>5 DEF DeleteServer, Fewer
        <2>2. writes' = <<>> /\ pc' = "idle" /\ UNCHANGED want
            BY <1>5 DEF DeleteServer, IndInv, PendingFits
        <2> QED
            BY <2>1, <2>2, FewerInv
    <1> QED
        BY <1>2, <1>3, <1>4, <1>5

LEMMA NextInv == IndInv /\ [Next]_traefikVars => IndInv'
    <1> SUFFICES ASSUME IndInv, [Next]_traefikVars PROVE IndInv'
        OBVIOUS
    <1>1. CASE UNCHANGED traefikVars
        <2>1. Complete' = Complete /\ Exists("backends")' = Exists("backends")
            BY <1>1 DEF Complete, Exists, traefikVars
        <2>2. Held(before)' = Held(before)
            BY <1>1 DEF Held, traefikVars
        <2>3. ServersDone(writes)' = ServersDone(writes) /\ RulesDone(writes)' = RulesDone(writes)
            BY <1>1 DEF ServersDone, RulesDone, traefikVars
        <2> QED
            BY <1>1, <2>1, <2>2, <2>3
            DEF traefikVars, IndInv, Typed, PendingFits, Grown, CleanProgress
    <1>2. CASE Next
        BY <1>2, UpsertBackendInv, UpsertFrontendInv, UpsertServerInv, SetInv,
           SetFailsInv, UpsertedInv, DeletionInv DEF Next
    <1> QED
        BY <1>1, <1>2

LEMMA Invariance == Spec => []IndInv
    BY InitInv, NextInv, PTL DEF Spec

-----------------------------------------------------------------------------
(***************************************************************************)
(* The theorems.                                                           *)
(***************************************************************************)

(* UpsertBackend never loses a server of the backend, at any of its        *)
(* requests and whichever of them fail: traefik.go writes the keys of the  *)
(* servers it is given and removes none.                                   *)
THEOREM ServersKept == Spec => []NeverFewerServers
    <1>1. IndInv => NeverFewerServers
        <2> SUFFICES ASSUME IndInv, pc \in {"backend", "backendOK"}
                     PROVE  backend \in BrokenBackend(before, want.servers)
            BY DEF NeverFewerServers
        <2>1. /\ Held(before) \subseteq Complete
              /\ Complete \subseteq Held(before) \cup want.servers
              /\ before # None => Exists("backends")
            BY DEF IndInv, Grown
        <2>2. backend = IF Exists("backends") THEN Complete ELSE None
            BY BackendFacts DEF IndInv
        <2>3. CASE ~Exists("backends")
            <3>1. backend = before
                BY <2>1, <2>2, <2>3
            <3> QED
                BY <3>1 DEF BrokenBackend
        <2>4. CASE Exists("backends")
            <3>1. backend = Held(before) \cup (Complete \cap want.servers)
                BY <2>1, <2>2, <2>4
            <3>2. Complete \cap want.servers \in SUBSET want.servers
                OBVIOUS
            <3> QED
                BY <3>1, <3>2 DEF BrokenBackend
        <2> QED
            BY <2>3, <2>4
    <1> QED
        BY <1>1, Invariance, PTL

(* An upsert of which no request failed publishes all servers and all      *)
(* rules of the resource, whatever earlier upserts left half written and   *)
(* in whatever order Go walks the maps.                                    *)
THEOREM CleanPublishes == Spec => []CleanUpsertPublishes
    <1>1. IndInv => CleanUpsertPublishes
        <2> SUFFICES ASSUME IndInv, clean
                     PROVE  /\ pc = "backendOK" => want.servers \subseteq Held(backend)
                            /\ pc = "frontendOK" => WantedRules \subseteq Held(frontend)
            BY DEF CleanUpsertPublishes
        <2>1. ASSUME pc = "backendOK"
              PROVE  want.servers \subseteq Held(backend)
            <3>1. writes = <<>> /\ ServersDone(writes)
                BY <2>1 DEF IndInv, PendingFits, CleanProgress
            <3>2. \A srv \in want.servers : /\ etcd[ServerKey(srv, "url")] # None
                                             /\ etcd[ServerKey(srv, "weight")] # None
                BY <3>1, NonePending DEF ServersDone, Has
            <3>3. want.servers \subseteq Complete
                BY <3>2, WantFacts DEF IndInv, Complete, ServerKey
            <3> QED
                BY <3>3, BackendFacts DEF IndInv
        <2>2. ASSUME pc = "frontendOK"
              PROVE  WantedRules \subseteq Held(frontend)
            <3>1. writes = <<>> /\ RulesDone(writes)
                BY <2>2 DEF IndInv, PendingFits, CleanProgress
            <3>2. ASSUME NEW r \in DOMAIN want.rules
                  PROVE  <<r, want.rules[r]>> \in Held(frontend)
                <4>1. etcd[RuleKey(r)] = want.rules[r]
                    BY <3>1, NonePending DEF RulesDone, Has
                <4>2. /\ r \in Rules /\ RuleKey(r) \in Keys
                      /\ RuleKey(r)[1] = "frontends"
                    BY WantFacts, KeyFacts, RuleKeysDiffer DEF IndInv
                <4>3. want.rules[r] # None
                    BY WantFacts, NotNoneAssumption DEF IndInv, Stored
                <4>4. Exists("frontends")
                    BY <4>1, <4>2, <4>3 DEF Exists
                <4>5. <<r, want.rules[r]>> \in RulesIn(etcd)
                    BY <4>1, <4>2, <4>3 DEF RulesIn, RuleKey
                <4> QED
                    BY <4>4, <4>5, FrontendFacts DEF IndInv
            <3> QED
                BY <3>2 DEF WantedRules
        <2> QED
            BY <2>1, <2>2
    <1> QED
        BY <1>1, Invariance, PTL

-----------------------------------------------------------------------------
(***************************************************************************)
(* The routing table.  Without it being an error that a key of a backend   *)
(* was not written, a frontend may be published over a backend of which no *)
(* key was; that is the only way to leave the abstract table.  The key     *)
(* that proves the backend is there is its loadbalancer.                   *)
(***************************************************************************)
TableInv ==
    /\ Exists("frontends") => etcd[LoadBalancer] # None
    /\ pc = "backend" => etcd[LoadBalancer] # None \/ Has(writes, LoadBalancer)
    /\ pc \in {"backendOK", "frontend", "frontendOK"} => etcd[LoadBalancer] # None
    /\ pc = "frontendGone" => ~Exists("frontends")

LEMMA BalancerIsBackend ==
    ASSUME etcd[LoadBalancer] # None
    PROVE  Exists("backends")
    <1>1. LoadBalancer \in Keys /\ LoadBalancer[1] = "backends"
        BY KeyFacts DEF LoadBalancer, Key
    <1> QED
        BY <1>1 DEF Exists

(* What is seen of a directory depends on its keys alone.                  *)
LEMMA SameFrontend ==
    ASSUME \A k \in Keys : k[1] = "frontends" => etcd'[k] = etcd[k]
    PROVE  Exists("frontends")' = Exists("frontends") /\ UNCHANGED frontend
    <1>1. Exists("frontends")' = Exists("frontends")
        BY DEF Exists
    <1>2. \A r \in Rules : etcd'[RuleKey(r)] = etcd[RuleKey(r)]
        BY KeyFacts, RuleKeysDiffer
    <1>3. RulesIn(etcd') = RulesIn(etcd)
        BY <1>2 DEF RulesIn, RuleKey
    <1> QED
        BY <1>1, <1>3 DEF frontend

LEMMA SameBackend ==
    ASSUME \A k \in Keys : k[1] = "backends" => etcd'[k] = etcd[k]
    PROVE  UNCHANGED backend
    <1>1. Exists("backends")' = Exists("backends")
        BY DEF Exists
    <1>2. \A srv \in Servers :
              /\ etcd'[ServerKey(srv, "url")] = etcd[ServerKey(srv, "url")]
              /\ etcd'[ServerKey(srv, "weight")] = etcd[ServerKey(srv, "weight")]
        BY KeyFacts, RuleKeysDiffer
    <1> QED
        BY <1>1, <1>2 DEF backend, ServerKey

(* A write to one directory leaves the other.                              *)
LEMMA OtherDirectory ==
    ASSUME Typed, NEW x \in Writes, Put(x)
    PROVE  /\ x.key[1] = "backends" => /\ Exists("frontends")' = Exists("frontends")
                                       /\ UNCHANGED frontend
           /\ x.key[1] = "frontends" => UNCHANGED backend
    <1>1. \A k \in Keys : k[1] # x.key[1] => etcd'[k] = etcd[k]
        BY PutFacts
    <1>2. ASSUME x.key[1] = "backends"
          PROVE  Exists("frontends")' = Exists("frontends") /\ UNCHANGED frontend
        <2>1. \A k \in Keys : k[1] = "frontends" => etcd'[k] = etcd[k]
            BY <1>1, <1>2
        <2> QED
            BY <2>1, SameFrontend
    <1>3. ASSUME x.key[1] = "frontends"
          PROVE  UNCHANGED backend
        <2>1. \A k \in Keys : k[1] = "backends" => etcd'[k] = etcd[k]
            BY <1>1, <1>3
        <2> QED
            BY <2>1, SameBackend
    <1> QED
        BY <1>2, <1>3

(* Each request touches the backend or the frontend.                       *)
LEMMA OneAtATime ==
    ASSUME IndInv, [Next]_traefikVars
    PROVE  UNCHANGED backend \/ UNCHANGED frontend
    <1>1. CASE UNCHANGED etcd
        BY <1>1 DEF backend, Exists
    <1>2. CASE Set \/ SetFails
        <2>1. writes # <<>> /\ (UNCHANGED etcd \/ Put(Head(writes)))
            BY <1>2 DEF Set, SetFails, Put
        <2>2. /\ Typed /\ Head(writes) \in Writes
              /\ Head(writes).key[1] \in {"backends", "frontends"}
            BY <2>1, FirstFits DEF IndInv, OfBackend, OfFrontend
        <2> QED
            BY <1>1, <2>1, <2>2, OtherDirectory
    <1>3. CASE DeleteFrontend
        <2>1. \A k \in Keys : k[1] = "backends" => etcd'[k] = etcd[k]
            BY <1>3 DEF DeleteFrontend, Cleared
        <2> QED
            BY <2>1, SameBackend
    <1>4. CASE DeleteBackend \/ \E srv \in Servers : DeleteServer(srv)
        <2>1. \A k \in Keys : k[1] = "frontends" => etcd'[k] = etcd[k]
            BY <1>4 DEF DeleteBackend, DeleteServer, Cleared
        <2> QED
            BY <2>1, SameFrontend
    <1> QED
        BY <1>1, <1>2, <1>3, <1>4
        DEF Next, UpsertBackend, UpsertFrontend, UpsertServer, Upserted, Return, traefikVars

LEMMA WriteTable ==
    ASSUME IndInv, TableInv, writes # <<>>, "backends" \notin Faulty, Set \/ SetFails
    PROVE  TableInv'
    <1> DEFINE x == Head(writes)
    <1>1. /\ Typed /\ x \in Writes /\ pc \in {"backend", "frontend", "server"}
          /\ pc \in {"backend", "server"} => x.key[1] = "backends"
          /\ pc = "frontend" => x.key[1] = "frontends"
          /\ \A y : y \in Pending(writes) <=> y = x \/ y \in Pending(Tail(writes))
        BY FirstFits DEF IndInv, OfBackend, OfFrontend
    <1>2. /\ UNCHANGED etcd \/ Put(x)
          /\ \/ Put(x) /\ writes' = Tail(writes) /\ pc' = pc
             \/ x.key[1] = "frontends" /\ pc' \in {pc, "failed"}
        <2>1. CASE Set
            BY <2>1 DEF Set, Put
        <2>2. CASE SetFails
            <3>1. /\ x.key[1] \in Faulty /\ pc' \in {pc, "failed"}
                  /\ UNCHANGED etcd \/ Put(x)
                BY <2>2 DEF SetFails, Put
            <3>2. x.key[1] = "frontends"
                BY <3>1, <1>1
            <3> QED
                BY <3>1, <3>2
        <2> QED
            BY <2>1, <2>2
    <1> HIDE DEF x
    <1>3. LoadBalancer \in Keys /\ LoadBalancer[1] = "backends"
        BY KeyFacts DEF LoadBalancer, Key
    <1>4. etcd[LoadBalancer] # None => etcd'[LoadBalancer] # None
        BY <1>1, <1>2, <1>3, PutFacts
    <1>5. CASE pc \in {"backend", "server"}
        <2>1. Put(x) /\ writes' = Tail(writes) /\ pc' = pc
            BY <1>1, <1>2, <1>5
        <2>2. Exists("frontends")' = Exists("frontends")
            BY <1>1, <1>5, <2>1, OtherDirectory
        <2>3. Has(writes, LoadBalancer) =>
                  etcd'[LoadBalancer] # None \/ Has(writes', LoadBalancer)
            BY <1>1, <2>1, PutFacts DEF Has
        <2> QED
            BY <1>4, <1>5, <2>1, <2>2, <2>3 DEF TableInv
    <1>6. CASE pc = "frontend"
        <2>1. etcd'[LoadBalancer] # None /\ pc' \in {"frontend", "failed"}
            BY <1>2, <1>4, <1>6 DEF TableInv
        <2> QED
            BY <2>1 DEF TableInv
    <1> QED
        BY <1>1, <1>5, <1>6

LEMMA TableInvNext ==
    ASSUME IndInv, TableInv, "backends" \notin Faulty, [Next]_traefikVars
    PROVE  TableInv'
    <1>1. Typed
        BY DEF IndInv
    <1>2. LoadBalancer \in Keys /\ LoadBalancer[1] = "backends" /\ LoadBalancer[2] = ""
        BY KeyFacts DEF LoadBalancer, Key
    <1>3. CASE UNCHANGED <<etcd, writes>> /\ pc' \in {"idle", pc}
        <2>1. Exists("frontends")' = Exists("frontends")
            BY <1>3 DEF Exists
        <2>2. Has(writes, LoadBalancer)' = Has(writes, LoadBalancer)
            BY <1>3 DEF Has
        <2> QED
            BY <1>3, <2>1, <2>2 DEF TableInv
    <1>4. CASE UNCHANGED etcd /\ pc' = "idle"
        <2>1. Exists("frontends")' = Exists("frontends")
            BY <1>4 DEF Exists
        <2> QED
            BY <1>4, <2>1 DEF TableInv
    <1>5. ASSUME NEW w \in Wants, UpsertBackend(w)
          PROVE  TableInv'
        <2>1. Exists("frontends")' = Exists("frontends")
            BY <1>5 DEF Exists, UpsertBackend
        <2>2. Has(writes', LoadBalancer)
            BY <1>5, BackendWritesFit DEF UpsertBackend
        <2> QED
            BY <1>5, <2>1, <2>2 DEF TableInv, UpsertBackend
    <1>6. CASE UpsertFrontend
        BY <1>6 DEF TableInv, UpsertFrontend
    <1>7. ASSUME NEW srv \in Servers, UpsertServer(srv)
          PROVE  TableInv'
        <2>1. Exists("frontends")' = Exists("frontends")
            BY <1>7 DEF Exists, UpsertServer
        <2> QED
            BY <1>7, <2>1 DEF TableInv, UpsertServer
    <1>8. ASSUME NEW srv \in Servers, DeleteServer(srv)
          PROVE  TableInv'
        <2>1. srv # ""
            BY NotNoneAssumption
        <2>2. etcd'[LoadBalancer] = etcd[LoadBalancer]
            BY <1>2, <1>8, <2>1 DEF DeleteServer
        <2>3. Exists("frontends")' => Exists("frontends")
            BY <1>8 DEF DeleteServer, Exists
        <2> QED
            BY <1>8, <2>2, <2>3 DEF TableInv, DeleteServer
    <1>9. CASE Set \/ SetFails
        BY <1>9, WriteTable DEF Set, SetFails
    <1>10. CASE Upserted
        <2>1. Exists("frontends")' = Exists("frontends")
            BY <1>10 DEF Exists, Upserted
        <2>2. ~Has(writes, LoadBalancer)
            BY <1>10, NonePending DEF Has, Upserted
        <2> QED
            BY <1>10, <2>1, <2>2 DEF TableInv, Upserted
    <1>11. CASE DeleteFrontend
        <2>1. ~Exists("frontends")'
            BY <1>11 DEF DeleteFrontend, Cleared, Exists
        <2> QED
            BY <1>11, <2>1 DEF TableInv, DeleteFrontend
    <1>12. CASE DeleteBackend
        <2>1. ~Exists("frontends")
            BY <1>12 DEF TableInv, DeleteBackend
        <2>2. ~Exists("frontends")'
            BY <1>12, <2>1 DEF DeleteBackend, Cleared, Exists
        <2> QED
            BY <1>12, <2>2 DEF TableInv, DeleteBackend
    <1>13. CASE Return
        BY <1>4, <1>13 DEF Return
    <1>14. CASE UNCHANGED traefikVars
        BY <1>3, <1>14 DEF traefikVars
    <1> QED
        BY <1>5, <1>6, <1>7, <1>8, <1>9, <1>10, <1>11, <1>12, <1>13, <1>14 DEF Next

(* If no write to a backend fails, each request of the provider is a step  *)
(* of the abstract routing table or none, however the writes of frontends  *)
(* fail and wherever the process dies: a frontend is published over its    *)
(* backend, and a backend goes after its frontend.                         *)
THEOREM ImplementsTable ==
    ASSUME "backends" \notin Faulty
    PROVE  Spec => RefinesTable
    <1> DEFINE bs == [id \in {"id"} |-> backend]
               fs == [id \in {"id"} |-> frontend]
               Shape == /\ backend \in {None} \cup SUBSET Servers
                        /\ frontend \in {None} \cup SUBSET (Rules \X Values)
                        /\ frontend # None => backend # None
    <1>1. Init => Table!TableInit /\ TableInv
        <2> SUFFICES ASSUME Init PROVE Table!TableInit /\ TableInv
            OBVIOUS
        <2>1. ~Exists("backends") /\ ~Exists("frontends")
            BY DEF Init, Exists
        <2>2. backend = None /\ frontend = None
            BY <2>1 DEF backend, frontend
        <2> QED
            BY <2>1, <2>2 DEF Init, TableInv, Table!TableInit
    <1>2. IndInv /\ TableInv /\ [Next]_traefikVars => TableInv'
        BY TableInvNext
    <1>3. IndInv /\ TableInv => Shape
        <2> SUFFICES ASSUME IndInv, TableInv PROVE Shape
            OBVIOUS
        <2>1. Typed
            BY DEF IndInv
        <2>2. /\ backend \in {None} \cup SUBSET Servers
              /\ frontend \in {None} \cup SUBSET (Rules \X Values)
            BY <2>1, BackendFacts, FrontendFacts
        <2>3. frontend # None => backend # None
            BY <2>1, BackendFacts, FrontendFacts, BalancerIsBackend DEF TableInv
        <2> QED
            BY <2>2, <2>3
    <1>4. IndInv /\ Shape /\ Shape' /\ [Next]_traefikVars
          => [Table!TableNext]_(Table!tableVars)
        <2> SUFFICES ASSUME IndInv, Shape, Shape', [Next]_traefikVars
                     PROVE  \/ UNCHANGED <<bs, fs>>
                            \/ \E srvs \in SUBSET Servers :
                                  bs' = [bs EXCEPT !["id"] = srvs] /\ UNCHANGED fs
                            \/ \E rules \in SUBSET (Rules \X Values) :
                                  /\ bs["id"] # None
                                  /\ fs' = [fs EXCEPT !["id"] = rules] /\ UNCHANGED bs
                            \/ fs' = [fs EXCEPT !["id"] = None] /\ UNCHANGED bs
                            \/ /\ fs["id"] = None
                               /\ bs' = [bs EXCEPT !["id"] = None] /\ UNCHANGED fs
            BY DEF Table!TableNext, Table!tableVars, Table!PutBackend, Table!PutFrontend,
                   Table!DropFrontend, Table!DropBackend
        <2>1. CASE UNCHANGED frontend
            <3>1. bs' = [bs EXCEPT !["id"] = backend'] /\ UNCHANGED fs
                BY <2>1
            <3>2. CASE backend' = None
                BY <2>1, <3>1, <3>2
            <3>3. CASE backend' \in SUBSET Servers
                BY <3>1, <3>3
            <3> QED
                BY <3>2, <3>3
        <2>2. CASE UNCHANGED backend
            <3>1. fs' = [fs EXCEPT !["id"] = frontend'] /\ UNCHANGED bs
                BY <2>2
            <3>2. CASE frontend' = None
                BY <3>1, <3>2
            <3>3. CASE frontend' \in SUBSET (Rules \X Values) /\ frontend' # None
                <4>1. bs["id"] # None
                    BY <2>2, <3>3
                <4> QED
                    BY <3>1, <3>3, <4>1
            <3> QED
                BY <3>2, <3>3
        <2> QED
            BY <2>1, <2>2, OneAtATime
    <1> QED
        BY <1>1, <1>2, <1>3, <1>4, Invariance, PTL DEF Spec, RefinesTable, Table!TableSpec
=============================================================================
