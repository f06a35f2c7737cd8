--------------------------- MODULE InformerProofs ---------------------------
(***************************************************************************)
(* Proofs about the informers and the stores, for any cluster and any      *)
(* bounds.                                                                 *)
(*                                                                         *)
(* What the engine is told depends on deltas that were queued long before, *)
(* so the invariant follows an object through the informer.  KindInv says, *)
(* of one kind: the waiting events delete only what is there (Fresh); for  *)
(* each object, the deltas that were popped and then those of the queue    *)
(* lead from the controller's version to the reflector's, and a deletion   *)
(* that claims to know the final state does (Awaits, Truthful); the engine *)
(* was told the controller's version unless a call about it is due         *)
(* (IsCalls).  Operators on records and sequences come first, then one     *)
(* lemma per operation on one kind, then the actions.                      *)
(***************************************************************************)
EXTENDS ObjectCache, TLAPS, FiniteSetTheorems, SequenceTheorems

(***************************************************************************)
(* Deltas.                                                                 *)
(***************************************************************************)
(* Only the marker of a deletion that was not seen may have no object.     *)
DeltasOf(V) == [type : {"Set", "Deleted"}, obj : V]
                \cup [type : {"Unknown"}, obj : V \cup {0}]

(* What dedupDeltas makes of a delta d that is appended to s, position by  *)
(* position: either d follows s ...                                        *)
Follows(s, d, r) ==
    /\ Len(r) = Len(s) + 1
    /\ \A k \in 1..Len(s) : r[k] = s[k]
    /\ r[Len(r)] = d
    /\ d.type = "Set" \/ Len(s) = 0 \/ s[Len(s)].type = "Set"

(* ... or d and the last of s are both deletions and one of them is kept,  *)
(* the older if it knows the final state.                                  *)
Merges(s, d, r) ==
    /\ Len(s) > 0 /\ Len(r) = Len(s)
    /\ d.type # "Set" /\ s[Len(s)].type # "Set"
    /\ \A k \in 1..(Len(s) - 1) : r[k] = s[k]
    /\ r[Len(r)] = IF s[Len(s)].type = "Unknown" THEN d ELSE s[Len(s)]

LEMMA Dedup ==
    ASSUME NEW V, NEW s \in Seq(DeltasOf(V)), NEW d \in DeltasOf(V),
           NEW r, r = dedupDeltas(Append(s, d))
    PROVE  /\ r \in Seq(DeltasOf(V))
           /\ r # <<>>
           /\ Follows(s, d, r) \/ Merges(s, d, r)
    <1> DEFINE a == Append(s, d)
               n == Len(s)
    <1>1. /\ n \in Nat /\ a \in Seq(DeltasOf(V)) /\ Len(a) = n + 1
          /\ a[n + 1] = d
          /\ \A k \in 1..n : a[k] = s[k]
        OBVIOUS
    <1>2. CASE n = 0 \/ d.type = "Set" \/ s[n].type = "Set"
        <2>1. r = a
            BY <1>1, <1>2 DEF dedupDeltas, isDeletionDup
        <2> QED
            BY <1>1, <1>2, <2>1 DEF Follows
    <1>3. CASE n > 0 /\ d.type # "Set" /\ s[n].type # "Set"
        <2> DEFINE x == IF s[n].type = "Unknown" THEN d ELSE s[n]
                   b == SubSeq(a, 1, n - 1)
        <2>1. n \in 1..n /\ a[n] = s[n]
            BY <1>1, <1>3
        <2>2. r = Append(b, x)
            BY <1>1, <1>3, <2>1 DEF dedupDeltas, isDeletionDup
        <2>3. b \in Seq(DeltasOf(V)) /\ Len(b) = n - 1
                  /\ \A k \in 1..(n - 1) : b[k] = s[k]
            <3>1. \A k \in 1..(n - 1) : a[k] \in DeltasOf(V) /\ a[k] = s[k]
                BY <1>1
            <3> HIDE DEF a, n
            <3>2. b \in Seq(DeltasOf(V)) /\ Len(b) = n - 1
                BY <1>1, <1>3, <3>1, SubSeqProperties
            <3>3. \A k \in 1..(n - 1) : b[k] = a[k]
                BY <1>1, <1>3, <3>1, SubSeqProperties
            <3> QED
                BY <3>1, <3>2, <3>3
        <2>4. x \in DeltasOf(V)
            BY <2>1
        <2> HIDE DEF x, b
        <2>5. /\ r \in Seq(DeltasOf(V)) /\ Len(r) = n /\ r[n] = x
              /\ \A k \in 1..(n - 1) : r[k] = s[k]
            BY <1>1, <1>3, <2>2, <2>3, <2>4
        <2>6. r # <<>>
            BY <1>1, <1>3, <2>5
        <2> QED
            BY <1>1, <1>3, <2>5, <2>6 DEF x, Merges
    <1> QED
        BY <1>1, <1>2, <1>3

(* The version that an object has after the deltas s, if it had v before.  *)
EndsAs(s, v) ==
    IF Len(s) = 0 THEN v
    ELSE IF s[Len(s)].type = "Set" THEN s[Len(s)].obj ELSE 0

(* Deletions carry the version that the object then has: the first of the  *)
(* deltas the version v before them, any other the one just set.           *)
Truthful(s, v) ==
    /\ Len(s) > 0 /\ s[1].type = "Deleted" => s[1].obj = v
    /\ \A k \in 2..Len(s) : s[k].type = "Deleted" =>
          s[k - 1].type = "Set" /\ s[k - 1].obj = s[k].obj

(* A delta is queued.                                                      *)
LEMMA TruthfulAppend ==
    ASSUME NEW V, NEW s \in Seq(DeltasOf(V)), NEW d \in DeltasOf(V), 0 \notin V,
           NEW r, r = dedupDeltas(Append(s, d)), NEW v,
           Truthful(s, v), d.type = "Deleted" => d.obj = EndsAs(s, v)
    PROVE  /\ Truthful(r, v)
           /\ d.type = "Set" => EndsAs(r, v) = d.obj
    <1>0. r \in Seq(DeltasOf(V)) /\ (Follows(s, d, r) \/ Merges(s, d, r))
        BY Dedup
    <1>1. Len(s) \in Nat /\ Len(r) \in Nat
        BY <1>0
    <1>1a. /\ d.type \in {"Set", "Deleted", "Unknown"}
           /\ d.type # "Unknown" => d.obj # 0
        BY DEF DeltasOf
    <1>2. CASE Follows(s, d, r)
        <2>1. d.type = "Set" => EndsAs(r, v) = d.obj
            BY <1>1, <1>2 DEF EndsAs, Follows
        <2>2. Len(r) > 0 /\ r[1].type = "Deleted" => r[1].obj = v
            <3>1. CASE Len(s) = 0
                BY <1>2, <3>1 DEF EndsAs, Follows
            <3>2. CASE Len(s) > 0
                BY <1>1, <1>2, <3>2 DEF Truthful, Follows
            <3> QED
                BY <1>1, <3>1, <3>2
        <2>3. ASSUME NEW k \in 2..Len(r), r[k].type = "Deleted"
              PROVE  r[k - 1].type = "Set" /\ r[k - 1].obj = r[k].obj
            <3>1. CASE k = Len(r)
                BY <1>1, <1>1a, <1>2, <2>3, <3>1 DEF EndsAs, Follows
            <3>2. CASE k < Len(r)
                BY <1>1, <1>2, <2>3, <3>2 DEF Truthful, Follows
            <3> QED
                BY <1>1, <3>1, <3>2
        <2> QED
            BY <2>1, <2>2, <2>3 DEF Truthful
    <1>3. CASE Merges(s, d, r)
        (* The object is gone after s, so d is no Deleted.                 *)
        <2>1. d.type = "Unknown"
            BY <1>1, <1>1a, <1>3 DEF EndsAs, Merges
        <2>2. r[Len(r)].type = "Deleted" => r[Len(r)] = s[Len(s)]
            BY <1>3, <2>1 DEF Merges
        <2>3. Len(r) > 0 /\ r[1].type = "Deleted" => r[1].obj = v
            BY <1>1, <1>3, <2>2 DEF Truthful, Merges
        <2>4. ASSUME NEW k \in 2..Len(r), r[k].type = "Deleted"
              PROVE  r[k - 1].type = "Set" /\ r[k - 1].obj = r[k].obj
            BY <1>1, <1>3, <2>2, <2>4 DEF Truthful, Merges
        <2> QED
            BY <1>3, <2>3, <2>4 DEF Truthful, Merges
    <1> QED
        BY <1>0, <1>2, <1>3

(* The first delta is taken off and applied.                               *)
LEMMA TruthfulTail ==
    ASSUME NEW V, NEW s \in Seq(DeltasOf(V)), 0 \notin V, Len(s) > 0,
           NEW v, Truthful(s, v),
           NEW u, u = IF s[1].type = "Set" THEN s[1].obj ELSE 0
    PROVE  /\ Truthful(Tail(s), u)
           /\ EndsAs(Tail(s), u) = EndsAs(s, v)
    <1>1. /\ Tail(s) \in Seq(DeltasOf(V)) /\ Len(s) \in Nat
          /\ Len(Tail(s)) = Len(s) - 1
          /\ \A k \in 1..(Len(s) - 1) : Tail(s)[k] = s[k + 1]
        OBVIOUS
    <1>2. EndsAs(Tail(s), u) = EndsAs(s, v)
        BY <1>1 DEF EndsAs
    <1>3. Len(Tail(s)) > 0 /\ Tail(s)[1].type = "Deleted" => Tail(s)[1].obj = u
        BY <1>1 DEF Truthful
    <1>4. ASSUME NEW k \in 2..Len(Tail(s)), Tail(s)[k].type = "Deleted"
          PROVE  Tail(s)[k - 1].type = "Set" /\ Tail(s)[k - 1].obj = Tail(s)[k].obj
        <2>1. k + 1 \in 2..Len(s) /\ Tail(s)[k] = s[k + 1] /\ Tail(s)[k - 1] = s[k]
            BY <1>1
        <2>2. s[k].type = "Set" /\ s[k].obj = s[k + 1].obj
            BY <1>1, <1>4, <2>1 DEF Truthful
        <2> QED
            BY <2>1, <2>2
    <1> QED
        BY <1>2, <1>3, <1>4 DEF Truthful

-----------------------------------------------------------------------------
(***************************************************************************)
(* The queue.                                                              *)
(***************************************************************************)
Listed(q, x) == \E m \in DOMAIN q : q[m] = x
EachOnce(q) == \A m, n \in DOMAIN q : q[m] = q[n] => m = n

LEMMA Enqueue ==
    ASSUME NEW N, NEW q \in Seq(N), EachOnce(q), NEW x \in N, ~Listed(q, x)
    PROVE  /\ EachOnce(Append(q, x))
           /\ \A y : Listed(Append(q, x), y) <=> Listed(q, y) \/ y = x
    <1>1. /\ Len(q) \in Nat /\ DOMAIN q = 1..Len(q)
          /\ DOMAIN Append(q, x) = 1..(Len(q) + 1)
          /\ \A m \in 1..Len(q) : Append(q, x)[m] = q[m]
          /\ Append(q, x)[Len(q) + 1] = x
        OBVIOUS
    <1>2. \A m \in 1..(Len(q) + 1) : m \in 1..Len(q) \/ m = Len(q) + 1
        BY <1>1
    <1>3. Len(q) + 1 \in 1..(Len(q) + 1) /\ 1..Len(q) \subseteq 1..(Len(q) + 1)
        BY <1>1
    <1> HIDE DEF EachOnce
    <1>4. EachOnce(Append(q, x))
        BY <1>1, <1>2 DEF EachOnce, Listed
    <1>5. ASSUME NEW y
          PROVE  Listed(Append(q, x), y) <=> Listed(q, y) \/ y = x
        BY <1>1, <1>2, <1>3 DEF Listed
    <1> QED
        BY <1>4, <1>5

LEMMA Dequeue ==
    ASSUME NEW N, NEW q \in Seq(N), EachOnce(q), q # <<>>
    PROVE  /\ EachOnce(Tail(q))
           /\ \A y : Listed(Tail(q), y) <=> Listed(q, y) /\ y # Head(q)
    <1>1. /\ Len(q) \in Nat \ {0} /\ DOMAIN q = 1..Len(q) /\ Head(q) = q[1]
          /\ DOMAIN Tail(q) = 1..(Len(q) - 1)
          /\ \A m \in 1..(Len(q) - 1) : Tail(q)[m] = q[m + 1]
        OBVIOUS
    <1>2. /\ \A m \in 1..(Len(q) - 1) : m + 1 \in 1..Len(q) /\ m + 1 # 1
          /\ \A m, n \in 1..(Len(q) - 1) : m + 1 = n + 1 => m = n
          /\ \A m \in 1..Len(q) : m = 1 \/ (m - 1 \in 1..(Len(q) - 1) /\ (m - 1) + 1 = m)
          /\ 1 \in 1..Len(q)
        BY <1>1
    <1>3. EachOnce(Tail(q))
        BY <1>1, <1>2 DEF EachOnce
    <1>4. ASSUME NEW y
          PROVE  Listed(Tail(q), y) <=> Listed(q, y) /\ y # Head(q)
        <2>1. ASSUME Listed(Tail(q), y) PROVE Listed(q, y) /\ y # Head(q)
            BY <1>1, <1>2, <2>1 DEF Listed, EachOnce
        <2>2. ASSUME Listed(q, y), y # Head(q) PROVE Listed(Tail(q), y)
            <3>1. PICK m \in 1..Len(q) : q[m] = y
                BY <1>1, <2>2 DEF Listed
            <3>2. m - 1 \in 1..(Len(q) - 1) /\ (m - 1) + 1 = m
                BY <1>1, <1>2, <2>2, <3>1
            <3>3. Tail(q)[m - 1] = y
                BY <1>1, <3>1, <3>2
            <3> QED
                BY <1>1, <3>2, <3>3 DEF Listed
        <2> QED
            BY <2>1, <2>2
    <1> QED
        BY <1>3, <1>4

LEMMA Concat ==
    ASSUME NEW N, NEW p \in Seq(N), NEW q \in Seq(N), EachOnce(p), EachOnce(q),
           \A x : ~(Listed(p, x) /\ Listed(q, x))
    PROVE  /\ p \o q \in Seq(N)
           /\ EachOnce(p \o q)
           /\ \A y : Listed(p \o q, y) <=> Listed(p, y) \/ Listed(q, y)
    <1> DEFINE r == p \o q
               a == Len(p)
               b == Len(q)
    <1>1. /\ a \in Nat /\ b \in Nat /\ DOMAIN p = 1..a /\ DOMAIN q = 1..b
          /\ r \in Seq(N) /\ DOMAIN r = 1..(a + b)
          /\ \A m \in 1..a : r[m] = p[m]
          /\ \A m \in 1..b : r[a + m] = q[m]
        OBVIOUS
    <1> HIDE DEF r, a, b
    <1>2. /\ \A m \in 1..(a + b) :
                m \in 1..a \/ (m - a \in 1..b /\ a + (m - a) = m)
          /\ \A m \in 1..a : m \in 1..(a + b)
          /\ \A m \in 1..b : a + m \in 1..(a + b)
        BY <1>1
    <1>3. ASSUME NEW m \in 1..(a + b)
          PROVE  \/ m \in 1..a /\ r[m] = p[m]
                 \/ m - a \in 1..b /\ r[m] = q[m - a]
        BY <1>1, <1>2
    <1>4. EachOnce(r)
        <2> SUFFICES ASSUME NEW m \in 1..(a + b), NEW n \in 1..(a + b), r[m] = r[n]
                     PROVE  m = n
            BY <1>1 DEF EachOnce
        <2>1. CASE m \in 1..a /\ n \in 1..a
            BY <1>1, <2>1 DEF EachOnce
        <2>2. CASE m \notin 1..a /\ n \notin 1..a
            <3>1. m - a \in 1..b /\ r[m] = q[m - a]
                BY <1>3, <2>2
            <3>2. n - a \in 1..b /\ r[n] = q[n - a]
                BY <1>3, <2>2
            <3>3. m - a = n - a
                BY <1>1, <3>1, <3>2 DEF EachOnce
            <3> QED
                BY <1>1, <3>3
        <2>3. CASE (m \in 1..a /\ n \notin 1..a) \/ (m \notin 1..a /\ n \in 1..a)
            BY <1>1, <1>3, <2>3 DEF Listed
        <2> QED
            BY <2>1, <2>2, <2>3
    <1>5. ASSUME NEW y
          PROVE  Listed(r, y) <=> Listed(p, y) \/ Listed(q, y)
        BY <1>1, <1>2, <1>3 DEF Listed
    <1> QED
        BY <1>1, <1>4, <1>5 DEF r

(* What Replace adds to the queue.                                         *)
LEMMA OrdersFacts ==
    ASSUME NEW S, IsFiniteSet(S), NEW q \in Orders(S)
    PROVE  /\ q \in Seq(S)
           /\ EachOnce(q)
           /\ \A y : Listed(q, y) <=> y \in S
    <1>1. Cardinality(S) \in Nat
        BY FS_CardinalityType
    <1>2. q \in [1..Cardinality(S) -> S]
        BY DEF Orders
    <1>3. q \in Seq(S)
        BY <1>1, <1>2
    <1> QED
        BY <1>2, <1>3 DEF Orders, EachOnce, Listed

-----------------------------------------------------------------------------
(***************************************************************************)
(* The inductive invariant, for one kind of objects: objs is what the      *)
(* cluster says of them, b, w, f, kn, cu, ca and t are the kind's base,    *)
(* wire, fifo, known, cur, call and told.                                  *)
(***************************************************************************)
IsState(objs, s) ==
    /\ s = [n \in DOMAIN objs |-> s[n]]
    /\ \A n \in DOMAIN objs : s[n] \in 0..Len(objs[n])

IsWire(objs, w) ==
    /\ w \in Seq([name : DOMAIN objs, obj : Nat])
    /\ \A k \in 1..Len(w) : w[k].obj \in 0..Len(objs[w[k].name])

VersionsOf(objs, n) == 1..Len(objs[n])

(* Only what there is can be deleted: the first event of an object is a    *)
(* deletion only if the reflector has the object, and two deletions have   *)
(* another event of the object between them.                               *)
Fresh(b, w) ==
    \A k \in 1..Len(w) : w[k].obj = 0 =>
        /\ (\A j \in 1..(k - 1) : w[j].name # w[k].name) => b[w[k].name] # 0
        /\ \A j \in 1..(k - 1) : w[j].name = w[k].name /\ w[j].obj = 0 =>
              \E i \in (j + 1)..(k - 1) : w[i].name = w[k].name

IsFifo(objs, f) ==
    /\ f.queue \in Seq(DOMAIN objs)
    /\ EachOnce(f.queue)
    /\ f.items = [n \in DOMAIN objs |-> f.items[n]]
    /\ \A n \in DOMAIN objs : f.items[n] # <<>> <=> Listed(f.queue, n)

IsCur(objs, cu) ==
    /\ cu \in Seq([name : DOMAIN objs, delta : DeltasOf(Nat)])
    /\ \A k \in 1..Len(cu) : cu[k].name = cu[1].name

(* The deltas of n that were popped and are not processed.                 *)
Pending(cu, n) ==
    IF Len(cu) > 0 /\ cu[1].name = n
    THEN [k \in 1..Len(cu) |-> cu[k].delta] ELSE <<>>

(* What waits for one object with the versions V: from the version k that  *)
(* the client state has, through the deltas p that were popped and the     *)
(* deltas s in the queue, to the version x that the reflector saw last.    *)
Awaits(V, x, s, p, k) ==
    /\ s \in Seq(DeltasOf(V)) /\ p \in Seq(DeltasOf(V))
    /\ Truthful(p, k)
    /\ Truthful(s, EndsAs(p, k))
    /\ x # 0 => x = EndsAs(s, EndsAs(p, k))

(* The callback that is due.                                               *)
IsCall(objs, kn, t, c) ==
    /\ c.name \in DOMAIN objs
    /\ c.event \in {"add", "update", "delete", "unknown"}
    /\ c.new = kn[c.name]
    /\ c.new # 0 <=> c.event \in {"add", "update"}
    /\ c.event \in {"update", "delete"} =>
          c.old = t[c.name] /\ c.old \in 1..Len(objs[c.name])

Due(ca, n) == Len(ca) = 1 /\ ca[1].name = n

IsCalls(objs, kn, t, ca) ==
    /\ ca = <<>> \/ \E c \in {ca[1]} : ca = <<c>> /\ IsCall(objs, kn, t, c)
    /\ \A n \in DOMAIN objs : kn[n] # 0 /\ ~Due(ca, n) => t[n] = kn[n]

KindInv(objs, b, w, f, kn, cu, ca, t) ==
    /\ IsState(objs, b) /\ IsState(objs, kn) /\ IsState(objs, t)
    /\ IsWire(objs, w) /\ Fresh(b, w)
    /\ IsFifo(objs, f)
    /\ IsCur(objs, cu)
    /\ \A n \in DOMAIN objs :
          Awaits(VersionsOf(objs, n), b[n], f.items[n], Pending(cu, n), kn[n])
    /\ IsCalls(objs, kn, t, ca)

OfKind(kind) ==
    KindInv(cluster[kind], base[kind], wire[kind], fifo[kind], known[kind],
            cur[kind], call[kind], told[kind])

OnAllKinds(x) == x = [kind \in AllKinds |-> x[kind]]

InformerInv ==
    /\ cluster \in Clusters
    /\ OnAllKinds(base) /\ OnAllKinds(wire) /\ OnAllKinds(fifo) /\ OnAllKinds(known)
    /\ OnAllKinds(cur) /\ OnAllKinds(call) /\ OnAllKinds(told)
    /\ \A kind \in AllKinds : OfKind(kind)

(* The stores hold versions of the objects, ingMap names Ingresses.        *)
IsCache(c) ==
    /\ c = [stored |-> c.stored, ingMap |-> c.ingMap]
    /\ c.stored = [kind \in AllKinds |-> c.stored[kind]]
    /\ \A kind \in AllKinds : IsState(cluster[kind], c.stored[kind])
    /\ c.ingMap \in [ServiceNames -> {None} \cup IngressNames]

CacheInv == InformerInv /\ IsCache(cache)

-----------------------------------------------------------------------------
(***************************************************************************)
(* What waits for an object.                                               *)
(***************************************************************************)
LEMMA AwaitsSet ==
    ASSUME NEW V, 0 \notin V, NEW x, NEW s, NEW p, NEW k, Awaits(V, x, s, p, k),
           NEW v \in V, NEW r, r = dedupDeltas(Append(s, Delta("Set", v)))
    PROVE  Awaits(V, v, r, p, k) /\ r # <<>>
    <1>1. Delta("Set", v) \in DeltasOf(V) /\ Delta("Set", v).type = "Set"
              /\ Delta("Set", v).obj = v
        BY DEF Delta, DeltasOf
    <1>2. s \in Seq(DeltasOf(V)) /\ Truthful(s, EndsAs(p, k))
        BY DEF Awaits
    <1> HIDE DEF Delta
    <1>3. r \in Seq(DeltasOf(V)) /\ r # <<>>
        BY <1>1, <1>2, Dedup
    <1>4. Truthful(r, EndsAs(p, k)) /\ EndsAs(r, EndsAs(p, k)) = v
        BY <1>1, <1>2, TruthfulAppend
    <1> QED
        BY <1>3, <1>4 DEF Awaits

LEMMA AwaitsDeleted ==
    ASSUME NEW V, 0 \notin V, NEW x \in V, NEW s, NEW p, NEW k, Awaits(V, x, s, p, k),
           NEW r, r = dedupDeltas(Append(s, Delta("Deleted", x)))
    PROVE  Awaits(V, 0, r, p, k) /\ r # <<>>
    <1>1. Delta("Deleted", x) \in DeltasOf(V) /\ Delta("Deleted", x).type = "Deleted"
              /\ Delta("Deleted", x).obj = x
        BY DEF Delta, DeltasOf
    <1>2. s \in Seq(DeltasOf(V)) /\ Truthful(s, EndsAs(p, k)) /\ x = EndsAs(s, EndsAs(p, k))
        BY DEF Awaits
    <1>3. r \in Seq(DeltasOf(V)) /\ r # <<>>
        BY <1>1, <1>2, Dedup
    <1>4. Truthful(r, EndsAs(p, k))
        BY <1>1, <1>2, TruthfulAppend
    <1> QED
        BY <1>3, <1>4 DEF Awaits

LEMMA AwaitsUnknown ==
    ASSUME NEW V, 0 \notin V, NEW x, NEW s, NEW p, NEW k, Awaits(V, x, s, p, k),
           NEW v \in V \cup {0}, NEW r, r = dedupDeltas(Append(s, Delta("Unknown", v)))
    PROVE  Awaits(V, 0, r, p, k) /\ r # <<>>
    <1>1. Delta("Unknown", v) \in DeltasOf(V) /\ Delta("Unknown", v).type = "Unknown"
        BY DEF Delta, DeltasOf
    <1>2. s \in Seq(DeltasOf(V)) /\ Truthful(s, EndsAs(p, k))
        BY DEF Awaits
    <1>3. r \in Seq(DeltasOf(V)) /\ r # <<>>
        BY <1>1, <1>2, Dedup
    <1>4. Truthful(r, EndsAs(p, k))
        BY <1>1, <1>2, TruthfulAppend
    <1> QED
        BY <1>3, <1>4 DEF Awaits

LEMMA AwaitsGone ==
    ASSUME NEW V, NEW x, NEW s, NEW p, NEW k, Awaits(V, x, s, p, k)
    PROVE  Awaits(V, 0, s, p, k)
    BY DEF Awaits

(* The first of the popped deltas is processed.                            *)
LEMMA AwaitsProcess ==
    ASSUME NEW V, 0 \notin V, NEW x, NEW s, NEW p, NEW k, Awaits(V, x, s, p, k),
           Len(p) > 0, NEW u, u = IF p[1].type = "Set" THEN p[1].obj ELSE 0
    PROVE  /\ Awaits(V, x, s, Tail(p), u)
           /\ p[1] \in DeltasOf(V)
           /\ p[1].type = "Deleted" => p[1].obj = k
    <1>1. p \in Seq(DeltasOf(V)) /\ Truthful(p, k)
        BY DEF Awaits
    <1>2. Truthful(Tail(p), u) /\ EndsAs(Tail(p), u) = EndsAs(p, k)
        BY <1>1, TruthfulTail
    <1>3. Tail(p) \in Seq(DeltasOf(V)) /\ p[1] \in DeltasOf(V)
        BY <1>1
    <1> QED
        BY <1>1, <1>2, <1>3 DEF Awaits, Truthful

(* All deltas are popped.                                                  *)
LEMMA AwaitsPop ==
    ASSUME NEW V, NEW x, NEW s, NEW k, Awaits(V, x, s, <<>>, k)
    PROVE  Awaits(V, x, <<>>, s, k)
    <1>1. EndsAs(<<>>, k) = k /\ EndsAs(<<>>, EndsAs(s, k)) = EndsAs(s, k)
        BY DEF EndsAs
    <1>2. Truthful(<<>>, EndsAs(s, k))
        BY DEF Truthful
    <1> QED
        BY <1>1, <1>2 DEF Awaits

(* Pop and Process.                                                        *)
LEMMA PendingTagged ==
    ASSUME NEW V, NEW s \in Seq(DeltasOf(V)), NEW n, NEW m
    PROVE  Pending(Tagged(n, s), m) = IF m = n THEN s ELSE <<>>
    <1>1. Len(s) \in Nat /\ s = [k \in 1..Len(s) |-> s[k]]
        OBVIOUS
    <1>2. Tagged(n, s) = [k \in 1..Len(s) |-> [name |-> n, delta |-> s[k]]]
        BY <1>1 DEF Tagged
    <1>3. Len(Tagged(n, s)) = Len(s)
        BY <1>1, <1>2
    <1>4. \A k \in 1..Len(s) : Tagged(n, s)[k].name = n /\ Tagged(n, s)[k].delta = s[k]
        BY <1>2
    <1>5. CASE Len(s) = 0
        <2>1. s = <<>>
            BY <1>5
        <2> QED
            BY <1>3, <1>5, <2>1 DEF Pending
    <1>6. CASE Len(s) > 0
        <2>1. Tagged(n, s)[1].name = n
            BY <1>1, <1>4, <1>6
        <2>2. CASE m = n
            <3>1. Pending(Tagged(n, s), m) = [k \in 1..Len(s) |-> Tagged(n, s)[k].delta]
                BY <1>3, <1>6, <2>1, <2>2 DEF Pending
            <3>2. Pending(Tagged(n, s), m) = [k \in 1..Len(s) |-> s[k]]
                BY <1>4, <3>1
            <3> QED
                BY <1>1, <2>2, <3>2
        <2>3. CASE m # n
            BY <1>3, <2>1, <2>3 DEF Pending
        <2> QED
            BY <2>2, <2>3
    <1> QED
        BY <1>1, <1>5, <1>6

LEMMA PendingTail ==
    ASSUME NEW objs, NEW cu, IsCur(objs, cu), Len(cu) > 0
    PROVE  /\ IsCur(objs, Tail(cu))
           /\ \A m : Pending(Tail(cu), m) =
                        IF m = cu[1].name THEN Tail(Pending(cu, m)) ELSE <<>>
    <1> DEFINE R == [name : DOMAIN objs, delta : DeltasOf(Nat)]
               t == Tail(cu)
    <1>1. cu \in Seq(R) /\ Len(cu) \in Nat /\ \A k \in 1..Len(cu) : cu[k].name = cu[1].name
        BY DEF IsCur
    <1>2. /\ t \in Seq(R) /\ Len(t) \in Nat /\ Len(t) = Len(cu) - 1
          /\ \A k \in 1..Len(t) : k + 1 \in 1..Len(cu) /\ t[k] = cu[k + 1]
        BY <1>1
    <1> HIDE DEF R, t
    <1>3. \A k \in 1..Len(t) : t[k].name = cu[1].name
        BY <1>1, <1>2
    <1>4. IsCur(objs, t)
        BY <1>2, <1>3 DEF IsCur, R
    <1>5. ASSUME NEW m
          PROVE  Pending(t, m) = IF m = cu[1].name THEN Tail(Pending(cu, m)) ELSE <<>>
        <2>1. CASE m # cu[1].name
            BY <1>2, <1>3, <2>1 DEF Pending
        <2>2. CASE m = cu[1].name
            <3>1. Pending(cu, m) = [k \in 1..Len(cu) |-> cu[k].delta]
                BY <2>2 DEF Pending
            <3>2. Tail(Pending(cu, m)) = [k \in 1..Len(t) |-> t[k].delta]
                BY <1>1, <1>2, <3>1
            <3>3. CASE Len(t) = 0
                <4>1. Tail(Pending(cu, m)) = <<>>
                    BY <3>2, <3>3
                <4> QED
                    BY <2>2, <3>3, <4>1 DEF Pending
            <3>4. CASE Len(t) > 0
                BY <1>2, <1>3, <2>2, <3>2, <3>4 DEF Pending
            <3> QED
                BY <1>2, <3>3, <3>4
        <2> QED
            BY <2>1, <2>2
    <1> QED
        BY <1>4, <1>5 DEF t

-----------------------------------------------------------------------------
(***************************************************************************)
(* The API server and what the reflector has not seen of it.               *)
(***************************************************************************)
LEMMA Least ==
    ASSUME NEW T, T \subseteq Nat, T # {}
    PROVE  \E x \in T : \A y \in T : x <= y
    <1> DEFINE R == {ss \in Nat \X Nat : ss[1] < ss[2]}
    <1>1. R = OpToRel(<, Nat)
        BY Zenon DEF OpToRel
    <1>2. IsWellFoundedOn(R, Nat)
        BY <1>1, NatLessThanWellFounded, Zenon
    <1>3. PICK x \in T : \A y \in T : <<y, x>> \notin R
        <2> HIDE DEF R
        <2> QED
            BY <1>2, WFMin, Zenon
    <1>4. ASSUME NEW y \in T PROVE x <= y
        <2>1. <<y, x>> \notin R
            BY <1>3
        <2>2. ~(y < x)
            BY <2>1
        <2> QED
            BY <2>2
    <1> QED
        BY <1>4

LEMMA Greatest ==
    ASSUME NEW T, NEW n \in Nat, T \subseteq 1..n, T # {}
    PROVE  \E x \in T : \A y \in T : y <= x
    <1> DEFINE M == {n - x : x \in T}
    <1>1. T \subseteq Nat /\ \A x \in T : n - x \in Nat
        OBVIOUS
    <1>2. M \subseteq Nat /\ M # {}
        <2>1. PICK x \in T : TRUE
            OBVIOUS
        <2>2. n - x \in M
            OBVIOUS
        <2> QED
            BY <1>1, <2>2
    <1>3. PICK m \in M : \A y \in M : m <= y
        <2> HIDE DEF M
        <2> QED
            BY <1>2, Least, Zenon
    <1>4. PICK x \in T : m = n - x
        OBVIOUS
    <1>5. ASSUME NEW y \in T PROVE y <= x
        <2>1. n - y \in M
            OBVIOUS
        <2>2. m <= n - y
            BY <1>3, <2>1
        <2> QED
            BY <1>1, <1>4, <2>2
    <1> QED
        BY <1>5

(* After takes the version of the last event of an object.                 *)
LastOf(w, n, k) ==
    /\ k \in 1..Len(w) /\ w[k].name = n
    /\ \A m \in 1..Len(w) : w[m].name = n => m <= k

(* The version a of n is that after the events w, if it was v before.      *)
IsAfter(a, v, w, n) ==
    \/ a = v /\ \A k \in 1..Len(w) : w[k].name # n
    \/ \E k \in 1..Len(w) : LastOf(w, n, k) /\ a = w[k].obj

LEMMA AfterFacts ==
    ASSUME NEW objs, NEW b, IsState(objs, b), NEW w, IsWire(objs, w),
           NEW a, a = After(b, w)
    PROVE  /\ IsState(objs, a)
           /\ \A n \in DOMAIN objs : IsAfter(a[n], b[n], w, n)
    <1>1. DOMAIN b = DOMAIN objs /\ \A n \in DOMAIN objs : b[n] \in 0..Len(objs[n])
        BY DEF IsState
    <1>2. Len(w) \in Nat /\ DOMAIN w = 1..Len(w)
        BY DEF IsWire
    <1>3. ASSUME NEW n \in DOMAIN objs
          PROVE  \/ After(b, w)[n] = b[n] /\ \A k \in 1..Len(w) : w[k].name # n
                 \/ \E k \in 1..Len(w) : LastOf(w, n, k) /\ After(b, w)[n] = w[k].obj
        <2> DEFINE mine == {k \in DOMAIN w : w[k].name = n}
                   last == CHOOSE k \in mine : \A m \in mine : m <= k
        <2>1. After(b, w)[n] = IF mine = {} THEN b[n] ELSE w[last].obj
            BY <1>1 DEF After
        <2>2. CASE mine = {}
            BY <1>2, <2>1, <2>2
        <2>3. CASE mine # {}
            <3>1. mine \subseteq 1..Len(w)
                BY <1>2
            <3>2. \E k \in mine : \A m \in mine : m <= k
                <4> HIDE DEF mine
                <4> QED
                    BY <1>2, <2>3, <3>1, Greatest
            <3>3. last \in mine /\ \A m \in mine : m <= last
                <4> HIDE DEF mine
                <4> QED
                    BY <3>2
            <3> HIDE DEF last
            <3>4. LastOf(w, n, last)
                BY <1>2, <3>3 DEF LastOf
            <3> QED
                BY <1>2, <2>1, <2>3, <3>3, <3>4
        <2> QED
            BY <2>2, <2>3
    <1>4. ASSUME NEW n \in DOMAIN objs
          PROVE  After(b, w)[n] \in 0..Len(objs[n])
        BY <1>1, <1>3 DEF IsWire, LastOf
    <1>5. After(b, w) = [n \in DOMAIN objs |-> After(b, w)[n]]
        BY <1>1 DEF After
    <1> QED
        BY <1>3, <1>4, <1>5 DEF IsState, IsAfter

(* A change.                                                               *)
LEMMA FreshAppend ==
    ASSUME NEW objs, NEW b, IsState(objs, b), NEW w, IsWire(objs, w), Fresh(b, w),
           NEW n \in DOMAIN objs, NEW v \in 0..Len(objs[n]), Len(objs[n]) \in Nat,
           v # After(b, w)[n],
           NEW r, r = Append(w, [name |-> n, obj |-> v])
    PROVE  IsWire(objs, r) /\ Fresh(b, r)
    <1>1. w \in Seq([name : DOMAIN objs, obj : Nat]) /\ Len(w) \in Nat
        BY DEF IsWire
    <1>2. /\ r \in Seq([name : DOMAIN objs, obj : Nat]) /\ Len(r) = Len(w) + 1
          /\ \A k \in 1..Len(w) : r[k] = w[k]
          /\ r[Len(r)].name = n /\ r[Len(r)].obj = v
        BY <1>1
    <1>3. \A k \in 1..Len(r) : k \in 1..Len(w) \/ k = Len(r)
        BY <1>1, <1>2
    <1>4. IsWire(objs, r)
        BY <1>2, <1>3 DEF IsWire
    <1>5. ASSUME NEW k \in 1..Len(r), r[k].obj = 0
          PROVE  /\ (\A j \in 1..(k - 1) : r[j].name # r[k].name) => b[r[k].name] # 0
                 /\ \A j \in 1..(k - 1) : r[j].name = r[k].name /\ r[j].obj = 0 =>
                       \E i \in (j + 1)..(k - 1) : r[i].name = r[k].name
        <2>1. CASE k \in 1..Len(w)
            <3>1. \A j \in 1..(k - 1) : j \in 1..Len(w)
                BY <1>1, <2>1
            <3>2. \A j \in 1..(k - 1) : \A i \in (j + 1)..(k - 1) : i \in 1..Len(w)
                BY <1>1, <2>1
            <3> QED
                BY <1>2, <1>5, <2>1, <3>1, <3>2 DEF Fresh
        <2>2. CASE k = Len(r)
            <3>1. k - 1 = Len(w) /\ r[k].name = n /\ v = 0
                BY <1>1, <1>2, <1>5, <2>2
            <3>2. \/ After(b, w)[n] = b[n] /\ \A j \in 1..Len(w) : w[j].name # n
                  \/ \E j \in 1..Len(w) : LastOf(w, n, j) /\ After(b, w)[n] = w[j].obj
                <4>1. IsAfter(After(b, w)[n], b[n], w, n)
                    BY AfterFacts
                <4> QED
                    BY <4>1 DEF IsAfter
            <3>3. CASE After(b, w)[n] = b[n] /\ \A j \in 1..Len(w) : w[j].name # n
                BY <1>2, <3>1, <3>3
            <3>4. CASE \E j \in 1..Len(w) : LastOf(w, n, j) /\ After(b, w)[n] = w[j].obj
                <4>1. PICK l \in 1..Len(w) : LastOf(w, n, l) /\ After(b, w)[n] = w[l].obj
                    BY <3>4
                <4>2. w[l].name = n /\ w[l].obj # 0
                    BY <3>1, <4>1 DEF LastOf
                <4>3. ASSUME NEW j \in 1..Len(w), w[j].name = n, w[j].obj = 0
                      PROVE  l \in (j + 1)..Len(w)
                    BY <1>1, <4>1, <4>2, <4>3 DEF LastOf
                <4> QED
                    BY <1>2, <3>1, <4>2, <4>3
            <3> QED
                BY <3>2, <3>3, <3>4
        <2> QED
            BY <1>3, <2>1, <2>2
    <1>6. Fresh(b, r)
        BY <1>5 DEF Fresh
    <1> QED
        BY <1>4, <1>6

(* The events up to the m-th are listed, or the first is watched: the      *)
(* reflector goes on with r from a.                                        *)
IsRest(w, m, r) == Len(r) = Len(w) - m /\ \A k \in 1..Len(r) : r[k] = w[k + m]

AfterFirst(objs, b, w, m, a) ==
    \A n \in DOMAIN objs :
        \/ a[n] = b[n] /\ \A k \in 1..m : w[k].name # n
        \/ \E k \in 1..m : /\ w[k].name = n /\ a[n] = w[k].obj
                           /\ \A j \in (k + 1)..m : w[j].name # n

LEMMA FreshRest ==
    ASSUME NEW objs, NEW b, NEW w, IsWire(objs, w), Fresh(b, w),
           NEW m \in 0..Len(w), NEW r, IsWire(objs, r), IsRest(w, m, r),
           NEW a, AfterFirst(objs, b, w, m, a)
    PROVE  Fresh(a, r)
    <1>1. /\ Len(w) \in Nat /\ Len(r) \in Nat /\ m \in Nat
          /\ Len(r) = Len(w) - m /\ \A k \in 1..Len(r) : r[k] = w[k + m]
        BY DEF IsWire, IsRest
    <1>2. ASSUME NEW k \in 1..Len(r), r[k].obj = 0
          PROVE  /\ (\A j \in 1..(k - 1) : r[j].name # r[k].name) => a[r[k].name] # 0
                 /\ \A j \in 1..(k - 1) : r[j].name = r[k].name /\ r[j].obj = 0 =>
                       \E i \in (j + 1)..(k - 1) : r[i].name = r[k].name
        <2>1. /\ k + m \in 1..Len(w) /\ r[k] = w[k + m]
              /\ \A j \in 1..(k - 1) : j + m \in 1..((k + m) - 1) /\ r[j] = w[j + m]
            BY <1>1
        <2>2. /\ (\A j \in 1..((k + m) - 1) : w[j].name # r[k].name) => b[r[k].name] # 0
              /\ \A j \in 1..((k + m) - 1) : w[j].name = r[k].name /\ w[j].obj = 0 =>
                       \E i \in (j + 1)..((k + m) - 1) : w[i].name = r[k].name
            <3>1. PICK e \in 1..Len(w) : e = k + m
                BY <2>1
            <3>2. w[e].obj = 0 /\ w[e].name = r[k].name
                BY <1>2, <2>1, <3>1
            <3>3. /\ (\A j \in 1..(e - 1) : w[j].name # w[e].name) => b[w[e].name] # 0
                  /\ \A j \in 1..(e - 1) : w[j].name = w[e].name /\ w[j].obj = 0 =>
                       \E i \in (j + 1)..(e - 1) : w[i].name = w[e].name
                BY <3>2 DEF Fresh
            <3> QED
                BY <3>1, <3>2, <3>3
        <2>3. r[k].name \in DOMAIN objs
            <3>1. r \in Seq([name : DOMAIN objs, obj : Nat])
                BY DEF IsWire
            <3>2. r[k] \in [name : DOMAIN objs, obj : Nat]
                BY <3>1, ElementOfSeq
            <3> QED
                BY <3>2
        <2>4. \A i \in 1..((k + m) - 1) :
                 i \in 1..m \/ (i - m \in 1..(k - 1) /\ r[i - m] = w[i])
            BY <1>1
        <2>5. ASSUME \A j \in 1..(k - 1) : r[j].name # r[k].name
              PROVE  a[r[k].name] # 0
            <3>1. \A i \in 1..((k + m) - 1) : w[i].name = r[k].name => i \in 1..m
                BY <2>4, <2>5
            <3>2. CASE /\ a[r[k].name] = b[r[k].name]
                       /\ \A l \in 1..m : w[l].name # r[k].name
                BY <2>2, <3>1, <3>2
            <3>3. CASE \E l \in 1..m :
                          /\ w[l].name = r[k].name /\ a[r[k].name] = w[l].obj
                          /\ \A j \in (l + 1)..m : w[j].name # r[k].name
                <4>1. PICK l \in 1..m :
                          /\ w[l].name = r[k].name /\ a[r[k].name] = w[l].obj
                          /\ \A j \in (l + 1)..m : w[j].name # r[k].name
                    BY <3>3
                <4>2. l \in 1..((k + m) - 1)
                    BY <1>1
                <4>3. ASSUME NEW i \in (l + 1)..((k + m) - 1), w[i].name = r[k].name
                      PROVE  FALSE
                    <5>1. i \in 1..((k + m) - 1)
                        BY <1>1
                    <5>2. i \in 1..m
                        BY <3>1, <4>3, <5>1
                    <5>3. i \in (l + 1)..m
                        BY <1>1, <5>2
                    <5> QED
                        BY <4>1, <4>3, <5>3
                <4> QED
                    BY <2>2, <4>1, <4>2, <4>3
            <3> QED
                BY <2>3, <3>2, <3>3 DEF AfterFirst
        <2>6. ASSUME NEW j \in 1..(k - 1), r[j].name = r[k].name, r[j].obj = 0
              PROVE  \E i \in (j + 1)..(k - 1) : r[i].name = r[k].name
            <3>1. PICK i \in ((j + m) + 1)..((k + m) - 1) : w[i].name = r[k].name
                BY <2>1, <2>2, <2>6
            <3>2. i - m \in (j + 1)..(k - 1) /\ i \in 1..((k + m) - 1) /\ i \notin 1..m
                BY <1>1
            <3>3. r[i - m] = w[i]
                BY <2>4, <3>2
            <3> QED
                BY <3>1, <3>2, <3>3
        <2> QED
            BY <2>5, <2>6
    <1> QED
        BY <1>2 DEF Fresh

-----------------------------------------------------------------------------
(***************************************************************************)
(* The operations of the DeltaFIFO.                                        *)
(***************************************************************************)
LEMMA FifoQueue ==
    ASSUME NEW objs, NEW f, IsFifo(objs, f), NEW n \in DOMAIN objs, NEW d,
           NEW r, r = dedupDeltas(Append(f.items[n], d)), r # <<>>,
           NEW g, g = queueAction(f, n, d)
    PROVE  /\ IsFifo(objs, g)
           /\ g.items[n] = r
           /\ \A m \in DOMAIN objs \ {n} : g.items[m] = f.items[m]
    <1>1. /\ f.queue \in Seq(DOMAIN objs) /\ EachOnce(f.queue)
          /\ f.items = [m \in DOMAIN objs |-> f.items[m]]
          /\ \A m \in DOMAIN objs : f.items[m] # <<>> <=> Listed(f.queue, m)
        BY DEF IsFifo
    <1>2. /\ g.queue = IF f.items[n] = <<>> THEN Append(f.queue, n) ELSE f.queue
          /\ g.items = [f.items EXCEPT ![n] = r]
        BY DEF queueAction
    <1>3. /\ g.items = [m \in DOMAIN objs |-> g.items[m]]
          /\ g.items[n] = r
          /\ \A m \in DOMAIN objs \ {n} : g.items[m] = f.items[m]
        BY <1>1, <1>2
    <1>4. /\ g.queue \in Seq(DOMAIN objs) /\ EachOnce(g.queue)
          /\ \A m \in DOMAIN objs : Listed(g.queue, m) <=> Listed(f.queue, m) \/ m = n
        <2>1. CASE f.items[n] = <<>>
            <3>1. g.queue = Append(f.queue, n) /\ ~Listed(f.queue, n)
                BY <1>1, <1>2, <2>1
            <3> QED
                BY <1>1, <3>1, Enqueue
        <2>2. CASE f.items[n] # <<>>
            BY <1>1, <1>2, <2>2
        <2> QED
            BY <2>1, <2>2
    <1>5. \A m \in DOMAIN objs : g.items[m] # <<>> <=> Listed(g.queue, m)
        BY <1>1, <1>3, <1>4
    <1> QED
        BY <1>3, <1>4, <1>5 DEF IsFifo

(* What Replace makes of the deltas of a key.                              *)
RelistedItem(s, k, o, v) ==
    IF v # 0 THEN dedupDeltas(Append(s, Delta("Set", v)))
    ELSE IF k # 0 THEN dedupDeltas(Append(s, Delta("Unknown", o)))
    ELSE s

LEMMA FifoReplace ==
    ASSUME NEW objs, IsFiniteSet(DOMAIN objs), NEW f, IsFifo(objs, f), NEW kn,
           NEW o, NEW list, DOMAIN list = DOMAIN objs, NEW g \in Replaced(f, kn, o, list),
           \A n \in DOMAIN objs : list[n] # 0 \/ kn[n] # 0 =>
              RelistedItem(f.items[n], kn[n], o[n], list[n]) # <<>>
    PROVE  /\ IsFifo(objs, g)
           /\ \A n \in DOMAIN objs :
                 g.items[n] = RelistedItem(f.items[n], kn[n], o[n], list[n])
    <1> DEFINE A == {n \in DOMAIN list : f.items[n] = <<>>}
                      \cap {n \in DOMAIN list : list[n] # 0}
               B == {n \in DOMAIN list : f.items[n] = <<>>}
                      \cap {n \in DOMAIN list : list[n] = 0 /\ kn[n] # 0}
               listed == {n \in DOMAIN list : list[n] # 0}
               gone == {n \in DOMAIN list : list[n] = 0 /\ kn[n] # 0}
               delta(n) == IF n \in listed THEN Delta("Set", list[n])
                           ELSE Delta("Unknown", o[n])
               items == [n \in DOMAIN list |->
                            IF n \in listed \cup gone
                            THEN dedupDeltas(Append(f.items[n], delta(n)))
                            ELSE f.items[n]]
    <1>1. /\ f.queue \in Seq(DOMAIN objs) /\ EachOnce(f.queue)
          /\ \A m \in DOMAIN objs : f.items[m] # <<>> <=> Listed(f.queue, m)
        BY DEF IsFifo
    <1>0. Replaced(f, kn, o, list) =
             {[queue |-> (f.queue \o x[1]) \o x[2], items |-> items] :
                 x \in Orders(A) \X Orders(B)}
        BY Zenon DEF Replaced
    <1>2. PICK p \in Orders(A), q \in Orders(B) :
              g.queue = (f.queue \o p) \o q /\ g.items = items
        <2> HIDE DEF A, B, items
        <2>1. PICK x \in Orders(A) \X Orders(B) :
                 g = [queue |-> (f.queue \o x[1]) \o x[2], items |-> items]
            BY <1>0
        <2>2. /\ x[1] \in Orders(A) /\ x[2] \in Orders(B)
              /\ g.queue = (f.queue \o x[1]) \o x[2] /\ g.items = items
            BY <2>1
        <2> QED
            BY <2>2, Zenon
    <1>3. /\ g.items = [n \in DOMAIN objs |-> g.items[n]]
          /\ \A n \in DOMAIN objs :
                 g.items[n] = RelistedItem(f.items[n], kn[n], o[n], list[n])
        BY <1>2 DEF RelistedItem
    <1>4. /\ A \subseteq DOMAIN objs /\ B \subseteq DOMAIN objs
          /\ IsFiniteSet(A) /\ IsFiniteSet(B)
          /\ \A n \in A : f.items[n] = <<>> /\ list[n] # 0
          /\ \A n \in B : f.items[n] = <<>> /\ list[n] = 0 /\ kn[n] # 0
          /\ \A n \in DOMAIN objs : f.items[n] = <<>> /\ (list[n] # 0 \/ kn[n] # 0) =>
                 n \in A \/ n \in B
        BY FS_Subset
    <1> HIDE DEF A, B, items
    <1>5. /\ p \in Seq(DOMAIN objs) /\ EachOnce(p) /\ \A y : Listed(p, y) <=> y \in A
          /\ q \in Seq(DOMAIN objs) /\ EachOnce(q) /\ \A y : Listed(q, y) <=> y \in B
        <2>1. p \in Seq(A) /\ EachOnce(p) /\ \A y : Listed(p, y) <=> y \in A
            BY <1>4, OrdersFacts
        <2>2. q \in Seq(B) /\ EachOnce(q) /\ \A y : Listed(q, y) <=> y \in B
            BY <1>4, OrdersFacts
        <2> QED
            BY <1>4, <2>1, <2>2
    <1>6. /\ f.queue \o p \in Seq(DOMAIN objs)
          /\ EachOnce(f.queue \o p)
          /\ \A y : Listed(f.queue \o p, y) <=> Listed(f.queue, y) \/ y \in A
        <2>1. \A y : ~(Listed(f.queue, y) /\ Listed(p, y))
            BY <1>1, <1>4, <1>5
        <2>2. \A y : Listed(f.queue \o p, y) <=> Listed(f.queue, y) \/ Listed(p, y)
            BY <1>1, <1>5, <2>1, Concat
        <2>3. f.queue \o p \in Seq(DOMAIN objs) /\ EachOnce(f.queue \o p)
            BY <1>1, <1>5, <2>1, Concat
        <2> QED
            BY <1>5, <2>2, <2>3
    <1>7. /\ g.queue \in Seq(DOMAIN objs)
          /\ EachOnce(g.queue)
          /\ \A y : Listed(g.queue, y) <=> Listed(f.queue, y) \/ y \in A \/ y \in B
        <2>1. PICK h : h = f.queue \o p
            OBVIOUS
        <2>2. /\ h \in Seq(DOMAIN objs) /\ EachOnce(h)
              /\ \A y : Listed(h, y) <=> Listed(f.queue, y) \/ y \in A
            BY <1>6, <2>1
        <2>3. \A y : ~(Listed(h, y) /\ Listed(q, y))
            BY <1>1, <1>4, <1>5, <2>2
        <2>4. \A y : Listed(h \o q, y) <=> Listed(h, y) \/ Listed(q, y)
            BY <1>5, <2>2, <2>3, Concat
        <2>5. h \o q \in Seq(DOMAIN objs) /\ EachOnce(h \o q)
            BY <1>5, <2>2, <2>3, Concat
        <2>6. g.queue = h \o q
            BY <1>2, <2>1
        <2> QED
            BY <1>5, <2>2, <2>4, <2>5, <2>6
    <1>8. ASSUME NEW n \in DOMAIN objs
          PROVE  g.items[n] # <<>> <=> Listed(g.queue, n)
        BY <1>1, <1>3, <1>4, <1>7 DEF RelistedItem
    <1> QED
        BY <1>3, <1>7, <1>8 DEF IsFifo

(* The first of the queue f is n, and g is what is left without it.        *)
IsPopped(objs, f, n, g) ==
    /\ n \in DOMAIN objs /\ f.items[n] # <<>>
    /\ IsFifo(objs, g)
    /\ g.items[n] = <<>>
    /\ \A m \in DOMAIN objs \ {n} : g.items[m] = f.items[m]

LEMMA FifoPop ==
    ASSUME NEW objs, NEW f, IsFifo(objs, f), f.queue # <<>>,
           NEW n, n = Head(f.queue), NEW g, g = AfterPop(f)
    PROVE  IsPopped(objs, f, n, g)
    <1>1. /\ f.queue \in Seq(DOMAIN objs) /\ EachOnce(f.queue)
          /\ f.items = [m \in DOMAIN objs |-> f.items[m]]
          /\ \A m \in DOMAIN objs : f.items[m] # <<>> <=> Listed(f.queue, m)
        BY DEF IsFifo
    <1>2. n \in DOMAIN objs /\ Listed(f.queue, n)
        BY <1>1 DEF Listed
    <1>3. /\ EachOnce(Tail(f.queue)) /\ Tail(f.queue) \in Seq(DOMAIN objs)
          /\ \A y : Listed(Tail(f.queue), y) <=> Listed(f.queue, y) /\ y # n
        <2>1. \A y : Listed(Tail(f.queue), y) <=> Listed(f.queue, y) /\ y # Head(f.queue)
            BY <1>1, Dequeue
        <2>2. EachOnce(Tail(f.queue))
            BY <1>1, Dequeue
        <2>3. Tail(f.queue) \in Seq(DOMAIN objs)
            BY <1>1, HeadTailProperties
        <2> QED
            BY <2>1, <2>2, <2>3, Zenon
    <1>4. g.queue = Tail(f.queue) /\ g.items = [f.items EXCEPT ![n] = <<>>]
        BY DEF AfterPop
    <1>5. /\ g.items = [m \in DOMAIN objs |-> g.items[m]]
          /\ g.items[n] = <<>>
          /\ \A m \in DOMAIN objs \ {n} : g.items[m] = f.items[m]
        BY <1>1, <1>2, <1>4
    <1>6. \A m \in DOMAIN objs : g.items[m] # <<>> <=> Listed(g.queue, m)
        BY <1>1, <1>3, <1>4, <1>5
    <1> QED
        BY <1>1, <1>2, <1>3, <1>4, <1>5, <1>6 DEF IsFifo, IsPopped

-----------------------------------------------------------------------------
(***************************************************************************)
(* The steps of one kind.                                                  *)
(***************************************************************************)
IsObjs(objs) ==
    /\ IsFiniteSet(DOMAIN objs)
    /\ \A n \in DOMAIN objs : Len(objs[n]) \in Nat

LEMMA KindChange ==
    ASSUME NEW objs, IsObjs(objs), NEW b, NEW w, NEW f, NEW kn, NEW cu, NEW ca, NEW t,
           KindInv(objs, b, w, f, kn, cu, ca, t),
           NEW n \in DOMAIN objs, NEW v \in 0..Len(objs[n]), v # After(b, w)[n],
           NEW r, r = Append(w, [name |-> n, obj |-> v])
    PROVE  KindInv(objs, b, r, f, kn, cu, ca, t)
    <1>1. IsState(objs, b) /\ IsWire(objs, w) /\ Fresh(b, w) /\ Len(objs[n]) \in Nat
        BY DEF KindInv, IsObjs
    <1>2. IsWire(objs, r) /\ Fresh(b, r)
        BY <1>1, FreshAppend
    <1> QED
        BY <1>2 DEF KindInv

(* A step of the reflector: it changes b, w and f.                         *)
LEMMA KindReflect ==
    ASSUME NEW objs, NEW b, NEW w, NEW f, NEW kn, NEW cu, NEW ca, NEW t,
           KindInv(objs, b, w, f, kn, cu, ca, t),
           NEW a, NEW r, NEW g, IsState(objs, a), IsWire(objs, r), Fresh(a, r),
           IsFifo(objs, g),
           \A n \in DOMAIN objs :
              Awaits(VersionsOf(objs, n), a[n], g.items[n], Pending(cu, n), kn[n])
    PROVE  KindInv(objs, a, r, g, kn, cu, ca, t)
    BY DEF KindInv

(* Watch: a, r and g are what it makes of b, w and f.                      *)
Watched(b, w, f, kn, n, v, a, r, g) ==
    /\ w # <<>> /\ n = Head(w).name /\ v = Head(w).obj
    /\ a = [b EXCEPT ![n] = v]
    /\ r = Tail(w)
    /\ g = IF v # 0 THEN Set(f, n, v) ELSE Delete(f, kn, n, b[n])

LEMMA KindWatch ==
    ASSUME NEW objs, IsObjs(objs), NEW b, NEW w, NEW f, NEW kn, NEW cu, NEW ca, NEW t,
           KindInv(objs, b, w, f, kn, cu, ca, t),
           NEW n, NEW v, NEW a, NEW r, NEW g, Watched(b, w, f, kn, n, v, a, r, g)
    PROVE  KindInv(objs, a, r, g, kn, cu, ca, t)
    <1>0. /\ w # <<>> /\ n = Head(w).name /\ v = Head(w).obj
          /\ a = [b EXCEPT ![n] = v]
          /\ r = Tail(w)
          /\ g = IF v # 0 THEN Set(f, n, v) ELSE Delete(f, kn, n, b[n])
        BY DEF Watched
    <1>1. IsState(objs, b) /\ IsState(objs, kn) /\ IsWire(objs, w) /\ Fresh(b, w)
              /\ IsFifo(objs, f)
        BY DEF KindInv
    <1>2. w \in Seq([name : DOMAIN objs, obj : Nat]) /\ Len(w) \in Nat \ {0}
        BY <1>0, <1>1 DEF IsWire
    <1>3. w[1].name = n /\ w[1].obj = v /\ n \in DOMAIN objs /\ Len(objs[n]) \in Nat
              /\ v \in 0..Len(objs[n])
        <2>1. 1 \in 1..Len(w) /\ Head(w) = w[1]
            BY <1>2
        <2>2. w[1] \in [name : DOMAIN objs, obj : Nat]
            BY <1>2, <2>1, ElementOfSeq
        <2> QED
            BY <1>0, <1>1, <2>1, <2>2 DEF IsWire, IsObjs
    <1>4. IsState(objs, a) /\ a[n] = v /\ \A m \in DOMAIN objs \ {n} : a[m] = b[m]
        BY <1>0, <1>1, <1>3 DEF IsState
    <1>5. /\ r \in Seq([name : DOMAIN objs, obj : Nat])
          /\ Len(r) = Len(w) - 1 /\ Len(r) \in Nat
          /\ \A k \in 1..Len(r) : k + 1 \in 1..Len(w) /\ r[k] = w[k + 1]
        BY <1>0, <1>2
    <1>6. IsWire(objs, r)
        BY <1>1, <1>5 DEF IsWire
    <1>7. Fresh(a, r)
        <2>1. ASSUME NEW m \in DOMAIN objs
              PROVE  \/ a[m] = b[m] /\ \A k \in 1..1 : w[k].name # m
                     \/ \E k \in 1..1 : /\ w[k].name = m /\ a[m] = w[k].obj
                                        /\ \A j \in (k + 1)..1 : w[j].name # m
            <3>1. CASE m = n
                <4>1. 1 \in 1..1 /\ (1 + 1)..1 = {}
                    OBVIOUS
                <4> QED
                    BY <1>3, <1>4, <3>1, <4>1
            <3>2. CASE m # n
                BY <1>3, <1>4, <3>2
            <3> QED
                BY <3>1, <3>2
        <2>2. 1 \in 0..Len(w) /\ IsRest(w, 1, r)
            BY <1>2, <1>5 DEF IsRest
        <2>3. AfterFirst(objs, b, w, 1, a)
            BY <2>1 DEF AfterFirst
        <2> QED
            BY <1>1, <1>6, <2>2, <2>3, FreshRest
    <1>8. \A m \in DOMAIN objs :
             Awaits(VersionsOf(objs, m), b[m], f.items[m], Pending(cu, m), kn[m])
        BY DEF KindInv
    <1>9. 0 \notin VersionsOf(objs, n)
        BY <1>3 DEF VersionsOf
    <1>10. /\ IsFifo(objs, g)
           /\ Awaits(VersionsOf(objs, n), v, g.items[n], Pending(cu, n), kn[n])
           /\ \A m \in DOMAIN objs \ {n} : g.items[m] = f.items[m]
        <2>1. CASE v # 0
            <3>1. v \in VersionsOf(objs, n)
                BY <1>3, <2>1 DEF VersionsOf
            <3>2. PICK s : s = dedupDeltas(Append(f.items[n], Delta("Set", v)))
                OBVIOUS
            <3>3. Awaits(VersionsOf(objs, n), v, s, Pending(cu, n), kn[n]) /\ s # <<>>
                BY <1>3, <1>8, <1>9, <3>1, <3>2, AwaitsSet
            <3>4. g = queueAction(f, n, Delta("Set", v))
                BY <1>0, <2>1 DEF Set
            <3> QED
                BY <1>1, <1>3, <3>2, <3>3, <3>4, FifoQueue
        <2>2. CASE v = 0 /\ kn[n] = 0
            <3>1. g = f
                BY <1>0, <2>2 DEF Delete
            <3> QED
                BY <1>1, <1>3, <1>8, <2>2, <3>1, AwaitsGone
        <2>3. CASE v = 0 /\ kn[n] # 0
            <3>1. b[n] # 0
                <4>1. 1 \in 1..Len(w) /\ 1..(1 - 1) = {}
                    BY <1>2
                <4> QED
                    BY <1>1, <1>3, <2>3, <4>1 DEF Fresh
            <3>2. b[n] \in VersionsOf(objs, n)
                BY <1>1, <1>3, <3>1 DEF IsState, VersionsOf
            <3>3. PICK s : s = dedupDeltas(Append(f.items[n], Delta("Deleted", b[n])))
                OBVIOUS
            <3>4. Awaits(VersionsOf(objs, n), 0, s, Pending(cu, n), kn[n]) /\ s # <<>>
                BY <1>3, <1>8, <1>9, <3>2, <3>3, AwaitsDeleted
            <3>5. g = queueAction(f, n, Delta("Deleted", b[n]))
                BY <1>0, <2>3 DEF Delete
            <3> QED
                BY <1>1, <1>3, <2>3, <3>3, <3>4, <3>5, FifoQueue
        <2> QED
            BY <2>1, <2>2, <2>3
    <1>11. ASSUME NEW m \in DOMAIN objs
           PROVE  Awaits(VersionsOf(objs, m), a[m], g.items[m], Pending(cu, m), kn[m])
        <2>1. CASE m = n
            BY <1>4, <1>10, <2>1
        <2>2. CASE m # n
            BY <1>4, <1>8, <1>10, <2>2
        <2> QED
            BY <2>1, <2>2
    <1>12. \A m \in DOMAIN objs :
             Awaits(VersionsOf(objs, m), a[m], g.items[m], Pending(cu, m), kn[m])
        BY <1>11
    <1>13. IsState(objs, a) /\ IsFifo(objs, g)
        BY <1>4, <1>10
    <1> QED
        BY <1>6, <1>7, <1>12, <1>13 DEF KindInv

LEMMA KindRelist ==
    ASSUME NEW objs, IsObjs(objs), NEW b, NEW w, NEW f, NEW kn, NEW cu, NEW ca, NEW t,
           KindInv(objs, b, w, f, kn, cu, ca, t), NEW m \in 0..Len(w),
           NEW list, list = After(b, SubSeq(w, 1, m)),
           NEW r, r = SubSeq(w, m + 1, Len(w)),
           NEW o, \A n \in DOMAIN objs : o[n] \in 0..Len(objs[n]),
           NEW g \in Replaced(f, kn, o, list)
    PROVE  KindInv(objs, list, r, g, kn, cu, ca, t)
    <1>1. IsState(objs, b) /\ IsState(objs, kn) /\ IsWire(objs, w) /\ Fresh(b, w)
              /\ IsFifo(objs, f)
        BY DEF KindInv
    <1> DEFINE E == [name : DOMAIN objs, obj : Nat]
    <1>2. w \in Seq(E) /\ Len(w) \in Nat /\ m \in Nat /\ m <= Len(w)
              /\ \A k \in 1..Len(w) : w[k].obj \in 0..Len(objs[w[k].name])
        BY <1>1 DEF IsWire
    <1> HIDE DEF E
    <1>3. PICK h : h = SubSeq(w, 1, m)
        OBVIOUS
    <1>4. /\ h \in Seq(E) /\ Len(h) = m
          /\ \A k \in 1..m : k \in 1..Len(w) /\ h[k] = w[k]
        <2>1. \A k \in 1..m : k \in 1..Len(w) /\ w[k] \in E
            BY <1>2
        <2>2. h \in Seq(E) /\ Len(h) = m
            BY <1>2, <1>3, <2>1, SubSeqProperties
        <2>3. \A k \in 1..m : h[k] = w[k]
            BY <1>2, <1>3, <2>1, SubSeqProperties
        <2> QED
            BY <2>1, <2>2, <2>3
    <1>5. IsWire(objs, h)
        BY <1>2, <1>4 DEF IsWire, E
    <1>6. /\ r \in Seq(E) /\ Len(r) = Len(w) - m
          /\ \A k \in 1..Len(r) : k + m \in 1..Len(w) /\ r[k] = w[k + m]
        <2>1. \A k \in (m + 1)..Len(w) : w[k] \in E
            BY <1>2
        <2>2. r \in Seq(E) /\ Len(r) = Len(w) - m
            BY <1>2, <2>1, SubSeqProperties
        <2>3. \A k \in 1..(Len(w) - m) : r[k] = w[(m + 1) + k - 1]
            BY <1>2, <2>1, SubSeqProperties
        <2>4. \A k \in 1..(Len(w) - m) :
                 k + m \in 1..Len(w) /\ (m + 1) + k - 1 = k + m
            BY <1>2
        <2> QED
            BY <2>2, <2>3, <2>4
    <1>7. IsWire(objs, r)
        BY <1>2, <1>6 DEF IsWire, E
    <1>8. IsState(objs, list) /\ \A n \in DOMAIN objs : IsAfter(list[n], b[n], h, n)
        <2>1. list = After(b, h)
            BY <1>3
        <2> QED
            BY <1>1, <1>5, <2>1, AfterFacts
    <1>9. Fresh(list, r)
        <2>1. ASSUME NEW n \in DOMAIN objs
              PROVE  \/ list[n] = b[n] /\ \A k \in 1..m : w[k].name # n
                     \/ \E k \in 1..m : /\ w[k].name = n /\ list[n] = w[k].obj
                                        /\ \A j \in (k + 1)..m : w[j].name # n
            <3>1. CASE list[n] = b[n] /\ \A k \in 1..Len(h) : h[k].name # n
                BY <1>4, <3>1
            <3>2. CASE \E k \in 1..Len(h) : LastOf(h, n, k) /\ list[n] = h[k].obj
                <4>1. PICK k \in 1..m : LastOf(h, n, k) /\ list[n] = h[k].obj
                    BY <1>4, <3>2
                <4>2. w[k].name = n /\ list[n] = w[k].obj
                    BY <1>4, <4>1 DEF LastOf
                <4>3. \A j \in (k + 1)..m : j \in 1..m /\ ~(j <= k)
                    BY <1>2
                <4>4. \A j \in (k + 1)..m : w[j].name # n
                    BY <1>4, <4>1, <4>3 DEF LastOf
                <4> QED
                    BY <4>2, <4>4
            <3> QED
                BY <1>8, <3>1, <3>2 DEF IsAfter
        <2> QED
            <3>1. AfterFirst(objs, b, w, m, list) /\ IsRest(w, m, r)
                BY <1>6, <2>1 DEF AfterFirst, IsRest
            <3> QED
                BY <1>1, <1>7, <3>1, FreshRest
    <1>10. ASSUME NEW n \in DOMAIN objs
           PROVE  /\ Awaits(VersionsOf(objs, n), list[n],
                           RelistedItem(f.items[n], kn[n], o[n], list[n]), Pending(cu, n), kn[n])
                  /\ list[n] # 0 \/ kn[n] # 0 =>
                        RelistedItem(f.items[n], kn[n], o[n], list[n]) # <<>>
        <2>1. /\ list[n] \in 0..Len(objs[n]) /\ kn[n] \in 0..Len(objs[n])
              /\ Len(objs[n]) \in Nat /\ 0 \notin VersionsOf(objs, n)
            BY <1>1, <1>8 DEF IsState, IsObjs, VersionsOf
        <2>2. Awaits(VersionsOf(objs, n), b[n], f.items[n], Pending(cu, n), kn[n])
            BY DEF KindInv
        <2>3. CASE list[n] # 0
            <3>1. list[n] \in VersionsOf(objs, n)
                BY <2>1, <2>3 DEF VersionsOf
            <3>2. RelistedItem(f.items[n], kn[n], o[n], list[n]) =
                     dedupDeltas(Append(f.items[n], Delta("Set", list[n])))
                BY <2>3 DEF RelistedItem
            <3> QED
                BY <2>1, <2>2, <3>1, <3>2, AwaitsSet
        <2>4. CASE list[n] = 0 /\ kn[n] # 0
            <3>1. o[n] \in VersionsOf(objs, n) \cup {0}
                BY <2>1 DEF VersionsOf
            <3>2. RelistedItem(f.items[n], kn[n], o[n], list[n]) =
                     dedupDeltas(Append(f.items[n], Delta("Unknown", o[n])))
                BY <2>4 DEF RelistedItem
            <3> QED
                BY <2>1, <2>2, <2>4, <3>1, <3>2, AwaitsUnknown
        <2>5. CASE list[n] = 0 /\ kn[n] = 0
            <3>1. RelistedItem(f.items[n], kn[n], o[n], list[n]) = f.items[n]
                BY <2>5 DEF RelistedItem
            <3> QED
                BY <2>2, <2>5, <3>1, AwaitsGone
        <2> QED
            BY <2>3, <2>4, <2>5
    <1>11. DOMAIN list = DOMAIN objs /\ IsFiniteSet(DOMAIN objs)
        BY <1>8 DEF IsState, IsObjs
    <1>12. IsFifo(objs, g) /\ \A n \in DOMAIN objs :
                 g.items[n] = RelistedItem(f.items[n], kn[n], o[n], list[n])
        BY <1>1, <1>10, <1>11, FifoReplace
    <1>13. \A n \in DOMAIN objs :
             Awaits(VersionsOf(objs, n), list[n], g.items[n], Pending(cu, n), kn[n])
        BY <1>10, <1>12
    <1> QED
        BY <1>7, <1>8, <1>9, <1>12, <1>13, KindReflect

(* Process: todo is what was popped before, or what is popped now, and h   *)
(* the queue then; n is the key, c the call for the first delta, u the     *)
(* client state after it and r the deltas that are left.                   *)
ToDo(f, cu, todo, h) ==
    \/ cu # <<>> /\ todo = cu /\ h = f
    \/ /\ cu = <<>> /\ f.queue # <<>>
       /\ todo = Tagged(Head(f.queue), Popped(f)) /\ h = AfterPop(f)

Processed(kn, todo, n, c, u, r) ==
    /\ n = Head(todo).name /\ c = CallOf(kn, n, Head(todo).delta)
    /\ u = UpdateState(kn, n, c) /\ r = Tail(todo)

LEMMA KindProcess ==
    ASSUME NEW objs, IsObjs(objs), NEW b, NEW w, NEW f, NEW kn, NEW cu, NEW t,
           KindInv(objs, b, w, f, kn, cu, <<>>, t),
           NEW todo, NEW h, ToDo(f, cu, todo, h),
           NEW n, NEW c, NEW u, NEW r, Processed(kn, todo, n, c, u, r),
           NEW one, one = <<c>>
    PROVE  KindInv(objs, b, w, h, u, r, one, t)
    <1>0. /\ n = Head(todo).name /\ c = CallOf(kn, n, Head(todo).delta)
          /\ u = UpdateState(kn, n, c) /\ r = Tail(todo)
        BY DEF Processed
    <1>1. /\ IsState(objs, b) /\ IsState(objs, kn) /\ IsState(objs, t)
          /\ IsFifo(objs, f) /\ IsCur(objs, cu)
        BY DEF KindInv
    <1>2. \A m \in DOMAIN objs :
             Awaits(VersionsOf(objs, m), b[m], f.items[m], Pending(cu, m), kn[m])
        BY DEF KindInv
    <1>3. /\ IsFifo(objs, h) /\ IsCur(objs, todo) /\ Len(todo) > 0
          /\ \A m \in DOMAIN objs :
                Awaits(VersionsOf(objs, m), b[m], h.items[m], Pending(todo, m), kn[m])
        <2>1. CASE cu # <<>> /\ todo = cu /\ h = f
            <3>1. Len(cu) > 0
                BY <1>1, <2>1 DEF IsCur
            <3> QED
                BY <1>1, <1>2, <2>1, <3>1
        <2>2. CASE /\ cu = <<>> /\ f.queue # <<>>
                   /\ todo = Tagged(Head(f.queue), Popped(f)) /\ h = AfterPop(f)
            <3>1. PICK x : x = Head(f.queue)
                OBVIOUS
            <3>2. PICK s : s = f.items[x]
                OBVIOUS
            <3>3. /\ x \in DOMAIN objs /\ s # <<>>
                  /\ IsFifo(objs, h)
                  /\ h.items[x] = <<>>
                  /\ \A m \in DOMAIN objs \ {x} : h.items[m] = f.items[m]
                <4>1. IsPopped(objs, f, x, h)
                    BY <1>1, <2>2, <3>1, FifoPop
                <4> QED
                    BY <3>2, <4>1 DEF IsPopped
            <3>4. todo = Tagged(x, s)
                BY <2>2, <3>1, <3>2 DEF Popped
            <3>5. \A m : Pending(cu, m) = <<>>
                BY <2>2 DEF Pending
            <3>6. Awaits(VersionsOf(objs, x), b[x], s, <<>>, kn[x])
                BY <1>2, <3>2, <3>3, <3>5
            <3>7. s \in Seq(DeltasOf(VersionsOf(objs, x)))
                BY <3>6 DEF Awaits
            <3>8. Pending(todo, x) = s /\ \A m : m # x => Pending(todo, m) = <<>>
                BY <3>4, <3>7, PendingTagged
            <3>9. ASSUME NEW m \in DOMAIN objs
                  PROVE  Awaits(VersionsOf(objs, m), b[m], h.items[m], Pending(todo, m), kn[m])
                <4>1. CASE m = x
                    BY <3>3, <3>6, <3>8, <4>1, AwaitsPop
                <4>2. CASE m # x
                    BY <1>2, <3>3, <3>5, <3>8, <4>2
                <4> QED
                    BY <4>1, <4>2
            <3>10. IsCur(objs, todo) /\ Len(todo) > 0
                <4>1. /\ Len(s) \in Nat /\ DOMAIN s = 1..Len(s) /\ Len(s) > 0
                      /\ \A k \in 1..Len(s) : s[k] \in DeltasOf(VersionsOf(objs, x))
                    BY <3>3, <3>7
                <4>2. todo = [k \in 1..Len(s) |-> [name |-> x, delta |-> s[k]]]
                    BY <3>4, <4>1 DEF Tagged
                <4>3. Len(objs[x]) \in Nat
                    BY <3>3 DEF IsObjs
                <4>4. \A k \in 1..Len(s) : s[k] \in DeltasOf(Nat)
                    BY <4>1, <4>3 DEF DeltasOf, VersionsOf
                <4>5. todo \in Seq([name : DOMAIN objs, delta : DeltasOf(Nat)])
                          /\ Len(todo) = Len(s)
                    BY <3>3, <4>1, <4>2, <4>4
                <4>6. \A k \in 1..Len(todo) : todo[k].name = todo[1].name
                    BY <4>1, <4>2, <4>5
                <4> QED
                    BY <4>1, <4>5, <4>6 DEF IsCur
            <3> QED
                BY <3>3, <3>9, <3>10
        <2> QED
            BY <2>1, <2>2 DEF ToDo
    <1>4. /\ todo \in Seq([name : DOMAIN objs, delta : DeltasOf(Nat)])
          /\ Len(todo) \in Nat /\ 1 \in 1..Len(todo) /\ Head(todo) = todo[1]
        BY <1>3 DEF IsCur
    <1>5. n = todo[1].name /\ n \in DOMAIN objs
        <2>1. todo[1] \in [name : DOMAIN objs, delta : DeltasOf(Nat)]
            BY <1>4, ElementOfSeq
        <2> QED
            BY <1>0, <1>4, <2>1
    <1>6. PICK d : d = todo[1].delta
        OBVIOUS
    <1>7. PICK p : p = Pending(todo, n)
        OBVIOUS
    <1>8. Len(p) > 0 /\ p[1] = d
        BY <1>3, <1>4, <1>5, <1>6, <1>7 DEF Pending
    <1>9. c = CallOf(kn, n, d)
        BY <1>0, <1>4, <1>6
    <1>10. PICK x : x = IF d.type = "Set" THEN d.obj ELSE 0
        OBVIOUS
    <1>11. /\ Len(objs[n]) \in Nat /\ 0 \notin VersionsOf(objs, n)
           /\ kn[n] \in 0..Len(objs[n]) /\ kn = [m \in DOMAIN objs |-> kn[m]]
           /\ \A m \in DOMAIN objs : kn[m] \in 0..Len(objs[m])
        BY <1>1, <1>5 DEF IsObjs, VersionsOf, IsState
    <1>12. /\ Awaits(VersionsOf(objs, n), b[n], h.items[n], Tail(p), x)
           /\ d \in DeltasOf(VersionsOf(objs, n))
           /\ d.type = "Deleted" => d.obj = kn[n]
        BY <1>3, <1>5, <1>7, <1>8, <1>10, <1>11, AwaitsProcess
    <1>13. /\ d.type \in {"Set", "Deleted", "Unknown"}
           /\ d.type # "Unknown" => d.obj # 0
           /\ x \in 0..Len(objs[n])
        <2>1. /\ d.type \in {"Set", "Deleted", "Unknown"}
              /\ d.type # "Unknown" => d.obj \in 1..Len(objs[n])
            BY <1>12 DEF DeltasOf, VersionsOf
        <2> QED
            BY <1>10, <1>11, <2>1
    <1>14. /\ c.name = n /\ c.new = x
           /\ c.event \in {"add", "update", "delete", "unknown"}
           /\ c.new # 0 <=> c.event \in {"add", "update"}
           /\ c.event \in {"update", "delete"} => c.old = kn[n] /\ kn[n] # 0
        <2>1. CASE d.type = "Set"
            BY <1>9, <1>10, <1>13, <2>1 DEF CallOf
        <2>2. CASE d.type # "Set"
            BY <1>9, <1>10, <1>12, <1>13, <2>2 DEF CallOf
        <2> QED
            BY <2>1, <2>2
    <1>15. u = [kn EXCEPT ![n] = x]
        BY <1>0, <1>14 DEF UpdateState
    <1>16. /\ u[n] = x /\ \A m \in DOMAIN objs \ {n} : u[m] = kn[m]
           /\ u = [m \in DOMAIN objs |-> u[m]]
        BY <1>5, <1>11, <1>15
    <1>17. IsState(objs, u)
        BY <1>11, <1>13, <1>16 DEF IsState
    <1>18. IsCur(objs, r) /\ Pending(r, n) = Tail(p)
               /\ \A m : m # n => Pending(r, m) = <<>> /\ Pending(todo, m) = <<>>
        <2>1. IsCur(objs, r)
            BY <1>0, <1>3, PendingTail
        <2>2. \A m : Pending(r, m) = IF m = todo[1].name THEN Tail(Pending(todo, m)) ELSE <<>>
            BY <1>0, <1>3, PendingTail
        <2>3. \A m : m # n => Pending(todo, m) = <<>>
            BY <1>5 DEF Pending
        <2> QED
            BY <1>5, <1>7, <2>1, <2>2, <2>3
    <1>19. ASSUME NEW m \in DOMAIN objs
           PROVE  Awaits(VersionsOf(objs, m), b[m], h.items[m], Pending(r, m), u[m])
        <2>1. CASE m = n
            BY <1>12, <1>16, <1>18, <2>1
        <2>2. CASE m # n
            BY <1>3, <1>16, <1>18, <2>2
        <2> QED
            BY <2>1, <2>2
    <1>20. \A m \in DOMAIN objs :
              Awaits(VersionsOf(objs, m), b[m], h.items[m], Pending(r, m), u[m])
        BY <1>19
    <1>21. \A m \in DOMAIN objs : kn[m] # 0 => t[m] = kn[m]
        BY DEF KindInv, IsCalls, Due
    <1>22. IsCall(objs, u, t, c)
        BY <1>5, <1>11, <1>14, <1>16, <1>21 DEF IsCall
    <1>23. IsCalls(objs, u, t, <<c>>)
        <2>1. Len(<<c>>) = 1 /\ <<c>>[1] = c
            OBVIOUS
        <2>2. \A m \in DOMAIN objs : u[m] # 0 /\ ~Due(<<c>>, m) => t[m] = u[m]
            BY <1>14, <1>16, <1>21, <2>1 DEF Due
        <2> QED
            BY <1>22, <2>1, <2>2 DEF IsCalls
    <1> QED
        BY <1>1, <1>3, <1>17, <1>18, <1>20, <1>23 DEF KindInv

(* The callback is made.                                                   *)
LEMMA KindTell ==
    ASSUME NEW objs, NEW b, NEW w, NEW f, NEW kn, NEW cu, NEW ca, NEW t,
           KindInv(objs, b, w, f, kn, cu, ca, t), NEW c, ca = <<c>>,
           NEW u, u = IF logCallback(c) THEN [t EXCEPT ![c.name] = c.new] ELSE t
    PROVE  KindInv(objs, b, w, f, kn, cu, <<>>, u) /\ IsCall(objs, kn, t, c)
    <1>1. IsCalls(objs, kn, t, ca) /\ IsState(objs, kn) /\ IsState(objs, t)
        BY DEF KindInv
    <1>2. ca # <<>> /\ ca[1] = c /\ Len(ca) = 1 /\ Len(<<>>) = 0
        OBVIOUS
    <1>3. IsCall(objs, kn, t, c)
        BY <1>1, <1>2 DEF IsCalls
    <1>4. \A m \in DOMAIN objs : kn[m] # 0 /\ m # c.name => t[m] = kn[m]
        BY <1>1, <1>2 DEF IsCalls, Due
    <1>5. CASE logCallback(c)
        <2>1. u = [t EXCEPT ![c.name] = c.new] /\ c.new = kn[c.name] /\ c.name \in DOMAIN objs
            BY <1>3, <1>5 DEF IsCall
        <2>2. /\ u[c.name] = kn[c.name] /\ \A m \in DOMAIN objs \ {c.name} : u[m] = t[m]
              /\ u = [m \in DOMAIN objs |-> u[m]]
            BY <1>1, <2>1 DEF IsState
        <2>3. IsState(objs, u)
            BY <1>1, <2>1, <2>2 DEF IsState
        <2>4. \A m \in DOMAIN objs : kn[m] # 0 => u[m] = kn[m]
            BY <1>4, <2>2
        <2>5. IsCalls(objs, kn, u, <<>>)
            BY <2>4 DEF IsCalls
        <2> QED
            BY <1>3, <2>3, <2>5 DEF KindInv
    <1>6. CASE ~logCallback(c)
        <2>1. u = t /\ c.new = kn[c.name] /\ c.event = "unknown"
            BY <1>3, <1>6 DEF IsCall, logCallback
        <2>2. kn[c.name] = 0
            BY <1>3, <2>1 DEF IsCall
        <2>3. \A m \in DOMAIN objs : kn[m] # 0 => t[m] = kn[m]
            BY <1>4, <2>2
        <2>4. IsCalls(objs, kn, t, <<>>)
            BY <2>3 DEF IsCalls
        <2> QED
            BY <1>3, <2>1, <2>4 DEF KindInv
    <1> QED
        BY <1>5, <1>6

-----------------------------------------------------------------------------
(***************************************************************************)
(* The steps of the informers.                                             *)
(***************************************************************************)
LEMMA ClusterFacts ==
    ASSUME cluster \in Clusters
    PROVE  /\ Kinds = AllKinds
           /\ \A kind \in AllKinds : IsObjs(cluster[kind])
           /\ \A kind \in AllKinds : \A n \in DOMAIN cluster[kind] :
                 \A v \in 1..Len(cluster[kind][n]) : cluster[kind][n][v].name = n
    BY ClustersAssumption DEF Kinds, IsObjs

LEMMA KindInit ==
    ASSUME NEW objs, IsObjs(objs), NEW z, z = [n \in DOMAIN objs |-> 0],
           NEW f, f = NewDeltaFIFO(DOMAIN objs)
    PROVE  KindInv(objs, z, <<>>, f, z, <<>>, <<>>, z)
    <1>1. IsState(objs, z)
        BY DEF IsState, IsObjs
    <1>2. IsWire(objs, <<>>) /\ Fresh(z, <<>>) /\ IsCur(objs, <<>>)
        BY DEF IsWire, Fresh, IsCur
    <1>3. f.queue = <<>> /\ f.items = [n \in DOMAIN objs |-> <<>>]
        BY DEF NewDeltaFIFO
    <1>4. EachOnce(<<>>) /\ \A n : ~Listed(<<>>, n)
        BY DEF EachOnce, Listed
    <1>5. IsFifo(objs, f)
        <2>1. f.queue \in Seq(DOMAIN objs) /\ EachOnce(f.queue)
            <3>1. <<>> \in Seq(DOMAIN objs)
                OBVIOUS
            <3> QED
                BY <1>3, <1>4, <3>1, Zenon
        <2>2. \A n \in DOMAIN objs : f.items[n] = <<>> /\ ~Listed(f.queue, n)
            BY <1>3, <1>4
        <2>3. f.items = [n \in DOMAIN objs |-> f.items[n]]
            BY <1>3
        <2> QED
            BY <2>1, <2>2, <2>3 DEF IsFifo
    <1>6. ASSUME NEW n \in DOMAIN objs
          PROVE  Awaits(VersionsOf(objs, n), z[n], f.items[n], Pending(<<>>, n), z[n])
        <2>1. Pending(<<>>, n) = <<>> /\ z[n] = 0 /\ f.items[n] = <<>>
            BY <1>3 DEF Pending
        <2>2. \A k : Truthful(<<>>, k)
            BY DEF Truthful
        <2>3. <<>> \in Seq(DeltasOf(VersionsOf(objs, n)))
            OBVIOUS
        <2>4. Awaits(VersionsOf(objs, n), 0, <<>>, <<>>, 0)
            BY <2>2, <2>3 DEF Awaits
        <2> QED
            BY <2>1, <2>4
    <1>7. IsCalls(objs, z, z, <<>>)
        BY DEF IsCalls
    <1> QED
        BY <1>1, <1>2, <1>5, <1>6, <1>7 DEF KindInv

LEMMA InformerStarts == ControllersInit => InformerInv
    <1> SUFFICES ASSUME ControllersInit PROVE InformerInv
        OBVIOUS
    <1>1. cluster \in Clusters
        BY DEF ControllersInit, InformerInit
    <1>2. Kinds = AllKinds /\ \A kind \in AllKinds : IsObjs(cluster[kind])
        BY <1>1, ClusterFacts
    <1>3. /\ base = [kind \in AllKinds |-> [n \in DOMAIN cluster[kind] |-> 0]]
          /\ wire = [kind \in AllKinds |-> <<>>]
          /\ fifo = [kind \in AllKinds |-> NewDeltaFIFO(DOMAIN cluster[kind])]
          /\ known = base /\ told = base
          /\ cur = [kind \in AllKinds |-> <<>>]
          /\ call = [kind \in AllKinds |-> <<>>]
        BY <1>2 DEF ControllersInit, InformerInit
    <1>4. ASSUME NEW kind \in AllKinds PROVE OfKind(kind)
        <2>1. PICK z : z = [n \in DOMAIN cluster[kind] |-> 0]
            OBVIOUS
        <2>2. /\ base[kind] = z /\ known[kind] = z /\ told[kind] = z
              /\ wire[kind] = <<>> /\ cur[kind] = <<>> /\ call[kind] = <<>>
              /\ fifo[kind] = NewDeltaFIFO(DOMAIN cluster[kind])
            BY <1>3, <2>1
        <2>3. KindInv(cluster[kind], z, <<>>, NewDeltaFIFO(DOMAIN cluster[kind]), z,
                      <<>>, <<>>, z)
            BY <1>2, <2>1, KindInit
        <2> QED
            BY <2>2, <2>3 DEF OfKind
    <1>5. /\ OnAllKinds(base) /\ OnAllKinds(wire) /\ OnAllKinds(fifo) /\ OnAllKinds(known)
          /\ OnAllKinds(cur) /\ OnAllKinds(call) /\ OnAllKinds(told)
        BY <1>3 DEF OnAllKinds
    <1> QED
        BY <1>1, <1>4, <1>5 DEF InformerInv

(* A step of one kind leaves the others alone.                             *)
ChangesOnly(kind) ==
    /\ cluster' = cluster
    /\ \A other \in AllKinds \ {kind} :
          /\ base'[other] = base[other] /\ wire'[other] = wire[other]
          /\ fifo'[other] = fifo[other] /\ known'[other] = known[other]
          /\ cur'[other] = cur[other] /\ call'[other] = call[other]
          /\ told'[other] = told[other]
    /\ OnAllKinds(base)' /\ OnAllKinds(wire)' /\ OnAllKinds(fifo)' /\ OnAllKinds(known)'
    /\ OnAllKinds(cur)' /\ OnAllKinds(call)' /\ OnAllKinds(told)'

LEMMA OneKind ==
    ASSUME InformerInv, NEW kind \in AllKinds, ChangesOnly(kind), OfKind(kind)'
    PROVE  InformerInv'
    <1>1. ASSUME NEW other \in AllKinds PROVE OfKind(other)'
        <2>1. CASE other = kind
            BY <2>1
        <2>2. CASE other # kind
            <3>1. OfKind(other)
                BY DEF InformerInv
            <3> QED
                BY <2>2, <3>1 DEF ChangesOnly, OfKind
        <2> QED
            BY <2>1, <2>2
    <1> QED
        BY <1>1 DEF InformerInv, ChangesOnly

LEMMA ChangeStep ==
    ASSUME InformerInv, NEW kind \in AllKinds, NEW n \in DOMAIN cluster[kind],
           NEW v \in Versions(kind, n), Change(kind, n, v), UNCHANGED told
    PROVE  InformerInv'
    <1>1. /\ Kinds = AllKinds /\ IsObjs(cluster[kind])
          /\ OfKind(kind)
        BY ClusterFacts DEF InformerInv
    <1>2. v \in 0..Len(cluster[kind][n]) /\ v # After(base[kind], wire[kind])[n]
        BY <1>1 DEF Versions, Change, server
    <1>3. PICK r : r = Append(wire[kind], [name |-> n, obj |-> v])
        OBVIOUS
    <1>4. /\ wire' = [wire EXCEPT ![kind] = r] /\ cluster' = cluster /\ base' = base
          /\ fifo' = fifo /\ known' = known /\ cur' = cur /\ call' = call /\ told' = told
        BY <1>3 DEF Change
    <1>5. KindInv(cluster[kind], base[kind], r, fifo[kind], known[kind], cur[kind],
                  call[kind], told[kind])
        BY <1>1, <1>2, <1>3, KindChange DEF OfKind
    <1>6. ChangesOnly(kind) /\ wire'[kind] = r
        BY <1>4 DEF ChangesOnly, InformerInv, OnAllKinds
    <1>7. OfKind(kind)'
        BY <1>4, <1>5, <1>6 DEF OfKind
    <1> QED
        BY <1>6, <1>7, OneKind

LEMMA WatchStep ==
    ASSUME InformerInv, NEW kind \in AllKinds, Watch(kind), UNCHANGED told
    PROVE  InformerInv'
    <1>1. IsObjs(cluster[kind]) /\ OfKind(kind)
        BY ClusterFacts DEF InformerInv
    <1>2. PICK n, v, r, a, g :
             Watched(base[kind], wire[kind], fifo[kind], known[kind], n, v, a, r, g)
        BY DEF Watched, Watch
    <1>3. /\ base' = [base EXCEPT ![kind] = a] /\ wire' = [wire EXCEPT ![kind] = r]
          /\ fifo' = [fifo EXCEPT ![kind] = g] /\ cluster' = cluster
          /\ known' = known /\ cur' = cur /\ call' = call /\ told' = told
          /\ wire[kind] # <<>>
        BY <1>2 DEF Watched, Watch, InformerInv, OnAllKinds
    <1>4. KindInv(cluster[kind], a, r, g, known[kind], cur[kind], call[kind], told[kind])
        BY <1>1, <1>2, <1>3, KindWatch DEF OfKind
    <1>5. ChangesOnly(kind) /\ base'[kind] = a /\ wire'[kind] = r /\ fifo'[kind] = g
        BY <1>3 DEF ChangesOnly, InformerInv, OnAllKinds
    <1>6. OfKind(kind)'
        BY <1>3, <1>4, <1>5 DEF OfKind
    <1> QED
        BY <1>5, <1>6, OneKind

(* A delta that was popped is one of its object.                           *)
LEMMA CurDelta ==
    ASSUME NEW kind \in AllKinds, OfKind(kind), NEW k \in DOMAIN cur[kind]
    PROVE  \E n \in DOMAIN cluster[kind] :
              /\ n = cur[kind][k].name
              /\ cur[kind][k].delta \in DeltasOf(VersionsOf(cluster[kind], n))
    <1>1. PICK cu : cu = cur[kind]
        OBVIOUS
    <1>2. IsCur(cluster[kind], cu)
        BY <1>1 DEF OfKind, KindInv
    <1>3. /\ cu \in Seq([name : DOMAIN cluster[kind], delta : DeltasOf(Nat)])
          /\ Len(cu) \in Nat /\ k \in 1..Len(cu)
        BY <1>1, <1>2 DEF IsCur
    <1>4. PICK n \in DOMAIN cluster[kind] : n = cu[k].name
        <2>1. cu[k] \in [name : DOMAIN cluster[kind], delta : DeltasOf(Nat)]
            BY <1>3, ElementOfSeq
        <2> QED
            BY <2>1
    <1>5. Len(cu) > 0 /\ cu[1].name = n
        BY <1>2, <1>3, <1>4 DEF IsCur
    <1>6. Pending(cu, n) = [m \in 1..Len(cu) |-> cu[m].delta]
        BY <1>5 DEF Pending
    <1>7. Pending(cu, n) \in Seq(DeltasOf(VersionsOf(cluster[kind], n)))
        BY <1>1 DEF OfKind, KindInv, Awaits
    <1>8. PICK s \in Seq(DeltasOf(VersionsOf(cluster[kind], n))) :
             s = [m \in 1..Len(cu) |-> cu[m].delta]
        BY <1>6, <1>7
    <1>9. DOMAIN s = 1..Len(cu) /\ s[k] = cu[k].delta
        BY <1>3, <1>8
    <1>10. s[k] \in DeltasOf(VersionsOf(cluster[kind], n))
        BY <1>3, <1>9
    <1> QED
        BY <1>1, <1>4, <1>9, <1>10

(* What Replace finds of an object, however late, is a version of it.      *)
LEMMA FoundVersions ==
    ASSUME NEW kind \in AllKinds, IsObjs(cluster[kind]), OfKind(kind),
           NEW o \in FoundLater(kind)
    PROVE  \A n \in DOMAIN cluster[kind] : o[n] \in 0..Len(cluster[kind][n])
    <1>1. \A n \in DOMAIN cluster[kind] : known[kind][n] \in 0..Len(cluster[kind][n])
        BY DEF OfKind, KindInv, IsState
    <1>2. CASE o = known[kind]
        BY <1>1, <1>2
    <1>3. CASE \E k \in DOMAIN cur[kind] :
                 o = [known[kind] EXCEPT ![cur[kind][k].name] =
                        IF cur[kind][k].delta.type = "Set" THEN cur[kind][k].delta.obj ELSE 0]
        <2>1. PICK k \in DOMAIN cur[kind] :
                 o = [known[kind] EXCEPT ![cur[kind][k].name] =
                        IF cur[kind][k].delta.type = "Set" THEN cur[kind][k].delta.obj ELSE 0]
            BY <1>3
        <2>2. PICK n \in DOMAIN cluster[kind] :
                 /\ n = cur[kind][k].name
                 /\ cur[kind][k].delta \in DeltasOf(VersionsOf(cluster[kind], n))
            BY CurDelta
        <2>3. PICK v : v = IF cur[kind][k].delta.type = "Set" THEN cur[kind][k].delta.obj ELSE 0
            OBVIOUS
        <2>4. v \in 0..Len(cluster[kind][n])
            BY <2>2, <2>3 DEF DeltasOf, VersionsOf, IsObjs
        <2>5. o = [known[kind] EXCEPT ![n] = v]
            BY <2>1, <2>2, <2>3
        <2>6. \A m \in DOMAIN cluster[kind] : o[m] = IF m = n THEN v ELSE known[kind][m]
            BY <2>5 DEF OfKind, KindInv, IsState
        <2> QED
            BY <1>1, <2>4, <2>6
    <1> QED
        BY <1>2, <1>3 DEF FoundLater

LEMMA RelistStep ==
    ASSUME InformerInv, NEW kind \in AllKinds, NEW m \in 0..Len(wire[kind]),
           Relist(kind, m), UNCHANGED told
    PROVE  InformerInv'
    <1>1. IsObjs(cluster[kind]) /\ OfKind(kind)
        BY ClusterFacts DEF InformerInv
    <1>2. PICK list, r : /\ list = After(base[kind], SubSeq(wire[kind], 1, m))
                         /\ r = SubSeq(wire[kind], m + 1, Len(wire[kind]))
        OBVIOUS
    <1>3. PICK o \in FoundLater(kind) :
             \E g \in Replaced(fifo[kind], known[kind], o, list) :
                fifo' = [fifo EXCEPT ![kind] = g]
        BY <1>2 DEF Relist
    <1>3a. PICK g \in Replaced(fifo[kind], known[kind], o, list) :
              fifo' = [fifo EXCEPT ![kind] = g]
        BY <1>3
    <1>3b. \A n \in DOMAIN cluster[kind] : o[n] \in 0..Len(cluster[kind][n])
        BY <1>1, FoundVersions
    <1>4. /\ base' = [base EXCEPT ![kind] = list] /\ wire' = [wire EXCEPT ![kind] = r]
          /\ cluster' = cluster
          /\ known' = known /\ cur' = cur /\ call' = call /\ told' = told
        BY <1>2 DEF Relist, InformerInv, OnAllKinds
    <1>5. KindInv(cluster[kind], list, r, g, known[kind], cur[kind], call[kind], told[kind])
        BY <1>1, <1>2, <1>3b, KindRelist DEF OfKind
    <1>6. ChangesOnly(kind) /\ base'[kind] = list /\ wire'[kind] = r /\ fifo'[kind] = g
        BY <1>3a, <1>4 DEF ChangesOnly, InformerInv, OnAllKinds
    <1>7. OfKind(kind)'
        BY <1>4, <1>5, <1>6 DEF OfKind
    <1> QED
        BY <1>6, <1>7, OneKind

LEMMA ProcessStep ==
    ASSUME InformerInv, NEW kind \in AllKinds, Process(kind), UNCHANGED told
    PROVE  InformerInv'
    <1>1. IsObjs(cluster[kind]) /\ OfKind(kind)
        BY ClusterFacts DEF InformerInv
    <1>2. cur[kind] # <<>> \/ fifo[kind].queue # <<>>
        BY DEF Process
    <1>3. PICK todo, h : ToDo(fifo[kind], cur[kind], todo, h)
        BY <1>2 DEF ToDo
    <1>4. PICK n, c, u, r : Processed(known[kind], todo, n, c, u, r)
        BY DEF Processed
    <1>5. /\ todo = IF cur[kind] # <<>> THEN cur[kind]
                    ELSE Tagged(Head(fifo[kind].queue), Popped(fifo[kind]))
          /\ h = IF cur[kind] # <<>> THEN fifo[kind] ELSE AfterPop(fifo[kind])
        BY <1>3 DEF ToDo
    <1>6. /\ fifo' = [fifo EXCEPT ![kind] = h] /\ cur' = [cur EXCEPT ![kind] = r]
          /\ call' = [call EXCEPT ![kind] = <<c>>] /\ known' = [known EXCEPT ![kind] = u]
          /\ cluster' = cluster /\ base' = base /\ wire' = wire /\ told' = told
          /\ call[kind] = <<>>
        BY <1>4, <1>5 DEF Process, Processed
    <1>7. KindInv(cluster[kind], base[kind], wire[kind], h, u, r, <<c>>, told[kind])
        <2>1. KindInv(cluster[kind], base[kind], wire[kind], fifo[kind], known[kind],
                      cur[kind], <<>>, told[kind])
            BY <1>1, <1>6 DEF OfKind
        <2> QED
            BY <1>1, <1>3, <1>4, <2>1, KindProcess
    <1>8. /\ ChangesOnly(kind) /\ fifo'[kind] = h /\ cur'[kind] = r
          /\ call'[kind] = <<c>> /\ known'[kind] = u
        BY <1>6 DEF ChangesOnly, InformerInv, OnAllKinds
    <1>9. OfKind(kind)'
        BY <1>6, <1>7, <1>8 DEF OfKind
    <1> QED
        BY <1>8, <1>9, OneKind

LEMMA TellStep ==
    ASSUME InformerInv, NEW kind \in AllKinds, NEW c, Tell(kind, c)
    PROVE  InformerInv' /\ IsCall(cluster[kind], known[kind], told[kind], c)
    <1>1. OfKind(kind)
        BY DEF InformerInv
    <1>2. PICK u : u = IF logCallback(c) THEN [told[kind] EXCEPT ![c.name] = c.new]
                       ELSE told[kind]
        OBVIOUS
    <1>3. /\ call' = [call EXCEPT ![kind] = <<>>] /\ told' = [told EXCEPT ![kind] = u]
          /\ cluster' = cluster /\ base' = base /\ wire' = wire /\ fifo' = fifo
          /\ known' = known /\ cur' = cur /\ call[kind] = <<c>>
        BY <1>2 DEF Tell, Called, InformerInv, OnAllKinds
    <1>4. /\ KindInv(cluster[kind], base[kind], wire[kind], fifo[kind], known[kind],
                     cur[kind], <<>>, u)
          /\ IsCall(cluster[kind], known[kind], told[kind], c)
        BY <1>1, <1>2, <1>3, KindTell DEF OfKind
    <1>5. ChangesOnly(kind) /\ call'[kind] = <<>> /\ told'[kind] = u
        BY <1>3 DEF ChangesOnly, InformerInv, OnAllKinds
    <1>6. OfKind(kind)'
        BY <1>3, <1>4, <1>5 DEF OfKind
    <1> QED
        BY <1>4, <1>5, <1>6, OneKind

-----------------------------------------------------------------------------
(***************************************************************************)
(* The cache.                                                              *)
(***************************************************************************)
(* What the API server answers: versions of the objects.                   *)
IsAnswers(answers) == \A kind \in AllKinds : IsState(cluster[kind], answers[kind])

LEMMA ServerFacts ==
    ASSUME InformerInv
    PROVE  /\ DOMAIN server = AllKinds /\ IsAnswers(server)
           /\ \A answers \in Answers : IsAnswers(answers)
    <1>1. Kinds = AllKinds
        BY ClusterFacts DEF InformerInv
    <1>2. server = [kind \in AllKinds |-> After(base[kind], wire[kind])]
        BY <1>1 DEF server
    <1>3. ASSUME NEW kind \in AllKinds PROVE IsState(cluster[kind], server[kind])
        <2>1. IsState(cluster[kind], base[kind]) /\ IsWire(cluster[kind], wire[kind])
            BY DEF InformerInv, OfKind, KindInv
        <2>2. server[kind] = After(base[kind], wire[kind])
            BY <1>2
        <2> QED
            BY <2>1, <2>2, AfterFacts
    <1>4. IsAnswers(server)
        BY <1>3 DEF IsAnswers
    <1>5. ASSUME NEW answers \in Answers PROVE IsAnswers(answers)
        <2>1. CASE Reliable
            BY <1>4, <1>5, <2>1 DEF Answers
        <2>2. CASE ~Reliable
            <3>1. PICK up : answers =
                     [kind \in AllKinds |-> [n \in DOMAIN server[kind] |->
                         IF <<kind, n>> \in up THEN server[kind][n] ELSE 0]]
                BY <1>1, <1>5, <2>2 DEF Answers
            <3>2. ASSUME NEW kind \in AllKinds
                  PROVE  IsState(cluster[kind], answers[kind])
                <4>1. /\ IsState(cluster[kind], server[kind]) /\ IsObjs(cluster[kind])
                      /\ DOMAIN server[kind] = DOMAIN cluster[kind]
                    BY <1>3, ClusterFacts DEF InformerInv, IsState
                <4>2. answers[kind] = [n \in DOMAIN cluster[kind] |->
                          IF <<kind, n>> \in up THEN server[kind][n] ELSE 0]
                    BY <3>1, <4>1
                <4>3. ASSUME NEW n \in DOMAIN cluster[kind]
                      PROVE  answers[kind][n] \in 0..Len(cluster[kind][n])
                    <5>1. answers[kind][n] \in {server[kind][n], 0}
                        BY <4>2
                    <5>2. server[kind][n] \in 0..Len(cluster[kind][n])
                              /\ Len(cluster[kind][n]) \in Nat
                        BY <4>1 DEF IsState, IsObjs
                    <5> QED
                        BY <5>1, <5>2
                <4>4. answers[kind] = [n \in DOMAIN cluster[kind] |-> answers[kind][n]]
                    BY <4>2
                <4> QED
                    BY <4>3, <4>4 DEF IsState
            <3> QED
                BY <3>2 DEF IsAnswers
        <2> QED
            BY <2>1, <2>2
    <1> QED
        BY <1>2, <1>4, <1>5

(* A store takes a version of an object of its kind.                       *)
LEMMA FoundFacts ==
    ASSUME InformerInv, NEW c, IsCache(c), NEW answers, IsAnswers(answers),
           NEW kind \in AllKinds, NEW n \in DOMAIN cluster[kind]
    PROVE  Found(c, kind, n, answers) \in 0..Len(cluster[kind][n])
    BY DEF Found, IsCache, IsAnswers, IsState

LEMMA FetchFacts ==
    ASSUME InformerInv, NEW c, IsCache(c), NEW answers, IsAnswers(answers), NEW keys
    PROVE  /\ IsCache(Fetch(c, keys, answers))
           /\ Fetch(c, keys, answers).ingMap = c.ingMap
    <1>1. Kinds = AllKinds
        BY ClusterFacts DEF InformerInv
    <1>2. PICK s : s = [kind \in AllKinds |-> [n \in DOMAIN c.stored[kind] |->
                    IF <<kind, n>> \in keys THEN Found(c, kind, n, answers)
                    ELSE c.stored[kind][n]]]
        OBVIOUS
    <1>3. PICK d : d = Fetch(c, keys, answers)
        OBVIOUS
    <1>4. d = [stored |-> s, ingMap |-> c.ingMap]
        BY <1>1, <1>2, <1>3 DEF Fetch, IsCache
    <1>5. d.stored = s /\ d.ingMap = c.ingMap
        BY <1>4
    <1>6. ASSUME NEW kind \in AllKinds PROVE IsState(cluster[kind], s[kind])
        <2>1. IsState(cluster[kind], c.stored[kind])
            BY DEF IsCache
        <2>2. s[kind] = [n \in DOMAIN cluster[kind] |->
                    IF <<kind, n>> \in keys THEN Found(c, kind, n, answers)
                    ELSE c.stored[kind][n]]
            BY <1>2, <2>1 DEF IsState
        <2>3. \A n \in DOMAIN cluster[kind] :
                 Found(c, kind, n, answers) \in 0..Len(cluster[kind][n])
            BY FoundFacts
        <2> QED
            BY <2>1, <2>2, <2>3 DEF IsState
    <1>7. s = [kind \in AllKinds |-> s[kind]]
        BY <1>2
    <1>8. c.ingMap \in [ServiceNames -> {None} \cup IngressNames]
        BY DEF IsCache
    <1>9. IsCache(d)
        BY <1>4, <1>5, <1>6, <1>7, <1>8 DEF IsCache
    <1> QED
        BY <1>3, <1>5, <1>9

LEMMA FetchIngressFacts ==
    ASSUME InformerInv, NEW c, IsCache(c), NEW answers, IsAnswers(answers),
           NEW n
    PROVE  IsCache(FetchIngress(c, n, answers))
    <1>1. CASE AskedVersion(c, n, answers) = 0
        BY <1>1 DEF FetchIngress
    <1>2. CASE AskedVersion(c, n, answers) # 0
        <2>1. n \in DOMAIN cluster["Ingress"]
            BY <1>2 DEF AskedVersion, IngressNames
        <2>2. PICK s : s = [c.stored["Ingress"] EXCEPT ![n] = answers["Ingress"][n]]
            OBVIOUS
        <2>3. PICK d : d = FetchIngress(c, n, answers)
            OBVIOUS
        <2>4. d = [stored |-> [c.stored EXCEPT !["Ingress"] = s], ingMap |-> c.ingMap]
            BY <1>2, <2>2, <2>3 DEF FetchIngress, IsCache, AllKinds
        <2>5. d.stored = [c.stored EXCEPT !["Ingress"] = s] /\ d.ingMap = c.ingMap
            BY <2>4
        <2>6. IsState(cluster["Ingress"], c.stored["Ingress"])
                  /\ IsState(cluster["Ingress"], answers["Ingress"])
            BY DEF IsCache, IsAnswers, AllKinds
        <2>7. IsState(cluster["Ingress"], s)
            BY <2>1, <2>2, <2>6 DEF IsState
        <2>8. /\ d.stored = [kind \in AllKinds |-> d.stored[kind]]
              /\ d.stored["Ingress"] = s
              /\ \A kind \in AllKinds \ {"Ingress"} : d.stored[kind] = c.stored[kind]
            BY <2>5 DEF IsCache, AllKinds
        <2>9. \A kind \in AllKinds : IsState(cluster[kind], d.stored[kind])
            BY <2>7, <2>8 DEF IsCache
        <2>10. IsCache(d)
            BY <2>4, <2>5, <2>8, <2>9 DEF IsCache
        <2> QED
            BY <2>3, <2>10
    <1> QED
        BY <1>1, <1>2

LEMMA GenFacts ==
    ASSUME InformerInv, NEW c, IsCache(c), NEW answers, IsAnswers(answers),
           NEW kind \in AllKinds, NEW n \in DOMAIN cluster[kind],
           NEW v \in 1..Len(cluster[kind][n])
    PROVE  IsCache(Gen(c, kind, Object(kind, n, v), answers))
    <1>1. PICK obj : obj = cluster[kind][n][v]
        OBVIOUS
    <1>2. Len(cluster[kind][n]) \in Nat /\ obj.name = n
        BY <1>1, ClusterFacts DEF InformerInv, IsObjs
    <1>3. Object(kind, n, v) = obj
        BY <1>1, <1>2 DEF Object
    <1>4. CASE kind = "Ingress"
        <2>1. PICK keys, names :
                 Gen(c, kind, obj, answers) =
                    MapServiceToIngress(Fetch(c, keys, answers), names, obj.name)
            BY <1>4 DEF Gen, GenIngress
        <2>2. PICK d : d = Fetch(c, keys, answers)
            OBVIOUS
        <2>3. IsCache(d)
            BY <2>2, FetchFacts
        <2>4. n \in IngressNames
            BY <1>4 DEF IngressNames
        <2>5. PICK e : e = MapServiceToIngress(d, names, n)
            OBVIOUS
        <2>6. e = [stored |-> d.stored,
                   ingMap |-> [x \in ServiceNames |-> IF x \in names THEN n ELSE d.ingMap[x]]]
            BY <2>3, <2>5 DEF MapServiceToIngress, IsCache
        <2>7. e.ingMap \in [ServiceNames -> {None} \cup IngressNames]
            BY <2>3, <2>4, <2>6 DEF IsCache
        <2>8. e = [stored |-> e.stored, ingMap |-> e.ingMap] /\ e.stored = d.stored
            BY <2>6
        <2>9. IsCache(e)
            BY <2>3, <2>7, <2>8 DEF IsCache
        <2> QED
            BY <1>2, <1>3, <2>1, <2>2, <2>5, <2>9
    <1>5. CASE kind = "Service"
        <2>1. PICK d : d = Fetch(c, {<<"Endpoints", n>>}, answers)
            OBVIOUS
        <2>2. Gen(c, kind, obj, answers) = FetchIngress(d, n, answers)
            BY <1>2, <1>5, <2>1 DEF Gen, GenService
        <2>3. IsCache(d)
            BY <2>1, FetchFacts
        <2> QED
            BY <1>3, <2>2, <2>3, FetchIngressFacts
    <1>6. CASE kind = "Endpoints"
        <2>1. PICK d : d = Fetch(c, {<<"Service", n>>}, answers)
            OBVIOUS
        <2>2. Gen(c, kind, obj, answers) \in {c, FetchIngress(d, n, answers)}
            BY <1>2, <1>6, <2>1 DEF Gen, GenEndpoints
        <2>3. IsCache(d)
            BY <2>1, FetchFacts
        <2>4. IsCache(FetchIngress(d, n, answers))
            BY <2>3, FetchIngressFacts
        <2> QED
            BY <1>3, <2>2, <2>4
    <1> QED
        BY <1>4, <1>5, <1>6 DEF AllKinds

LEMMA ReflectStep ==
    ASSUME CacheInv, NEW kind \in AllKinds, NEW n \in DOMAIN cluster[kind],
           Reflect(kind, n) \/ Expire(kind, n)
    PROVE  IsCache(cache)'
    <1>1. PICK v \in {0, server[kind][n]} :
             cache' = [cache EXCEPT !.stored[kind][n] = v]
        BY DEF Reflect, Expire
    <1>2. cluster' = cluster
        BY DEF Reflect, Expire, controllerVars, informerVars
    <1>3. v \in 0..Len(cluster[kind][n])
        <2>1. IsState(cluster[kind], server[kind]) /\ IsObjs(cluster[kind])
            BY ServerFacts, ClusterFacts DEF CacheInv, InformerInv, IsAnswers
        <2> QED
            BY <2>1 DEF IsState, IsObjs
    <1>4. IsState(cluster[kind], cache.stored[kind])
        BY DEF CacheInv, IsCache
    <1>5. PICK s : s = [cache.stored[kind] EXCEPT ![n] = v]
        OBVIOUS
    <1>6. IsState(cluster[kind], s)
        BY <1>3, <1>4, <1>5 DEF IsState
    <1>7. PICK d : d = cache'
        OBVIOUS
    <1>8. d = [stored |-> [cache.stored EXCEPT ![kind] = s], ingMap |-> cache.ingMap]
        BY <1>1, <1>5, <1>7 DEF CacheInv, IsCache
    <1>9. d.stored = [cache.stored EXCEPT ![kind] = s] /\ d.ingMap = cache.ingMap
        BY <1>8
    <1>10. /\ d.stored = [k \in AllKinds |-> d.stored[k]]
           /\ d.stored[kind] = s
           /\ \A k \in AllKinds \ {kind} : d.stored[k] = cache.stored[k]
        BY <1>9 DEF CacheInv, IsCache
    <1>11. \A k \in AllKinds : IsState(cluster[k], d.stored[k])
        BY <1>6, <1>10 DEF CacheInv, IsCache
    <1>12. IsCache(d)
        BY <1>8, <1>9, <1>10, <1>11 DEF CacheInv, IsCache
    <1> QED
        BY <1>2, <1>7, <1>12 DEF IsCache, ServiceNames, IngressNames

LEMMA HandleStep ==
    ASSUME CacheInv, NEW kind \in AllKinds, NEW c, Handle(kind, c)
    PROVE  InformerInv' /\ IsCache(cache)'
    <1>1. InformerInv /\ IsCache(cache)
        BY DEF CacheInv
    <1>2. InformerInv' /\ IsCall(cluster[kind], known[kind], told[kind], c)
        BY <1>1, TellStep DEF Handle
    <1>3. cluster' = cluster
        BY DEF Handle, Tell, Called
    <1>4. /\ c.name \in DOMAIN cluster[kind]
          /\ Len(cluster[kind][c.name]) \in Nat
          /\ c.event \in {"add", "update"} => c.new \in 1..Len(cluster[kind][c.name])
          /\ c.event \in {"update", "delete"} => c.old \in 1..Len(cluster[kind][c.name])
        <2>1. IsState(cluster[kind], known[kind]) /\ IsObjs(cluster[kind])
            BY <1>1, ClusterFacts DEF InformerInv, OfKind, KindInv
        <2>2. /\ c.name \in DOMAIN cluster[kind]
              /\ c.new = known[kind][c.name]
              /\ c.event \in {"add", "update"} => c.new # 0
              /\ c.event \in {"update", "delete"} => c.old \in 1..Len(cluster[kind][c.name])
            BY <1>2 DEF IsCall
        <2>3. /\ Len(cluster[kind][c.name]) \in Nat
              /\ known[kind][c.name] \in 0..Len(cluster[kind][c.name])
            BY <2>1, <2>2 DEF IsState, IsObjs
        <2>4. c.new # 0 => c.new \in 1..Len(cluster[kind][c.name])
            BY <2>2, <2>3
        <2> QED
            BY <2>2, <2>3, <2>4
    <1>5. PICK d : d = cache'
        OBVIOUS
    <1>6. IsCache(d)
        <2>1. CASE DropUnknown(c)
            BY <1>1, <1>5, <2>1 DEF DropUnknown
        <2>2. ASSUME NEW answers \in Answers,
                     \/ HandleAdd(kind, c, answers)
                     \/ HandleUpdate(kind, c, answers)
                     \/ HandleDelete(kind, c, answers)
              PROVE  IsCache(d)
            <3>1. IsAnswers(answers)
                BY <1>1, ServerFacts
            <3>2. CASE HandleAdd(kind, c, answers)
                <4>1. d = Gen(cache, kind, Object(kind, c.name, c.new), answers)
                          /\ c.event = "add"
                    BY <1>5, <3>2 DEF HandleAdd
                <4> QED
                    BY <1>1, <1>4, <3>1, <4>1, GenFacts
            <3>3. CASE HandleUpdate(kind, c, answers)
                <4>1. PICK e : e = Gen(cache, kind, Object(kind, c.name, c.old), answers)
                    OBVIOUS
                <4>2. d = Gen(e, kind, Object(kind, c.name, c.new), answers)
                          /\ c.event = "update"
                    BY <1>5, <3>3, <4>1 DEF HandleUpdate
                <4>3. IsCache(e)
                    BY <1>1, <1>4, <3>1, <4>1, <4>2, GenFacts
                <4> QED
                    BY <1>1, <1>4, <3>1, <4>2, <4>3, GenFacts
            <3>4. CASE HandleDelete(kind, c, answers)
                <4>1. PICK e : e = Gen(cache, kind, Object(kind, c.name, c.old), answers)
                    OBVIOUS
                <4>2. /\ c.event = "delete"
                      /\ d = IF kind = "Service" THEN ServiceDeleted(e, c.name) ELSE e
                    BY <1>5, <3>4, <4>1 DEF HandleDelete
                <4>3. IsCache(e)
                    BY <1>1, <1>4, <3>1, <4>1, <4>2, GenFacts
                <4>4. CASE kind = "Service"
                    <5>1. d = [stored |-> e.stored,
                               ingMap |-> [e.ingMap EXCEPT ![c.name] = None]]
                        BY <4>2, <4>3, <4>4 DEF ServiceDeleted, IsCache
                    <5>2. d.ingMap \in [ServiceNames -> {None} \cup IngressNames]
                        BY <1>4, <4>3, <5>1 DEF IsCache
                    <5>3. d = [stored |-> d.stored, ingMap |-> d.ingMap]
                              /\ d.stored = e.stored
                        BY <5>1
                    <5> QED
                        BY <4>3, <5>2, <5>3 DEF IsCache
                <4> QED
                    BY <4>2, <4>3, <4>4
            <3> QED
                BY <2>2, <3>2, <3>3, <3>4
        <2> QED
            BY <2>1, <2>2 DEF Handle
    <1> QED
        BY <1>2, <1>3, <1>5, <1>6 DEF IsCache, ServiceNames, IngressNames

-----------------------------------------------------------------------------
(***************************************************************************)
(* The invariant is inductive.                                             *)
(***************************************************************************)
LEMMA CacheStarts == CacheInit => CacheInv
    <1> SUFFICES ASSUME CacheInit PROVE CacheInv
        OBVIOUS
    <1>1. InformerInv
        BY InformerStarts DEF CacheInit
    <1>2. cache = [stored |-> base, ingMap |-> [n \in ServiceNames |-> None]]
        BY DEF CacheInit
    <1>3. OnAllKinds(base) /\ \A kind \in AllKinds : IsState(cluster[kind], base[kind])
        BY <1>1 DEF InformerInv, OfKind, KindInv
    <1>4. cache.stored = base /\ cache.ingMap = [n \in ServiceNames |-> None]
        BY <1>2
    <1>5. IsCache(cache)
        BY <1>2, <1>3, <1>4 DEF IsCache, OnAllKinds
    <1> QED
        BY <1>1, <1>5 DEF CacheInv

LEMMA CacheStep == CacheInv /\ [CacheNext]_cacheVars => CacheInv'
    <1> SUFFICES ASSUME CacheInv, [CacheNext]_cacheVars PROVE CacheInv'
        OBVIOUS
    <1>1. InformerInv /\ IsCache(cache) /\ Kinds = AllKinds
        BY ClusterFacts DEF CacheInv, InformerInv
    <1>2. CASE (Environment \/ Informing) /\ UNCHANGED <<told, cache>>
        <2>1. InformerInv' /\ cluster' = cluster
            <3>1. CASE Environment
                <4>1. PICK kind \in AllKinds : \E n \in DOMAIN cluster[kind] :
                         \E v \in Versions(kind, n) : Change(kind, n, v)
                    BY <1>1, <3>1 DEF Environment
                <4>2. PICK n \in DOMAIN cluster[kind] :
                         \E v \in Versions(kind, n) : Change(kind, n, v)
                    BY <4>1
                <4>3. PICK v \in Versions(kind, n) : Change(kind, n, v)
                    BY <4>2
                <4>4. InformerInv'
                    BY <1>1, <1>2, <4>3, ChangeStep
                <4>5. cluster' = cluster
                    BY <4>3 DEF Change
                <4> QED
                    BY <4>4, <4>5
            <3>2. CASE Informing
                <4>1. PICK kind \in AllKinds :
                         \/ Watch(kind)
                         \/ \E missed \in 0..Len(wire[kind]) : Relist(kind, missed)
                         \/ Process(kind)
                    BY <1>1, <3>2 DEF Informing
                <4>2. CASE Watch(kind)
                    <5>1. InformerInv'
                        BY <1>1, <1>2, <4>2, WatchStep
                    <5>2. cluster' = cluster
                        BY <4>2 DEF Watch
                    <5> QED
                        BY <5>1, <5>2
                <4>3. ASSUME NEW missed \in 0..Len(wire[kind]), Relist(kind, missed)
                      PROVE  InformerInv' /\ cluster' = cluster
                    <5>1. InformerInv'
                        BY <1>1, <1>2, <4>3, RelistStep
                    <5>2. cluster' = cluster
                        BY <4>3 DEF Relist
                    <5> QED
                        BY <5>1, <5>2
                <4>4. CASE Process(kind)
                    <5>1. InformerInv'
                        BY <1>1, <1>2, <4>4, ProcessStep
                    <5>2. cluster' = cluster
                        BY <4>4 DEF Process
                    <5> QED
                        BY <5>1, <5>2
                <4> QED
                    BY <4>1, <4>2, <4>3, <4>4
            <3> QED
                BY <1>2, <3>1, <3>2
        <2>2. IsCache(cache)'
            BY <1>1, <1>2, <2>1 DEF IsCache, ServiceNames, IngressNames
        <2> QED
            BY <2>1, <2>2 DEF CacheInv
    <1>3. ASSUME NEW kind \in AllKinds, NEW n \in DOMAIN cluster[kind],
                 Reflect(kind, n) \/ Expire(kind, n)
          PROVE  CacheInv'
        <2>1. IsCache(cache)'
            BY <1>3, ReflectStep
        <2>2. UNCHANGED controllerVars
            BY <1>3 DEF Reflect, Expire
        <2>3. InformerInv'
            BY <1>1, <2>2 DEF controllerVars, informerVars, InformerInv, OfKind, OnAllKinds
        <2> QED
            BY <2>1, <2>3 DEF CacheInv
    <1>4. ASSUME NEW kind \in AllKinds, NEW k \in DOMAIN call[kind],
                 Handle(kind, call[kind][k])
          PROVE  CacheInv'
        BY <1>4, HandleStep DEF CacheInv
    <1>5. CASE UNCHANGED cacheVars
        BY <1>5 DEF cacheVars, controllerVars, informerVars, CacheInv, InformerInv, OfKind,
                    OnAllKinds, IsCache, ServiceNames, IngressNames
    <1> QED
        BY <1>1, <1>2, <1>3, <1>4, <1>5 DEF CacheNext

LEMMA Inductive == CacheSpec => []CacheInv
    BY CacheStarts, CacheStep, PTL DEF CacheSpec

(* Queues and stores hold versions of objects of the cluster, a deletion   *)
(* carries a state the object had, the map names Ingresses of the cluster. *)
THEOREM CacheTyped == CacheSpec => []TypeOK
    <1>1. ASSUME CacheInv PROVE TypeOK
        <2>1. InformerInv /\ IsCache(cache) /\ Kinds = AllKinds
            BY <1>1, ClusterFacts DEF CacheInv, InformerInv
        <2>2. ASSUME NEW kind \in AllKinds
              PROVE  /\ \A s \in {base[kind], known[kind], told[kind]} :
                           \A n \in DOMAIN cluster[kind] : s[n] \in Versions(kind, n)
                     /\ \A n \in DOMAIN cluster[kind] : IsDeltas(kind, n, fifo[kind].items[n])
                     /\ \A k \in DOMAIN cur[kind] :
                           IsDeltas(kind, cur[kind][k].name, <<cur[kind][k].delta>>)
                     /\ Len(call[kind]) <= 1
            <3>1. /\ OfKind(kind) /\ IsObjs(cluster[kind])
                BY <2>1, ClusterFacts DEF InformerInv
            <3>2. \A s \in {base[kind], known[kind], told[kind]} :
                     \A n \in DOMAIN cluster[kind] : s[n] \in Versions(kind, n)
                BY <3>1 DEF OfKind, KindInv, IsState, Versions
            <3>3. ASSUME NEW n \in DOMAIN cluster[kind], NEW d \in DeltasOf(VersionsOf(cluster[kind], n))
                  PROVE  /\ d.type \in {"Set", "Deleted", "Unknown"}
                         /\ d.obj \in Versions(kind, n)
                         /\ d.obj = 0 => d.type = "Unknown"
                BY <3>1 DEF IsObjs, DeltasOf, VersionsOf, Versions
            <3>4. ASSUME NEW n \in DOMAIN cluster[kind]
                  PROVE  /\ fifo[kind].items[n] \in Seq(DeltasOf(VersionsOf(cluster[kind], n)))
                         /\ Pending(cur[kind], n) \in Seq(DeltasOf(VersionsOf(cluster[kind], n)))
                BY <3>1 DEF OfKind, KindInv, Awaits
            <3>5. ASSUME NEW n \in DOMAIN cluster[kind]
                  PROVE  IsDeltas(kind, n, fifo[kind].items[n])
                <4>1. PICK s \in Seq(DeltasOf(VersionsOf(cluster[kind], n))) :
                         s = fifo[kind].items[n]
                    BY <3>4
                <4>2. \A k \in DOMAIN s : s[k] \in DeltasOf(VersionsOf(cluster[kind], n))
                    OBVIOUS
                <4> QED
                    BY <3>3, <4>1, <4>2 DEF IsDeltas
            <3>6. ASSUME NEW k \in DOMAIN cur[kind]
                  PROVE  IsDeltas(kind, cur[kind][k].name, <<cur[kind][k].delta>>)
                <4>1. PICK n \in DOMAIN cluster[kind] :
                         /\ n = cur[kind][k].name
                         /\ cur[kind][k].delta \in DeltasOf(VersionsOf(cluster[kind], n))
                    BY <3>1, CurDelta
                <4> QED
                    BY <3>3, <4>1 DEF IsDeltas
            <3>7. Len(call[kind]) <= 1
                <4>1. IsCalls(cluster[kind], known[kind], told[kind], call[kind])
                    BY <3>1 DEF OfKind, KindInv
                <4>2. call[kind] = <<>> \/ \E c : call[kind] = <<c>>
                    BY <4>1 DEF IsCalls
                <4>3. CASE call[kind] = <<>>
                    BY <4>3
                <4>4. CASE \E c : call[kind] = <<c>>
                    <5>1. PICK c : call[kind] = <<c>>
                        BY <4>4
                    <5>2. Len(<<c>>) = 1
                        OBVIOUS
                    <5>3. Len(call[kind]) = 1
                        BY <5>1, <5>2, Zenon
                    <5> QED
                        BY <5>3
                <4> QED
                    BY <4>2, <4>3, <4>4
            <3> QED
                BY <3>2, <3>5, <3>6, <3>7
        <2>3. InformersOK
            BY <2>1, <2>2 DEF InformersOK
        <2>4. \A kind \in AllKinds : \A n \in DOMAIN cluster[kind] :
                 cache.stored[kind][n] \in Versions(kind, n)
            BY <2>1 DEF IsCache, IsState, Versions
        <2> QED
            BY <2>1, <2>3, <2>4 DEF TypeOK, IsCache
    <1> QED
        BY <1>1, Inductive, PTL

LEMMA QueueConsistent == CacheInv => QueueMatchesItems
    <1> SUFFICES ASSUME CacheInv PROVE QueueMatchesItems
        OBVIOUS
    <1>1. InformerInv /\ Kinds = AllKinds
        BY ClusterFacts DEF CacheInv, InformerInv
    <1>2. ASSUME NEW kind \in AllKinds PROVE Consistent(fifo[kind])
        <2>1. IsFifo(cluster[kind], fifo[kind])
            BY <1>1 DEF InformerInv, OfKind, KindInv
        <2>2. DOMAIN fifo[kind].items = DOMAIN cluster[kind]
            BY <2>1 DEF IsFifo
        <2> QED
            BY <2>1, <2>2 DEF IsFifo, Consistent, Listed, EachOnce
    <1> QED
        BY <1>1, <1>2 DEF QueueMatchesItems

(* The queue of each informer lists its items, each once, however watch    *)
(* events, lists and pops alternate (delta_fifo.go).                       *)
THEOREM QueueStaysConsistent == CacheSpec => []QueueMatchesItems
    BY QueueConsistent, Inductive, PTL

LEMMA OldTold == CacheInv => OldIsWhatWasTold
    <1> SUFFICES ASSUME CacheInv PROVE OldIsWhatWasTold
        OBVIOUS
    <1>1. InformerInv /\ Kinds = AllKinds
        BY ClusterFacts DEF CacheInv, InformerInv
    <1>2. ASSUME NEW kind \in AllKinds, NEW k \in DOMAIN call[kind],
                 call[kind][k].event \in {"update", "delete"}
          PROVE  call[kind][k].old = told[kind][call[kind][k].name]
        <2>1. IsCalls(cluster[kind], known[kind], told[kind], call[kind])
            BY <1>1 DEF InformerInv, OfKind, KindInv
        <2>2. PICK c : call[kind] = <<c>> /\ IsCall(cluster[kind], known[kind], told[kind], c)
            BY <2>1 DEF IsCalls
        <2>3. call[kind][k] = c
            BY <2>2
        <2> QED
            BY <1>2, <2>2, <2>3 DEF IsCall
    <1> QED
        BY <1>1, <1>2 DEF OldIsWhatWasTold

(* Update and Delete are called with the version the engine was given      *)
(* last, whatever was merged, missed or listed in between (controller.go,  *)
(* kubernetes.go).                                                         *)
THEOREM OldWasTold == CacheSpec => []OldIsWhatWasTold
    BY OldTold, Inductive, PTL

=============================================================================
