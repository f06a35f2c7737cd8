---------------------------- MODULE RouteProofs -----------------------------
(***************************************************************************)
(* Proofs about Routes, for any annotations and Ingress rules.             *)
(*                                                                         *)
(* Both properties speak of parts only kind by kind.  The invariant says   *)
(* that the parts of a kind are those of its annotation, in its order,     *)
(* once it has been walked; a rule changes the parts of two kinds and      *)
(* leaves those of the others.  What this rests on is that a selection     *)
(* from a list goes well with concatenation and with another selection.    *)
(***************************************************************************)
EXTENDS Routes, TLAPS, FiniteSetTheorems, SequenceTheorems

(***************************************************************************)
(* Selections.  f lists the members of W in their order.                   *)
(***************************************************************************)
Lists(f, m, W) ==
    /\ m \in Nat
    /\ f \in [1..m -> W]
    /\ \A k \in W : \E n \in 1..m : f[n] = k
    /\ \A i, j \in 1..m : i < j => f[i] < f[j]

Place(W, k) == Cardinality({j \in W : j <= k})

(* The positions that a list f has are those that Place counts.            *)
LEMMA PlaceOf ==
    ASSUME NEW W \in SUBSET Nat, NEW m, NEW f, Lists(f, m, W), NEW n \in 1..m
    PROVE  Place(W, f[n]) = n
    <1> DEFINE V == {j \in W : j <= f[n]}
               g == [i \in 1..n |-> f[i]]
    <1>1. m \in Nat /\ n \in Nat /\ \A i \in 1..n : i \in 1..m
        BY DEF Lists
    <1>2. \A i \in 1..m : f[i] \in W /\ f[i] \in Nat
        BY DEF Lists
    <1>3. \A i \in 1..n : f[i] <= f[n]
        BY <1>1, <1>2 DEF Lists
    <1>4. g \in [1..n -> V]
        BY <1>1, <1>2, <1>3
    <1>5. \A i, j \in 1..n : g[i] = g[j] => i = j
        <2> SUFFICES ASSUME NEW i \in 1..n, NEW j \in 1..n, i # j PROVE f[i] # f[j]
            OBVIOUS
        <2>1. i < j \/ j < i
            BY <1>1
        <2>2. f[i] < f[j] \/ f[j] < f[i]
            BY <1>1, <2>1 DEF Lists
        <2> QED
            BY <1>1, <1>2, <2>2
    <1>6. \A k \in V : \E i \in 1..n : g[i] = k
        <2> SUFFICES ASSUME NEW k \in V PROVE \E i \in 1..n : f[i] = k
            OBVIOUS
        <2>1. PICK i \in 1..m : f[i] = k
            BY DEF Lists
        <2>2. ~(n < i)
            BY <1>2, <2>1 DEF Lists
        <2> QED
            BY <1>1, <2>1, <2>2
    <1>7. g \in Bijection(1..n, V)
        BY <1>4, <1>5, <1>6 DEF Bijection, Injection, Surjection, IsInjective
    <1>8. IsFiniteSet(1..n) /\ Cardinality(1..n) = n
        BY <1>1, FS_Interval
    <1> HIDE DEF g, V
    <1>9. Cardinality(V) = n
        BY <1>7, <1>8, FS_Bijection DEF ExistsBijection
    <1> QED
        BY <1>9 DEF Place, V

LEMMA CountOf ==
    ASSUME NEW W \in SUBSET Nat, NEW m, NEW f, Lists(f, m, W)
    PROVE  Cardinality(W) = m
    <1>1. f \in Bijection(1..m, W)
        <2>1. \A i, j \in 1..m : f[i] = f[j] => i = j
            <3> SUFFICES ASSUME NEW i \in 1..m, NEW j \in 1..m, i # j PROVE f[i] # f[j]
                OBVIOUS
            <3>1. m \in Nat /\ f[i] \in W /\ f[j] \in W
                BY DEF Lists
            <3>2. f[i] \in Nat /\ f[j] \in Nat
                BY <3>1
            <3>3. i < j \/ j < i
                BY <3>1
            <3> QED
                BY <3>2, <3>3 DEF Lists
        <2> QED
            BY <2>1 DEF Lists, Bijection, Injection, Surjection, IsInjective
    <1>2. IsFiniteSet(1..m) /\ Cardinality(1..m) = m
        BY FS_Interval DEF Lists
    <1> QED
        BY <1>1, <1>2, FS_Bijection DEF ExistsBijection

(* There is only one way to select.                                        *)
LEMMA PickIs ==
    ASSUME NEW list, NEW W \in SUBSET Nat, NEW m, NEW f, Lists(f, m, W)
    PROVE  Pick(list, W) = [n \in 1..m |-> list[f[n]]]
    <1>1. Cardinality(W) = m
        BY CountOf
    <1>2. ASSUME NEW n \in 1..m
          PROVE  (CHOOSE k \in W : Place(W, k) = n) = f[n]
        <2>1. f[n] \in W /\ Place(W, f[n]) = n
            BY PlaceOf DEF Lists
        <2>2. ASSUME NEW k \in W, Place(W, k) = n PROVE k = f[n]
            <3>1. PICK i \in 1..m : f[i] = k
                BY DEF Lists
            <3>2. Place(W, f[i]) = i
                BY PlaceOf
            <3> QED
                BY <2>2, <3>1, <3>2
        <2> QED
            BY <2>1, <2>2
    <1>3. Pick(list, W)
            = [n \in 1..Cardinality(W) |-> list[CHOOSE k \in W : Place(W, k) = n]]
        BY DEF Pick, Place
    <1> QED
        BY <1>1, <1>2, <1>3

(* Any finite set of positions can be listed.                              *)
LEMMA Listable ==
    ASSUME NEW W \in SUBSET Nat, IsFiniteSet(W)
    PROVE  \E m \in Nat : \E f : Lists(f, m, W)
    <1> DEFINE m == Cardinality(W)
               upto(k) == {j \in W : j <= k}
               rank == [k \in W |-> Cardinality(upto(k))]
    <1>1. m \in Nat /\ IsFiniteSet(1..m) /\ Cardinality(1..m) = m
        BY FS_CardinalityType, FS_Interval
    <1>2. ASSUME NEW k \in W
          PROVE  /\ IsFiniteSet(upto(k)) /\ Cardinality(upto(k)) \in Nat
                 /\ Cardinality(upto(k)) \in 1..m
        <2>1. upto(k) \in SUBSET W /\ k \in upto(k)
            OBVIOUS
        <2>2. IsFiniteSet(upto(k)) /\ Cardinality(upto(k)) <= m
            BY <2>1, FS_Subset
        <2>3. Cardinality(upto(k)) # 0 /\ Cardinality(upto(k)) \in Nat
            BY <2>1, <2>2, FS_EmptySet, FS_CardinalityType
        <2> QED
            BY <1>1, <2>2, <2>3
    <1>3. ASSUME NEW j \in W, NEW k \in W, j < k
          PROVE  Cardinality(upto(j)) < Cardinality(upto(k))
        <2>1. upto(j) \in SUBSET upto(k) /\ k \in upto(k) /\ k \notin upto(j)
            <3>1. j \in Nat /\ k \in Nat /\ ~(k <= j)
                BY <1>3
            <3>2. ASSUME NEW x \in W, x <= j PROVE x <= k
                <4>1. x \in Nat
                    OBVIOUS
                <4> QED
                    BY <1>3, <3>1, <3>2, <4>1
            <3>3. k <= k
                BY <3>1
            <3> QED
                BY <3>1, <3>2, <3>3
        <2>2. /\ Cardinality(upto(j)) <= Cardinality(upto(k))
              /\ Cardinality(upto(j)) = Cardinality(upto(k)) => upto(j) = upto(k)
            BY <1>2, <2>1, FS_Subset
        <2> QED
            BY <1>2, <2>1, <2>2
    <1>4. rank \in [W -> 1..m]
        BY <1>2
    <1>5. \A j, k \in W : rank[j] = rank[k] => j = k
        <2> SUFFICES ASSUME NEW j \in W, NEW k \in W, j # k PROVE rank[j] # rank[k]
            OBVIOUS
        <2>1. j < k \/ k < j
            OBVIOUS
        <2> QED
            BY <1>2, <1>3, <2>1
    <1>6. \A n \in 1..m : \E k \in W : rank[k] = n
        <2>1. rank \in Injection(W, 1..m)
            BY <1>4, <1>5 DEF Injection, IsInjective
        <2>2. rank \in Surjection(W, 1..m)
            BY <1>1, <2>1, FS_Injection
        <2> QED
            BY <2>2 DEF Surjection
    <1>7. PICK f : f = [n \in 1..m |-> CHOOSE k \in W : rank[k] = n]
        OBVIOUS
    <1>8. \A n \in 1..m : f[n] \in W /\ rank[f[n]] = n
        BY <1>6, <1>7
    <1>9. \A k \in W : f[rank[k]] = k
        BY <1>4, <1>5, <1>8
    <1>10. ASSUME NEW i \in 1..m, NEW j \in 1..m, i < j PROVE f[i] < f[j]
        <2>1. f[i] \in W /\ f[j] \in W /\ f[i] \in Nat /\ f[j] \in Nat
            BY <1>8
        <2>2. rank[f[i]] = i /\ rank[f[j]] = j
            BY <1>8
        <2>3. f[j] < f[i] => rank[f[j]] < rank[f[i]]
            BY <1>3, <2>1
        <2>4. f[i] # f[j]
            BY <1>10, <2>2
        <2> QED
            BY <1>1, <1>10, <2>1, <2>2, <2>3, <2>4
    <1>11. f \in [1..m -> W] /\ \A k \in W : \E n \in 1..m : f[n] = k
        BY <1>4, <1>7, <1>8, <1>9
    <1>12. Lists(f, m, W)
        BY <1>1, <1>10, <1>11 DEF Lists
    <1> QED
        BY <1>1, <1>12

-----------------------------------------------------------------------------
(***************************************************************************)
(* Lists of parts.                                                         *)
(***************************************************************************)

(* A sequence, whatever it holds.                                          *)
IsSeq(s) == \E S : s \in Seq(S)

LEMMA SeqFacts ==
    ASSUME NEW s, IsSeq(s)
    PROVE  /\ Len(s) \in Nat /\ DOMAIN s = 1..Len(s)
           /\ \A W \in SUBSET DOMAIN s : W \in SUBSET Nat /\ IsFiniteSet(W)
    <1>1. PICK S : s \in Seq(S)
        BY DEF IsSeq
    <1>2. Len(s) \in Nat /\ DOMAIN s = 1..Len(s)
        BY <1>1
    <1>3. IsFiniteSet(1..Len(s)) /\ 1..Len(s) \in SUBSET Nat
        BY <1>2, FS_Interval
    <1> QED
        BY <1>2, <1>3, FS_Subset

LEMMA FunctionIsSeq ==
    ASSUME NEW m \in Nat, NEW T, NEW s \in [1..m -> T]
    PROVE  IsSeq(s) /\ Len(s) = m
    <1>1. s \in Seq(T) /\ DOMAIN s = 1..m
        OBVIOUS
    <1>2. Len(s) \in Nat /\ DOMAIN s = 1..Len(s)
        BY <1>1
    <1> QED
        BY <1>1, <1>2 DEF IsSeq

LEMMA SameSeq ==
    ASSUME NEW s, IsSeq(s), NEW t, IsSeq(t), Len(s) = Len(t),
           \A n \in 1..Len(s) : s[n] = t[n]
    PROVE  s = t
    <1>1. PICK S, T : s \in Seq(S) /\ t \in Seq(T)
        BY DEF IsSeq
    <1>2. s \in Seq(S \cup T) /\ t \in Seq(S \cup T)
        BY <1>1, SeqMonotonic
    <1> QED
        BY <1>2, SeqEqual

LEMMA ConcatFacts ==
    ASSUME NEW s, IsSeq(s), NEW t, IsSeq(t)
    PROVE  /\ IsSeq(s \o t)
           /\ Len(s \o t) = Len(s) + Len(t)
           /\ \A n \in 1..Len(s) : (s \o t)[n] = s[n]
           /\ \A n \in 1..Len(t) : (s \o t)[Len(s) + n] = t[n]
    <1>1. PICK S, T : s \in Seq(S) /\ t \in Seq(T)
        BY DEF IsSeq
    <1>2. PICK U : U = S \cup T
        OBVIOUS
    <1>3. s \in Seq(U) /\ t \in Seq(U)
        BY <1>1, <1>2, SeqMonotonic
    <1>4. /\ s \o t \in Seq(U)
          /\ Len(s \o t) = Len(s) + Len(t)
          /\ \A i \in 1..Len(s) + Len(t) :
                (s \o t)[i] = IF i <= Len(s) THEN s[i] ELSE t[i - Len(s)]
        BY <1>3, ConcatProperties
    <1>5. Len(s) \in Nat /\ Len(t) \in Nat
        BY <1>3
    <1>6. \A n \in 1..Len(s) : n \in 1..Len(s) + Len(t) /\ n <= Len(s)
        BY <1>5
    <1>7. \A n \in 1..Len(t) : /\ Len(s) + n \in 1..Len(s) + Len(t)
                               /\ ~(Len(s) + n <= Len(s))
                               /\ (Len(s) + n) - Len(s) = n
        BY <1>5
    <1> QED
        BY <1>4, <1>6, <1>7 DEF IsSeq

(* A selection is a sequence.                                              *)
LEMMA PickFacts ==
    ASSUME NEW s, IsSeq(s), NEW W \in SUBSET DOMAIN s
    PROVE  \E m \in Nat : \E f :
              /\ Lists(f, m, W)
              /\ Pick(s, W) = [n \in 1..m |-> s[f[n]]]
              /\ IsSeq(Pick(s, W)) /\ Len(Pick(s, W)) = m
    <1>1. W \in SUBSET Nat /\ IsFiniteSet(W)
        BY SeqFacts
    <1>2. PICK m \in Nat : \E g : Lists(g, m, W)
        BY <1>1, Listable
    <1>3. PICK f : Lists(f, m, W)
        BY <1>2
    <1>4. Pick(s, W) = [n \in 1..m |-> s[f[n]]]
        BY <1>1, <1>3, PickIs
    <1>5. PICK p : p = Pick(s, W)
        OBVIOUS
    <1>6. p \in [1..m -> {s[f[n]] : n \in 1..m}]
        BY <1>4, <1>5
    <1>7. IsSeq(p) /\ Len(p) = m
        BY <1>6, FunctionIsSeq
    <1> QED
        BY <1>2, <1>3, <1>4, <1>5, <1>7

(* X has the positions V of a list of length n, and W of what follows it.  *)
Spliced(X, V, W, n) == \A k : k \in X <=> (k \in V \/ \E w \in W : k = n + w)

(* Selecting from a concatenation.                                         *)
LEMMA PickConcat ==
    ASSUME NEW s, IsSeq(s), NEW t, IsSeq(t),
           NEW V \in SUBSET DOMAIN s, NEW W \in SUBSET DOMAIN t,
           NEW X, Spliced(X, V, W, Len(s))
    PROVE  Pick(s \o t, X) = Pick(s, V) \o Pick(t, W)
    <1>0. \A k : k \in X <=> (k \in V \/ \E w \in W : k = Len(s) + w)
        BY DEF Spliced
    <1>1. /\ Len(s) \in Nat /\ DOMAIN s = 1..Len(s)
          /\ Len(t) \in Nat /\ DOMAIN t = 1..Len(t)
        BY SeqFacts
    <1>m. PICK m \in Nat : \E f : /\ Lists(f, m, V)
                                  /\ Pick(s, V) = [n \in 1..m |-> s[f[n]]]
                                  /\ IsSeq(Pick(s, V)) /\ Len(Pick(s, V)) = m
        BY PickFacts
    <1>2. PICK f : /\ Lists(f, m, V)
                   /\ Pick(s, V) = [n \in 1..m |-> s[f[n]]]
                   /\ IsSeq(Pick(s, V)) /\ Len(Pick(s, V)) = m
        BY <1>m
    <1>l. PICK l \in Nat : \E g : /\ Lists(g, l, W)
                                  /\ Pick(t, W) = [n \in 1..l |-> t[g[n]]]
                                  /\ IsSeq(Pick(t, W)) /\ Len(Pick(t, W)) = l
        BY PickFacts
    <1>3. PICK g : /\ Lists(g, l, W)
                   /\ Pick(t, W) = [n \in 1..l |-> t[g[n]]]
                   /\ IsSeq(Pick(t, W)) /\ Len(Pick(t, W)) = l
        BY <1>l
    <1>4. PICK h : h = [n \in 1..(m + l) |->
                          IF n <= m THEN f[n] ELSE Len(s) + g[n - m]]
        OBVIOUS
    <1>5. /\ \A n \in 1..m : f[n] \in V /\ f[n] \in Nat /\ f[n] <= Len(s) /\ f[n] >= 1
          /\ \A n \in 1..l : g[n] \in W /\ g[n] \in Nat /\ g[n] <= Len(t) /\ g[n] >= 1
        <2>1. \A n \in 1..m : f[n] \in V
            BY <1>2 DEF Lists
        <2>2. \A n \in 1..l : g[n] \in W
            BY <1>3 DEF Lists
        <2> QED
            BY <1>1, <2>1, <2>2
    <1>6. ASSUME NEW n \in 1..(m + l)
          PROVE  /\ h[n] \in X /\ h[n] \in Nat
                 /\ n <= m => n \in 1..m /\ h[n] = f[n]
                 /\ ~(n <= m) => n - m \in 1..l /\ h[n] = Len(s) + g[n - m]
        <2>1. CASE n <= m
            BY <1>0, <1>4, <1>5, <2>1
        <2>2. CASE ~(n <= m)
            <3>1. n - m \in 1..l /\ h[n] = Len(s) + g[n - m]
                BY <1>4, <2>2
            <3> QED
                BY <1>0, <1>1, <1>5, <2>2, <3>1
        <2> QED
            BY <2>1, <2>2
    <1>7. ASSUME NEW i \in 1..(m + l), NEW j \in 1..(m + l), i < j
          PROVE  h[i] < h[j]
        <2>1. CASE j <= m
            <3>1. i <= m
                BY <1>7, <2>1
            <3>2. f[i] < f[j]
                BY <1>2, <1>6, <1>7, <2>1, <3>1 DEF Lists
            <3> QED
                BY <1>6, <2>1, <3>1, <3>2
        <2>2. CASE ~(i <= m)
            <3>1. ~(j <= m) /\ i - m < j - m
                BY <1>7, <2>2
            <3>2. g[i - m] < g[j - m]
                BY <1>3, <1>6, <2>2, <3>1 DEF Lists
            <3>3. i - m \in 1..l /\ j - m \in 1..l
                BY <1>6, <2>2, <3>1
            <3> QED
                BY <1>1, <1>5, <1>6, <2>2, <3>1, <3>2, <3>3
        <2>3. CASE i <= m /\ ~(j <= m)
            <3>1. i \in 1..m /\ j - m \in 1..l
                BY <1>6, <2>3
            <3>2. f[i] <= Len(s) /\ g[j - m] >= 1 /\ f[i] \in Nat /\ g[j - m] \in Nat
                BY <1>5, <3>1
            <3> QED
                BY <1>1, <1>6, <2>3, <3>2
        <2> QED
            BY <2>1, <2>2, <2>3
    <1>8. ASSUME NEW k \in X PROVE \E n \in 1..(m + l) : h[n] = k
        <2>1. CASE k \in V
            <3>1. PICK n \in 1..m : f[n] = k
                BY <1>2, <2>1 DEF Lists
            <3>2. n \in 1..(m + l) /\ n <= m
                OBVIOUS
            <3> QED
                BY <1>6, <3>1, <3>2
        <2>2. CASE \E w \in W : k = Len(s) + w
            <3>1. PICK w \in W : k = Len(s) + w
                BY <2>2
            <3>2. PICK n \in 1..l : g[n] = w
                BY <1>3 DEF Lists
            <3>3. m + n \in 1..(m + l) /\ ~(m + n <= m) /\ (m + n) - m = n
                OBVIOUS
            <3> QED
                BY <1>6, <3>1, <3>2, <3>3
        <2> QED
            BY <1>0, <2>1, <2>2
    <1>9. Lists(h, m + l, X)
        <2>1. h \in [1..(m + l) -> X]
            BY <1>4, <1>6
        <2> QED
            BY <1>7, <1>8, <2>1 DEF Lists
    <1>10. X \in SUBSET Nat
        BY <1>0, <1>1
    <1>11. Pick(s \o t, X) = [n \in 1..(m + l) |-> (s \o t)[h[n]]]
        BY <1>9, <1>10, PickIs
    <1>12. PICK p : p = Pick(s \o t, X)
        OBVIOUS
    <1>13. IsSeq(p) /\ Len(p) = m + l
        <2>1. p \in [1..(m + l) -> {(s \o t)[h[n]] : n \in 1..(m + l)}]
            BY <1>11, <1>12
        <2>2. m + l \in Nat
            OBVIOUS
        <2> QED
            BY <2>1, <2>2, FunctionIsSeq
    <1>14. PICK q : q = Pick(s, V) \o Pick(t, W)
        OBVIOUS
    <1>15. /\ IsSeq(q) /\ Len(q) = m + l
           /\ \A n \in 1..m : q[n] = Pick(s, V)[n]
           /\ \A n \in 1..l : q[m + n] = Pick(t, W)[n]
        BY <1>2, <1>3, <1>14, ConcatFacts
    <1>16. ASSUME NEW n \in 1..(m + l) PROVE p[n] = q[n]
        <2>1. p[n] = (s \o t)[h[n]]
            BY <1>11, <1>12
        <2>2. CASE n <= m
            <3>1. n \in 1..m /\ h[n] = f[n] /\ f[n] \in 1..Len(s)
                BY <1>1, <1>5, <1>6, <2>2
            <3>2. (s \o t)[f[n]] = s[f[n]]
                BY <3>1, ConcatFacts
            <3> QED
                BY <1>2, <1>15, <2>1, <3>1, <3>2
        <2>3. CASE ~(n <= m)
            <3>1. PICK i : i = n - m
                OBVIOUS
            <3>2. i \in 1..l /\ h[n] = Len(s) + g[i] /\ m + i = n
                BY <1>6, <2>3, <3>1
            <3>3. g[i] \in 1..Len(t)
                BY <1>1, <1>5, <3>2
            <3>4. (s \o t)[Len(s) + g[i]] = t[g[i]]
                BY <3>3, ConcatFacts
            <3>5. q[m + i] = Pick(t, W)[i]
                BY <1>15, <3>2
            <3> QED
                BY <1>3, <2>1, <3>2, <3>4, <3>5
        <2> QED
            BY <2>2, <2>3
    <1> QED
        BY <1>12, <1>13, <1>14, <1>15, <1>16, SameSeq

(* Selecting from a selection.                                             *)
LEMMA PickPick ==
    ASSUME NEW s, NEW W \in SUBSET Nat, NEW m, NEW f, Lists(f, m, W),
           NEW X \in SUBSET W
    PROVE  Pick(Pick(s, W), {n \in 1..m : f[n] \in X}) = Pick(s, X)
    <1>1. PICK V : V = {n \in 1..m : f[n] \in X}
        OBVIOUS
    <1>2. m \in Nat /\ V \in SUBSET Nat /\ IsFiniteSet(V)
        <2>1. m \in Nat
            BY DEF Lists
        <2>2. V \in SUBSET (1..m) /\ IsFiniteSet(1..m)
            BY <1>1, <2>1, FS_Interval
        <2>3. IsFiniteSet(V)
            BY <2>2, FS_Subset
        <2>4. \A n \in 1..m : n \in Nat
            BY <2>1
        <2> QED
            BY <2>1, <2>2, <2>3, <2>4
    <1>3. PICK l \in Nat : \E x : Lists(x, l, V)
        BY <1>2, Listable
    <1>4. PICK g : Lists(g, l, V)
        BY <1>3
    <1>5. PICK h : h = [n \in 1..l |-> f[g[n]]]
        OBVIOUS
    <1>6. \A n \in 1..l : g[n] \in V /\ g[n] \in 1..m /\ h[n] = f[g[n]] /\ h[n] \in X
        BY <1>1, <1>4, <1>5 DEF Lists
    <1>7. Lists(h, l, X)
        <2>1. h \in [1..l -> X]
            BY <1>5, <1>6
        <2>2. ASSUME NEW k \in X PROVE \E n \in 1..l : h[n] = k
            <3>1. PICK i \in 1..m : f[i] = k
                BY DEF Lists
            <3>2. i \in V
                BY <1>1, <3>1
            <3>3. PICK n \in 1..l : g[n] = i
                BY <1>4, <3>2 DEF Lists
            <3> QED
                BY <1>6, <3>1, <3>3
        <2>3. ASSUME NEW i \in 1..l, NEW j \in 1..l, i < j PROVE h[i] < h[j]
            <3>1. g[i] < g[j]
                BY <1>4, <2>3 DEF Lists
            <3> QED
                BY <1>6, <3>1 DEF Lists
        <2> QED
            BY <1>3, <2>1, <2>2, <2>3 DEF Lists
    <1>8. X \in SUBSET Nat
        OBVIOUS
    <1>9. Pick(s, X) = [n \in 1..l |-> s[h[n]]]
        BY <1>7, <1>8, PickIs
    <1>10. PICK p : p = Pick(s, W)
        OBVIOUS
    <1>11. \A n \in 1..m : p[n] = s[f[n]]
        <2>1. Pick(s, W) = [n \in 1..m |-> s[f[n]]]
            BY PickIs
        <2> QED
            BY <1>10, <2>1
    <1>12. Pick(p, V) = [n \in 1..l |-> p[g[n]]]
        BY <1>2, <1>4, PickIs
    <1>13. \A n \in 1..l : p[g[n]] = s[h[n]]
        BY <1>6, <1>11
    <1> QED
        BY <1>1, <1>9, <1>10, <1>12, <1>13

LEMMA PickNone ==
    ASSUME NEW s
    PROVE  Pick(s, {}) = <<>>
    <1>1. Lists(<<>>, 0, {})
        BY DEF Lists
    <1>2. Pick(s, {}) = [n \in 1..0 |-> s[<<>>[n]]]
        BY <1>1, PickIs
    <1> QED
        BY <1>2

LEMMA PickAll ==
    ASSUME NEW s, IsSeq(s)
    PROVE  Pick(s, DOMAIN s) = s
    <1>1. PICK m : m = Len(s)
        OBVIOUS
    <1>2. m \in Nat /\ DOMAIN s = 1..m
        BY <1>1, SeqFacts
    <1>3. PICK f : f = [n \in 1..m |-> n]
        OBVIOUS
    <1>4. Lists(f, m, 1..m)
        BY <1>2, <1>3 DEF Lists
    <1>5. 1..m \in SUBSET Nat
        BY <1>2
    <1>6. Pick(s, 1..m) = [n \in 1..m |-> s[f[n]]]
        BY <1>4, <1>5, PickIs
    <1>7. PICK p : p = Pick(s, 1..m)
        OBVIOUS
    <1>8. IsSeq(p) /\ Len(p) = m
        <2>1. p \in [1..m -> {s[f[n]] : n \in 1..m}]
            BY <1>6, <1>7
        <2> QED
            BY <1>2, <2>1, FunctionIsSeq
    <1>9. \A n \in 1..m : p[n] = s[n]
        BY <1>3, <1>6, <1>7
    <1>10. p = s
        BY <1>1, <1>8, <1>9, SameSeq
    <1> QED
        BY <1>2, <1>7, <1>10

(* What a selection holds.                                                 *)
LEMMA PickRange ==
    ASSUME NEW s, IsSeq(s), NEW W \in SUBSET DOMAIN s
    PROVE  /\ ToSet(Pick(s, W)) = {s[k] : k \in W}
           /\ Len(Pick(s, W)) <= Len(s)
    <1>m. PICK m \in Nat : \E f : /\ Lists(f, m, W)
                                  /\ Pick(s, W) = [n \in 1..m |-> s[f[n]]]
                                  /\ IsSeq(Pick(s, W)) /\ Len(Pick(s, W)) = m
        BY PickFacts
    <1>1. PICK f : /\ Lists(f, m, W)
                   /\ Pick(s, W) = [n \in 1..m |-> s[f[n]]]
                   /\ IsSeq(Pick(s, W)) /\ Len(Pick(s, W)) = m
        BY <1>m
    <1>2. /\ \A n \in 1..m : f[n] \in W
          /\ \A k \in W : \E n \in 1..m : f[n] = k
        BY <1>1 DEF Lists
    <1>3. ToSet(Pick(s, W)) = {s[f[n]] : n \in 1..m}
        BY <1>1 DEF ToSet
    <1>4. m <= Len(s)
        <2>1. PICK l : l = Len(s)
            OBVIOUS
        <2>2. W \in SUBSET Nat /\ l \in Nat /\ DOMAIN s = 1..l
            BY <2>1, SeqFacts
        <2>3. IsFiniteSet(1..l) /\ Cardinality(1..l) = l
            BY <2>2, FS_Interval
        <2>4. Cardinality(W) <= Cardinality(1..l)
            BY <2>2, <2>3, FS_Subset
        <2>5. Cardinality(W) = m
            BY <1>1, <2>2, CountOf
        <2> QED
            BY <2>1, <2>3, <2>4, <2>5
    <1> QED
        BY <1>1, <1>2, <1>3, <1>4

LEMMA ConcatRange ==
    ASSUME NEW s, IsSeq(s), NEW t, IsSeq(t)
    PROVE  ToSet(s \o t) = ToSet(s) \cup ToSet(t)
    <1>1. /\ IsSeq(s \o t) /\ Len(s \o t) = Len(s) + Len(t)
          /\ \A n \in 1..Len(s) : (s \o t)[n] = s[n]
          /\ \A n \in 1..Len(t) : (s \o t)[Len(s) + n] = t[n]
        BY ConcatFacts
    <1>2. /\ Len(s) \in Nat /\ DOMAIN s = 1..Len(s)
          /\ Len(t) \in Nat /\ DOMAIN t = 1..Len(t)
          /\ DOMAIN (s \o t) = 1..(Len(s) + Len(t))
        BY <1>1, SeqFacts
    <1>3. \A k \in 1..(Len(s) + Len(t)) :
             k \in 1..Len(s) \/ \E n \in 1..Len(t) : k = Len(s) + n
        <2> SUFFICES ASSUME NEW k \in 1..(Len(s) + Len(t)), ~(k <= Len(s))
                     PROVE  \E n \in 1..Len(t) : k = Len(s) + n
            BY <1>2
        <2>1. k - Len(s) \in 1..Len(t) /\ k = Len(s) + (k - Len(s))
            BY <1>2
        <2> QED
            BY <2>1
    <1>4. \A n \in 1..Len(s) : n \in 1..(Len(s) + Len(t))
        BY <1>2
    <1>5. \A n \in 1..Len(t) : Len(s) + n \in 1..(Len(s) + Len(t))
        BY <1>2
    <1>6. ASSUME NEW x \in ToSet(s \o t) PROVE x \in ToSet(s) \cup ToSet(t)
        <2>1. PICK k \in 1..(Len(s) + Len(t)) : x = (s \o t)[k]
            BY <1>2 DEF ToSet
        <2> QED
            BY <1>1, <1>2, <1>3, <2>1 DEF ToSet
    <1>7. ASSUME NEW x \in ToSet(s) PROVE x \in ToSet(s \o t)
        <2>1. PICK k \in 1..Len(s) : x = s[k]
            BY <1>2 DEF ToSet
        <2> QED
            BY <1>1, <1>2, <1>4, <2>1 DEF ToSet
    <1>8. ASSUME NEW x \in ToSet(t) PROVE x \in ToSet(s \o t)
        <2>1. PICK k \in 1..Len(t) : x = t[k]
            BY <1>2 DEF ToSet
        <2> QED
            BY <1>1, <1>2, <1>5, <2>1 DEF ToSet
    <1> QED
        BY <1>6, <1>7, <1>8

-----------------------------------------------------------------------------
(***************************************************************************)
(* The parts of a kind.                                                    *)
(***************************************************************************)
IsPart(p) ==
    /\ p.kind \in PartKinds
    /\ p.kind # "header" => p.header = ""
    /\ p.regex \in BOOLEAN

IsParts(list) == IsSeq(list) /\ \A p \in ToSet(list) : IsPart(p)

LEMMA NothingSeq ==
    ASSUME NEW s, s = <<>>
    PROVE  IsSeq(s) /\ Len(s) = 0 /\ DOMAIN s = {} /\ ToSet(s) = {}
    <1>1. s \in Seq({})
        OBVIOUS
    <1>2. IsSeq(s)
        BY <1>1 DEF IsSeq
    <1>3. Len(s) = 0
        OBVIOUS
    <1>4. DOMAIN s = {}
        BY <1>1, <1>3
    <1>5. ToSet(s) = {}
        BY <1>4 DEF ToSet
    <1> QED
        BY <1>2, <1>3, <1>4, <1>5

LEMMA OnlyEmpty ==
    ASSUME NEW s, IsSeq(s)
    PROVE  /\ s = <<>> <=> ToSet(s) = {}
           /\ s = <<>> <=> Len(s) = 0
           /\ s = <<>> <=> DOMAIN s = {}
    <1>1. PICK e : e = <<>>
        OBVIOUS
    <1>2. IsSeq(e) /\ Len(e) = 0 /\ DOMAIN e = {} /\ ToSet(e) = {}
        BY <1>1, NothingSeq
    <1>3. Len(s) \in Nat /\ DOMAIN s = 1..Len(s)
        BY SeqFacts
    <1>4. Len(s) = 0 => s = e
        BY <1>2, SameSeq
    <1>5. DOMAIN s = {} => Len(s) = 0
        BY <1>3
    <1>6. ToSet(s) = {} => DOMAIN s = {}
        BY DEF ToSet
    <1>7. s = e => ToSet(s) = {} /\ Len(s) = 0 /\ DOMAIN s = {}
        BY <1>2
    <1> QED
        BY <1>1, <1>4, <1>5, <1>6, <1>7

LEMMA OfKindFacts ==
    ASSUME NEW s, IsSeq(s), NEW kind
    PROVE  /\ IsSeq(OfKind(s, kind))
           /\ Len(OfKind(s, kind)) <= Len(s)
           /\ ToSet(OfKind(s, kind)) = {p \in ToSet(s) : p.kind = kind}
    <1>1. PICK W : W = {k \in DOMAIN s : s[k].kind = kind}
        OBVIOUS
    <1>2. W \in SUBSET DOMAIN s /\ OfKind(s, kind) = Pick(s, W)
        BY <1>1 DEF OfKind
    <1>3. ToSet(Pick(s, W)) = {s[k] : k \in W} /\ Len(Pick(s, W)) <= Len(s)
        BY <1>2, PickRange
    <1>4. {s[k] : k \in W} = {p \in ToSet(s) : p.kind = kind}
        BY <1>1 DEF ToSet
    <1>5. IsSeq(Pick(s, W))
        BY <1>2, PickFacts
    <1> QED
        BY <1>2, <1>3, <1>4, <1>5

LEMMA OfKindConcat ==
    ASSUME NEW s, IsSeq(s), NEW t, IsSeq(t), NEW kind
    PROVE  OfKind(s \o t, kind) = OfKind(s, kind) \o OfKind(t, kind)
    <1>1. PICK V, W, X : /\ V = {k \in DOMAIN s : s[k].kind = kind}
                         /\ W = {k \in DOMAIN t : t[k].kind = kind}
                         /\ X = {k \in DOMAIN (s \o t) : (s \o t)[k].kind = kind}
        OBVIOUS
    <1>2. /\ IsSeq(s \o t) /\ Len(s \o t) = Len(s) + Len(t)
          /\ \A n \in 1..Len(s) : (s \o t)[n] = s[n]
          /\ \A n \in 1..Len(t) : (s \o t)[Len(s) + n] = t[n]
        BY ConcatFacts
    <1>3. /\ Len(s) \in Nat /\ DOMAIN s = 1..Len(s)
          /\ Len(t) \in Nat /\ DOMAIN t = 1..Len(t)
          /\ DOMAIN (s \o t) = 1..(Len(s) + Len(t))
        BY <1>2, SeqFacts
    <1>4. ASSUME NEW k \in X PROVE k \in V \/ \E n \in W : k = Len(s) + n
        <2>1. k \in 1..(Len(s) + Len(t)) /\ (s \o t)[k].kind = kind
            BY <1>1, <1>3
        <2>2. CASE k <= Len(s)
            <3>1. k \in 1..Len(s)
                BY <1>3, <2>1, <2>2
            <3> QED
                BY <1>1, <1>2, <1>3, <2>1, <3>1
        <2>3. CASE ~(k <= Len(s))
            <3>1. PICK n : n = k - Len(s)
                OBVIOUS
            <3>2. n \in 1..Len(t) /\ k = Len(s) + n
                BY <1>3, <2>1, <2>3, <3>1
            <3> QED
                BY <1>1, <1>2, <1>3, <2>1, <3>2
        <2> QED
            BY <2>2, <2>3
    <1>5. ASSUME NEW k \in V PROVE k \in X
        <2>1. k \in 1..Len(s) /\ s[k].kind = kind
            BY <1>1, <1>3
        <2>2. k \in 1..(Len(s) + Len(t))
            BY <1>3, <2>1
        <2> QED
            BY <1>1, <1>2, <1>3, <2>1, <2>2
    <1>6. ASSUME NEW n \in W PROVE Len(s) + n \in X
        <2>1. n \in 1..Len(t) /\ t[n].kind = kind
            BY <1>1, <1>3
        <2>2. Len(s) + n \in 1..(Len(s) + Len(t))
            BY <1>3, <2>1
        <2> QED
            BY <1>1, <1>2, <1>3, <2>1, <2>2
    <1>7. Spliced(X, V, W, Len(s))
        BY <1>4, <1>5, <1>6 DEF Spliced
    <1>8. V \in SUBSET DOMAIN s /\ W \in SUBSET DOMAIN t
        BY <1>1
    <1>9. PICK st : st = s \o t
        OBVIOUS
    <1>10. Pick(st, X) = Pick(s, V) \o Pick(t, W)
        BY <1>7, <1>8, <1>9, PickConcat
    <1> QED
        BY <1>1, <1>9, <1>10 DEF OfKind

(* A list with parts of one kind only.                                     *)
LEMMA OfKindUniform ==
    ASSUME NEW s, IsSeq(s), NEW only, \A p \in ToSet(s) : p.kind = only, NEW kind
    PROVE  OfKind(s, kind) = IF kind = only THEN s ELSE <<>>
    <1>1. \A k \in DOMAIN s : s[k].kind = only
        BY DEF ToSet
    <1>2. CASE kind = only
        <2>1. {k \in DOMAIN s : s[k].kind = kind} = DOMAIN s
            BY <1>1, <1>2
        <2> QED
            BY <1>2, <2>1, PickAll DEF OfKind
    <1>3. CASE kind # only
        <2>1. {k \in DOMAIN s : s[k].kind = kind} = {}
            BY <1>1, <1>3
        <2> QED
            BY <1>3, <2>1, PickNone DEF OfKind
    <1> QED
        BY <1>2, <1>3

LEMMA WithoutFacts ==
    ASSUME NEW s, IsSeq(s), NEW drop, NEW kind
    PROVE  /\ IsSeq(Without(s, drop))
           /\ ToSet(Without(s, drop)) \subseteq ToSet(s)
           /\ OfKind(Without(s, drop), kind)
                = IF kind = drop THEN <<>> ELSE OfKind(s, kind)
    <1>1. PICK W : W = {k \in DOMAIN s : s[k].kind # drop}
        OBVIOUS
    <1>2. W \in SUBSET DOMAIN s /\ Without(s, drop) = Pick(s, W)
        BY <1>1 DEF Without
    <1>3. PICK p : p = Pick(s, W)
        OBVIOUS
    <1>m. PICK m \in Nat : \E f : /\ Lists(f, m, W)
                                  /\ p = [n \in 1..m |-> s[f[n]]]
                                  /\ IsSeq(p) /\ Len(p) = m
        BY <1>2, <1>3, PickFacts
    <1>4. PICK f : /\ Lists(f, m, W)
                   /\ p = [n \in 1..m |-> s[f[n]]]
                   /\ IsSeq(p) /\ Len(p) = m
        BY <1>m
    <1>5. ToSet(p) \subseteq ToSet(s)
        BY <1>2, <1>3, PickRange DEF ToSet
    <1>6. \A n \in 1..m : f[n] \in W /\ p[n] = s[f[n]]
        BY <1>4 DEF Lists
    <1>7. CASE kind = drop
        <2>1. {n \in DOMAIN p : p[n].kind = kind} = {}
            BY <1>1, <1>4, <1>6, <1>7
        <2>2. OfKind(p, kind) = <<>>
            BY <2>1, PickNone DEF OfKind
        <2> QED
            BY <1>2, <1>3, <1>4, <1>5, <1>7, <2>2
    <1>8. CASE kind # drop
        <2>1. PICK X : X = {k \in DOMAIN s : s[k].kind = kind}
            OBVIOUS
        <2>2. X \in SUBSET W
            BY <1>1, <1>8, <2>1
        <2>3. {n \in DOMAIN p : p[n].kind = kind} = {n \in 1..m : f[n] \in X}
            BY <1>1, <1>4, <1>6, <2>1
        <2>4. W \in SUBSET Nat
            BY <1>2, SeqFacts
        <2>5. Pick(p, {n \in 1..m : f[n] \in X}) = Pick(s, X)
            <3>1. Lists(f, m, W)
                BY <1>4
            <3>2. Pick(Pick(s, W), {n \in 1..m : f[n] \in X}) = Pick(s, X)
                BY <2>2, <2>4, <3>1, PickPick
            <3> QED
                BY <1>3, <3>2
        <2>6. OfKind(p, kind) = OfKind(s, kind)
            BY <2>1, <2>3, <2>5 DEF OfKind
        <2> QED
            BY <1>2, <1>3, <1>4, <1>5, <1>8, <2>6
    <1> QED
        BY <1>7, <1>8

(* What add makes of the entries of an annotation or of a rule.            *)
LEMMA AddedFacts ==
    ASSUME NEW kind \in PartKinds, NEW entries, IsEntries(entries)
    PROVE  /\ IsParts(Added(kind, entries))
           /\ \A p \in ToSet(Added(kind, entries)) : p.kind = kind
           /\ Len(Added(kind, entries)) <= Len(entries)
    <1>1. PICK l : l = Len(entries)
        OBVIOUS
    <1>2. l \in Nat /\ entries = [k \in 1..l |-> entries[k]]
        BY <1>1 DEF IsEntries
    <1>3. entries \in [1..l -> {entries[k] : k \in 1..l}]
        BY <1>2
    <1>4. IsSeq(entries)
        BY <1>2, <1>3, FunctionIsSeq
    <1>5. PICK W : W = {k \in DOMAIN entries : entries[k].regex # "bad"}
        OBVIOUS
    <1>6. PICK good : good = Pick(entries, W)
        OBVIOUS
    <1>7. W \in SUBSET DOMAIN entries
        BY <1>5
    <1>8. IsSeq(good) /\ Len(good) <= Len(entries)
        BY <1>4, <1>6, <1>7, PickFacts, PickRange
    <1>9. PICK a : a = Added(kind, entries)
        OBVIOUS
    <1>10. a = [k \in DOMAIN good |->
                  [kind |-> kind,
                   header |-> IF kind = "header" THEN good[k].header ELSE "",
                   val |-> good[k].val, regex |-> good[k].regex = "yes"]]
        BY <1>5, <1>6, <1>9 DEF Added
    <1>11. PICK m : m = Len(good)
        OBVIOUS
    <1>12. m \in Nat /\ DOMAIN good = 1..m
        BY <1>8, <1>11, SeqFacts
    <1>13. a \in [1..m -> {a[k] : k \in 1..m}]
        BY <1>10, <1>12
    <1>14. IsSeq(a) /\ Len(a) = m
        BY <1>12, <1>13, FunctionIsSeq
    <1>15. ASSUME NEW k \in 1..m PROVE IsPart(a[k]) /\ a[k].kind = kind
        <2>1. a[k].kind = kind
            BY <1>10, <1>12
        <2>2. a[k].header = IF kind = "header" THEN good[k].header ELSE ""
            BY <1>10, <1>12
        <2>3. a[k].regex = (good[k].regex = "yes")
            BY <1>10, <1>12
        <2> QED
            BY <2>1, <2>2, <2>3 DEF IsPart
    <1>16. \A p \in ToSet(a) : IsPart(p) /\ p.kind = kind
        BY <1>13, <1>15 DEF ToSet
    <1> QED
        BY <1>1, <1>8, <1>9, <1>11, <1>14, <1>16 DEF IsParts

LEMMA ConcatNothing ==
    ASSUME NEW s, IsSeq(s)
    PROVE  s \o <<>> = s /\ <<>> \o s = s
    <1>1. PICK S : s \in Seq(S)
        BY DEF IsSeq
    <1> QED
        BY <1>1

(* Parts of one kind are appended.                                         *)
LEMMA Appended ==
    ASSUME NEW s, IsParts(s), NEW t, IsParts(t),
           NEW only, \A p \in ToSet(t) : p.kind = only
    PROVE  /\ IsParts(s \o t)
           /\ OfKind(s \o t, only) = OfKind(s, only) \o t
           /\ \A kind : kind # only => OfKind(s \o t, kind) = OfKind(s, kind)
    <1>1. IsSeq(s) /\ IsSeq(t)
        BY DEF IsParts
    <1>2. PICK st : st = s \o t
        OBVIOUS
    <1>3. IsSeq(st) /\ ToSet(st) = ToSet(s) \cup ToSet(t)
        BY <1>1, <1>2, ConcatFacts, ConcatRange
    <1>4. IsParts(st)
        BY <1>3 DEF IsParts
    <1>5. ASSUME NEW kind
          PROVE  OfKind(st, kind)
                    = IF kind = only THEN OfKind(s, kind) \o t ELSE OfKind(s, kind)
        <2>1. OfKind(st, kind) = OfKind(s, kind) \o OfKind(t, kind)
            BY <1>1, <1>2, OfKindConcat
        <2>2. OfKind(t, kind) = IF kind = only THEN t ELSE <<>>
            BY <1>1, OfKindUniform
        <2>3. PICK o : o = OfKind(s, kind)
            OBVIOUS
        <2>4. IsSeq(o)
            BY <1>1, <2>3, OfKindFacts
        <2>5. o \o <<>> = o
            BY <2>4, ConcatNothing
        <2> QED
            BY <2>1, <2>2, <2>3, <2>5
    <1> QED
        BY <1>2, <1>4, <1>5

(* A host or a path of a rule takes the place of the parts of that kind.   *)
LEMMA ReplacedFacts ==
    ASSUME NEW s, IsParts(s), NEW only \in PartKinds, NEW entries, IsEntries(entries)
    PROVE  /\ IsParts(Replaced(s, only, entries))
           /\ \A kind : OfKind(Replaced(s, only, entries), kind)
                = IF kind = only /\ entries # <<>> THEN Added(only, entries)
                  ELSE OfKind(s, kind)
    <1>1. CASE entries = <<>>
        BY <1>1 DEF Replaced
    <1>2. CASE entries # <<>>
        <2>1. PICK w, a : w = Without(s, only) /\ a = Added(only, entries)
            OBVIOUS
        <2>2. PICK wa : wa = w \o a
            OBVIOUS
        <2>3. Replaced(s, only, entries) = wa
            BY <1>2, <2>1, <2>2 DEF Replaced
        <2>4. IsParts(a) /\ \A p \in ToSet(a) : p.kind = only
            BY <2>1, AddedFacts
        <2>5. IsSeq(s)
            BY DEF IsParts
        <2>6. /\ IsSeq(w) /\ ToSet(w) \subseteq ToSet(s)
              /\ \A kind : OfKind(w, kind) = IF kind = only THEN <<>> ELSE OfKind(s, kind)
            BY <2>1, <2>5, WithoutFacts
        <2>7. IsParts(w)
            BY <2>6 DEF IsParts
        <2>8. /\ IsParts(wa)
              /\ OfKind(wa, only) = OfKind(w, only) \o a
              /\ \A kind : kind # only => OfKind(wa, kind) = OfKind(w, kind)
            BY <2>2, <2>4, <2>7, Appended
        <2>9. <<>> \o a = a
            BY <2>4, ConcatNothing DEF IsParts
        <2>10. OfKind(w, only) \o a = a
            BY <2>6, <2>9
        <2>11. \A kind : OfKind(wa, kind) = IF kind = only THEN a ELSE OfKind(s, kind)
            BY <2>6, <2>8, <2>10
        <2> QED
            BY <1>2, <2>1, <2>3, <2>8, <2>11
    <1> QED
        BY <1>1, <1>2

(* What a rule leaves of each kind.                                        *)
AfterRule(s, r, kind) ==
    IF kind = "host" /\ r.host # <<>> THEN Added("host", r.host)
    ELSE IF kind = "path" /\ r.path # <<>> THEN Added("path", r.path)
    ELSE OfKind(s, kind)

LEMMA RuledFacts ==
    ASSUME NEW s, IsParts(s), NEW r \in IngressRules
    PROVE  /\ IsParts(Ruled(s, r))
           /\ \A kind : OfKind(Ruled(s, r), kind) = AfterRule(s, r, kind)
    <1>1. IsEntries(r.host) /\ IsEntries(r.path)
        BY RulesAssumption
    <1>2. "host" \in PartKinds /\ "path" \in PartKinds
        BY DEF PartKinds
    <1>3. PICK h : h = Replaced(s, "host", r.host)
        OBVIOUS
    <1>4. /\ IsParts(h)
          /\ \A kind : OfKind(h, kind)
               = IF kind = "host" /\ r.host # <<>> THEN Added("host", r.host)
                 ELSE OfKind(s, kind)
        BY <1>1, <1>2, <1>3, ReplacedFacts
    <1>5. /\ IsParts(Replaced(h, "path", r.path))
          /\ \A kind : OfKind(Replaced(h, "path", r.path), kind)
               = IF kind = "path" /\ r.path # <<>> THEN Added("path", r.path)
                 ELSE OfKind(h, kind)
        BY <1>1, <1>2, <1>4, ReplacedFacts
    <1>6. Ruled(s, r) = Replaced(h, "path", r.path)
        BY <1>3 DEF Ruled
    <1> QED
        BY <1>4, <1>5, <1>6 DEF AfterRule

-----------------------------------------------------------------------------
(***************************************************************************)
(* A provider looks at the parts kind by kind.                             *)
(***************************************************************************)
SameByKind(s, t) == \A kind \in PartKinds : OfKind(s, kind) = OfKind(t, kind)

LEMMA NothingByKind ==
    ASSUME NEW s, IsParts(s), NEW t, IsParts(t), SameByKind(s, t), t = <<>>
    PROVE  s = <<>>
    <1>1. IsSeq(s) /\ IsSeq(t)
        BY DEF IsParts
    <1>2. ASSUME NEW p \in ToSet(s) PROVE FALSE
        <2>1. p.kind \in PartKinds
            BY DEF IsParts, IsPart
        <2>2. p \in ToSet(OfKind(s, p.kind))
            BY <1>1, OfKindFacts
        <2>3. p \in ToSet(OfKind(t, p.kind))
            BY <2>1, <2>2 DEF SameByKind
        <2>4. p \in ToSet(t)
            BY <1>1, <2>3, OfKindFacts
        <2> QED
            BY <2>4, NothingSeq
    <1> QED
        BY <1>1, <1>2, OnlyEmpty

LEMMA SameRoutes ==
    ASSUME NEW s, IsParts(s), NEW t, IsParts(t), SameByKind(s, t)
    PROVE  VulcandRoute(s) = VulcandRoute(t) /\ TraefikRoute(s) = TraefikRoute(t)
    <1>1. /\ OfKind(s, "host") = OfKind(t, "host")
          /\ OfKind(s, "path") = OfKind(t, "path")
          /\ OfKind(s, "prefix") = OfKind(t, "prefix")
          /\ OfKind(s, "method") = OfKind(t, "method")
          /\ OfKind(s, "header") = OfKind(t, "header")
        BY DEF SameByKind, PartKinds
    <1>2. s = <<>> <=> t = <<>>
        <2>1. SameByKind(t, s)
            BY DEF SameByKind
        <2> QED
            BY <2>1, NothingByKind
    <1>3. VulcandPath(s) = VulcandPath(t)
        BY <1>1 DEF VulcandPath
    <1>4. VulcandRoute(s) = VulcandRoute(t)
        BY <1>1, <1>2, <1>3 DEF VulcandRoute
    <1>5. TraefikHeaders(s) = TraefikHeaders(t)
        BY <1>1 DEF TraefikHeaders
    <1>6. \A kind \in {"host", "method", "path", "prefix"} :
             TraefikRules(s, kind) = TraefikRules(t, kind)
        BY <1>1 DEF TraefikRules
    <1>7. TraefikRoute(s) = TraefikRoute(t)
        BY <1>5, <1>6 DEF TraefikRoute
    <1> QED
        BY <1>4, <1>7

(* What Listed and InOrder hold.                                           *)
LEMMA ListedFacts ==
    ASSUME annos \in Annotations, NEW kind \in PartKinds
    PROVE  /\ IsParts(Listed(kind))
           /\ \A p \in ToSet(Listed(kind)) : p.kind = kind
           /\ kind \in {"host", "path", "prefix"} => Len(Listed(kind)) <= 1
    <1>1. CASE kind \in DOMAIN annos
        <2>1. /\ IsEntries(annos[kind])
              /\ kind \in {"host", "path", "prefix"} => Len(annos[kind]) <= 1
            BY <1>1, AnnotationsAssumption
        <2>2. /\ IsParts(Added(kind, annos[kind]))
              /\ \A p \in ToSet(Added(kind, annos[kind])) : p.kind = kind
              /\ Len(Added(kind, annos[kind])) <= Len(annos[kind])
            BY <2>1, AddedFacts
        <2>3. Len(Added(kind, annos[kind])) \in Nat /\ Len(annos[kind]) \in Nat
            BY <2>1, <2>2, SeqFacts DEF IsEntries, IsParts
        <2> QED
            BY <1>1, <2>1, <2>2, <2>3 DEF Listed
    <1>2. CASE kind \notin DOMAIN annos
        <2>1. PICK e : e = <<>>
            OBVIOUS
        <2>2. IsSeq(e) /\ Len(e) = 0 /\ ToSet(e) = {}
            BY <2>1, NothingSeq
        <2>3. Listed(kind) = e
            BY <1>2, <2>1 DEF Listed
        <2> QED
            BY <2>2, <2>3 DEF IsParts
    <1> QED
        BY <1>1, <1>2

Walked ==
    Listed("host") \o Listed("path") \o Listed("prefix")
    \o Listed("method") \o Listed("header")

LEMMA WalkedFacts ==
    ASSUME annos \in Annotations
    PROVE  /\ IsParts(Walked)
           /\ \A kind \in PartKinds : OfKind(Walked, kind) = Listed(kind)
    <1>1. PICK h, p, x, m, d : /\ h = Listed("host") /\ p = Listed("path")
                               /\ x = Listed("prefix") /\ m = Listed("method")
                               /\ d = Listed("header")
        OBVIOUS
    <1>2. /\ IsParts(h) /\ \A q \in ToSet(h) : q.kind = "host"
          /\ IsParts(p) /\ \A q \in ToSet(p) : q.kind = "path"
          /\ IsParts(x) /\ \A q \in ToSet(x) : q.kind = "prefix"
          /\ IsParts(m) /\ \A q \in ToSet(m) : q.kind = "method"
          /\ IsParts(d) /\ \A q \in ToSet(d) : q.kind = "header"
        BY <1>1, ListedFacts DEF PartKinds
    <1>3. <<>> \o p = p /\ <<>> \o x = x /\ <<>> \o m = m /\ <<>> \o d = d
        BY <1>2, ConcatNothing DEF IsParts
    <1>4. PICK hp : hp = h \o p
        OBVIOUS
    <1>5. PICK hx : hx = hp \o x
        OBVIOUS
    <1>6. PICK hm : hm = hx \o m
        OBVIOUS
    <1>7. PICK hd : hd = hm \o d
        OBVIOUS
    <1>8. \A kind : OfKind(h, kind) = IF kind = "host" THEN h ELSE <<>>
        BY <1>2, OfKindUniform DEF IsParts
    <1>9. /\ IsParts(hp)
          /\ OfKind(hp, "path") = OfKind(h, "path") \o p
          /\ \A kind : kind # "path" => OfKind(hp, kind) = OfKind(h, kind)
        BY <1>2, <1>4, Appended
    <1>10. OfKind(hp, "path") = p
        BY <1>3, <1>8, <1>9
    <1>11. /\ IsParts(hx)
           /\ OfKind(hx, "prefix") = OfKind(hp, "prefix") \o x
           /\ \A kind : kind # "prefix" => OfKind(hx, kind) = OfKind(hp, kind)
        BY <1>2, <1>5, <1>9, Appended
    <1>12. OfKind(hx, "prefix") = x
        BY <1>3, <1>8, <1>9, <1>11
    <1>13. /\ IsParts(hm)
           /\ OfKind(hm, "method") = OfKind(hx, "method") \o m
           /\ \A kind : kind # "method" => OfKind(hm, kind) = OfKind(hx, kind)
        BY <1>2, <1>6, <1>11, Appended
    <1>14. OfKind(hm, "method") = m
        BY <1>3, <1>8, <1>9, <1>11, <1>13
    <1>15. /\ IsParts(hd)
           /\ OfKind(hd, "header") = OfKind(hm, "header") \o d
           /\ \A kind : kind # "header" => OfKind(hd, kind) = OfKind(hm, kind)
        BY <1>2, <1>7, <1>13, Appended
    <1>16. OfKind(hd, "header") = d
        BY <1>3, <1>8, <1>9, <1>11, <1>13, <1>15
    <1>17. /\ OfKind(hd, "host") = h /\ OfKind(hd, "path") = p
           /\ OfKind(hd, "prefix") = x /\ OfKind(hd, "method") = m
        BY <1>8, <1>9, <1>10, <1>11, <1>12, <1>13, <1>14, <1>15
    <1>18. Walked = hd
        BY <1>1, <1>4, <1>5, <1>6, <1>7 DEF Walked
    <1>19. \A kind \in PartKinds : OfKind(hd, kind) = Listed(kind)
        BY <1>1, <1>16, <1>17 DEF PartKinds
    <1> QED
        BY <1>15, <1>18, <1>19

LEMMA InOrderFacts ==
    ASSUME annos \in Annotations, rule \in {<<>>} \cup {<<r>> : r \in IngressRules}
    PROVE  /\ IsParts(InOrder)
           /\ \A kind \in PartKinds : OfKind(InOrder, kind)
                = IF rule = <<>> THEN Listed(kind) ELSE AfterRule(Walked, rule[1], kind)
    <1>1. InOrder = IF rule = <<>> THEN Walked ELSE Ruled(Walked, rule[1])
        BY DEF InOrder, Walked
    <1>2. /\ IsParts(Walked)
          /\ \A kind \in PartKinds : OfKind(Walked, kind) = Listed(kind)
        BY WalkedFacts
    <1>3. CASE rule = <<>>
        BY <1>1, <1>2, <1>3
    <1>4. CASE rule # <<>>
        <2>1. PICK r \in IngressRules : rule = <<r>>
            BY <1>4
        <2>2. rule[1] \in IngressRules
            BY <2>1
        <2>3. /\ IsParts(Ruled(Walked, rule[1]))
              /\ \A kind : OfKind(Ruled(Walked, rule[1]), kind)
                             = AfterRule(Walked, rule[1], kind)
            BY <1>2, <2>2, RuledFacts
        <2> QED
            BY <1>1, <1>4, <2>3
    <1> QED
        BY <1>3, <1>4

-----------------------------------------------------------------------------
(***************************************************************************)
(* The invariant.                                                          *)
(***************************************************************************)
Shape ==
    /\ annos \in Annotations
    /\ rule \in {<<>>} \cup {<<r>> : r \in IngressRules}
    /\ todo \in SUBSET DOMAIN annos
    /\ applied \in BOOLEAN
    /\ applied => todo = {}
    /\ IsParts(parts)

(* What has been walked is there, kind by kind, and nothing else.          *)
Collected ==
    ~applied => \A kind \in PartKinds :
        OfKind(parts, kind) = IF kind \in todo THEN <<>> ELSE Listed(kind)

Settled == applied => SameByKind(parts, InOrder)

RInv == Shape /\ Collected /\ Settled

LEMMA RInvInit ==
    ASSUME Init PROVE RInv
    <1>1. IsSeq(parts) /\ ToSet(parts) = {} /\ DOMAIN parts = {}
        BY NothingSeq DEF Init
    <1>2. Shape
        BY <1>1 DEF Init, Shape, IsParts
    <1>3. ASSUME NEW kind \in PartKinds
          PROVE  OfKind(parts, kind) = IF kind \in todo THEN <<>> ELSE Listed(kind)
        <2>1. {k \in DOMAIN parts : parts[k].kind = kind} = {}
            BY <1>1
        <2>2. OfKind(parts, kind) = <<>>
            BY <2>1, PickNone DEF OfKind
        <2>3. kind \notin todo => Listed(kind) = <<>>
            BY DEF Init, Listed
        <2> QED
            BY <2>2, <2>3
    <1> QED
        BY <1>2, <1>3 DEF Init, RInv, Collected, Settled

LEMMA RInvWalk ==
    ASSUME RInv, NEW key \in todo, Walk(key) PROVE RInv'
    <1>1. key \in PartKinds /\ key \in DOMAIN annos
        BY AnnotationsAssumption DEF RInv, Shape
    <1>2. PICK a : a = Added(key, annos[key])
        OBVIOUS
    <1>3. IsParts(a) /\ \A p \in ToSet(a) : p.kind = key
        BY <1>1, <1>2, AddedFacts, AnnotationsAssumption DEF RInv, Shape
    <1>4. PICK after : after = parts \o a
        OBVIOUS
    <1>5. parts' = after
        BY <1>2, <1>4 DEF Walk
    <1>6. /\ IsParts(after)
          /\ OfKind(after, key) = OfKind(parts, key) \o a
          /\ \A kind : kind # key => OfKind(after, kind) = OfKind(parts, kind)
        BY <1>3, <1>4, Appended DEF RInv, Shape
    <1>7. ~applied /\ ~applied'
        BY DEF RInv, Shape, Walk
    <1>8. OfKind(after, key) = a
        <2>1. OfKind(parts, key) = <<>>
            BY <1>1, <1>7 DEF RInv, Collected
        <2>2. <<>> \o a = a
            BY <1>3, ConcatNothing DEF IsParts
        <2> QED
            BY <1>6, <2>1, <2>2
    <1>9. \A kind : Listed(kind)' = Listed(kind)
        BY DEF Listed, Walk
    <1>10. Shape'
        BY <1>5, <1>6, <1>7 DEF RInv, Shape, Walk
    <1>11. Listed(key) = a
        BY <1>1, <1>2 DEF Listed
    <1>12. Collected'
        <2> SUFFICES ASSUME NEW kind \in PartKinds
                     PROVE  OfKind(after, kind)
                               = IF kind \in todo' THEN <<>> ELSE Listed(kind)
            BY <1>5, <1>9 DEF Collected
        <2>1. todo' = todo \ {key}
            BY DEF Walk
        <2>2. CASE kind = key
            BY <1>8, <1>11, <2>1, <2>2
        <2>3. CASE kind # key
            BY <1>6, <1>7, <2>1, <2>3 DEF RInv, Collected
        <2> QED
            BY <2>2, <2>3
    <1> QED
        BY <1>7, <1>10, <1>12 DEF RInv, Settled

LEMMA RInvApplyRule ==
    ASSUME RInv, ApplyRule PROVE RInv'
    <1>1. \A kind \in PartKinds : OfKind(parts, kind) = Listed(kind)
        BY DEF RInv, Collected, ApplyRule
    <1>2. InOrder' = InOrder
        BY DEF InOrder, Listed, ApplyRule
    <1>3. /\ annos \in Annotations /\ IsParts(parts)
          /\ rule \in {<<>>} \cup {<<r>> : r \in IngressRules}
        BY DEF RInv, Shape
    <1>4. \A kind \in PartKinds : OfKind(InOrder, kind)
             = IF rule = <<>> THEN Listed(kind) ELSE AfterRule(Walked, rule[1], kind)
        BY <1>3, InOrderFacts
    <1>5. IsParts(parts') /\ SameByKind(parts', InOrder)
        <2>1. CASE rule = <<>>
            <3>1. parts' = parts
                BY <2>1 DEF ApplyRule
            <3> QED
                BY <1>1, <1>3, <1>4, <2>1, <3>1 DEF SameByKind
        <2>2. CASE rule # <<>>
            <3>1. PICK r \in IngressRules : rule = <<r>>
                BY <1>3, <2>2
            <3>2. rule[1] \in IngressRules
                BY <3>1
            <3>3. parts' = Ruled(parts, rule[1])
                BY <2>2 DEF ApplyRule
            <3>4. /\ IsParts(Ruled(parts, rule[1]))
                  /\ \A kind : OfKind(Ruled(parts, rule[1]), kind)
                                 = AfterRule(parts, rule[1], kind)
                BY <1>3, <3>2, RuledFacts
            <3>5. \A kind \in PartKinds : OfKind(Walked, kind) = Listed(kind)
                BY <1>3, WalkedFacts
            <3>6. \A kind \in PartKinds :
                     AfterRule(parts, rule[1], kind) = AfterRule(Walked, rule[1], kind)
                BY <1>1, <3>5 DEF AfterRule
            <3> QED
                BY <1>4, <2>2, <3>3, <3>4, <3>6 DEF SameByKind
        <2> QED
            BY <2>1, <2>2
    <1>6. Shape'
        BY <1>5 DEF RInv, Shape, ApplyRule
    <1>7. Settled'
        BY <1>2, <1>5 DEF Settled
    <1>8. Collected'
        BY DEF Collected, ApplyRule
    <1> QED
        BY <1>6, <1>7, <1>8 DEF RInv

LEMMA RInvStutter ==
    ASSUME RInv, UNCHANGED routeVars PROVE RInv'
    <1>1. \A kind : Listed(kind)' = Listed(kind)
        BY DEF Listed, routeVars
    <1>2. InOrder' = InOrder
        BY DEF InOrder, Listed, routeVars
    <1>3. Shape'
        BY DEF RInv, Shape, routeVars
    <1>4. Collected'
        BY <1>1 DEF RInv, Collected, routeVars
    <1>5. Settled'
        BY <1>2 DEF RInv, Settled, routeVars
    <1> QED
        BY <1>3, <1>4, <1>5 DEF RInv

(* The parts of a kind are those that its annotation and the rule list.    *)
THEOREM RoutesInvariant == Spec => []RInv
    <1>1. Init => RInv
        BY RInvInit
    <1>2. RInv /\ [Next]_routeVars => RInv'
        BY RInvWalk, RInvApplyRule, RInvStutter DEF Next
    <1> QED
        BY <1>1, <1>2, PTL DEF Spec

-----------------------------------------------------------------------------
(* However NewRoute's map of annotations is walked, both providers make    *)
(* the same route of it: for any annotations, lists of any length and      *)
(* expressions that do not compile included, and any rule.                 *)
THEOREM OrderDoesNotMatter == Spec => []OrderIrrelevant
    <1>1. RInv => OrderIrrelevant
        <2> SUFFICES ASSUME RInv, applied
                     PROVE  /\ VulcandRoute(parts) = VulcandRoute(InOrder)
                            /\ TraefikRoute(parts) = TraefikRoute(InOrder)
            BY DEF OrderIrrelevant
        <2>1. IsParts(parts) /\ SameByKind(parts, InOrder)
            BY DEF RInv, Shape, Settled
        <2>2. IsParts(InOrder)
            BY InOrderFacts DEF RInv, Shape
        <2> QED
            BY <2>1, <2>2, SameRoutes
    <1> QED
        BY <1>1, RoutesInvariant, PTL

-----------------------------------------------------------------------------
(***************************************************************************)
(* Plain routes.                                                           *)
(***************************************************************************)
LEMMA LastOfOne ==
    ASSUME NEW s, IsSeq(s), Len(s) <= 1
    PROVE  LastOf(s) = s
    <1>1. Len(s) \in Nat /\ DOMAIN s = 1..Len(s)
        BY SeqFacts
    <1>2. CASE s = <<>>
        BY <1>2 DEF LastOf
    <1>3. CASE s # <<>>
        <2>1. Len(s) = 1
            BY <1>1, <1>3, OnlyEmpty
        <2>2. PICK o : o = <<s[1]>>
            OBVIOUS
        <2>3. LastOf(s) = o
            BY <1>3, <2>1, <2>2 DEF LastOf, Last
        <2>4. o \in Seq({s[1]}) /\ Len(o) = 1 /\ o[1] = s[1]
            BY <2>2
        <2>5. IsSeq(o)
            BY <2>4 DEF IsSeq
        <2>6. \A n \in 1..Len(o) : o[n] = s[n]
            BY <2>4
        <2> QED
            BY <2>1, <2>3, <2>4, <2>5, <2>6, SameSeq
    <1> QED
        BY <1>2, <1>3

(* A route has one host, one path and one prefix at most.                  *)
LEMMA OneOfEach ==
    ASSUME RInv, applied, NEW kind \in {"host", "path", "prefix"}
    PROVE  Len(OfKind(parts, kind)) <= 1
    <1>1. kind \in PartKinds
        BY DEF PartKinds
    <1>2. /\ annos \in Annotations
          /\ rule \in {<<>>} \cup {<<r>> : r \in IngressRules}
        BY DEF RInv, Shape
    <1>3. OfKind(parts, kind)
            = IF rule = <<>> THEN Listed(kind) ELSE AfterRule(Walked, rule[1], kind)
        BY <1>1, <1>2, InOrderFacts DEF RInv, Settled, SameByKind
    <1>4. Len(Listed(kind)) <= 1
        BY <1>1, <1>2, ListedFacts
    <1>5. OfKind(Walked, kind) = Listed(kind)
        BY <1>1, <1>2, WalkedFacts
    <1>6. CASE rule # <<>>
        <2>1. PICK r \in IngressRules : rule = <<r>>
            BY <1>2, <1>6
        <2>2. rule[1] = r
            BY <2>1
        <2>3. /\ IsEntries(r.host) /\ Len(r.host) <= 1
              /\ IsEntries(r.path) /\ Len(r.path) <= 1
            BY RulesAssumption
        <2>4. ASSUME NEW only \in PartKinds, NEW entries, IsEntries(entries), Len(entries) <= 1
              PROVE  Len(Added(only, entries)) <= 1
            <3>1. Len(Added(only, entries)) <= Len(entries) /\ IsParts(Added(only, entries))
                BY <2>4, AddedFacts
            <3>2. Len(Added(only, entries)) \in Nat /\ Len(entries) \in Nat
                BY <2>4, <3>1, SeqFacts DEF IsParts, IsEntries
            <3> QED
                BY <2>4, <3>1, <3>2
        <2>5. "host" \in PartKinds /\ "path" \in PartKinds
            BY DEF PartKinds
        <2>6. Len(Added("host", r.host)) <= 1 /\ Len(Added("path", r.path)) <= 1
            BY <2>3, <2>4, <2>5
        <2> QED
            BY <1>3, <1>4, <1>5, <1>6, <2>2, <2>6 DEF AfterRule
    <1> QED
        BY <1>3, <1>4, <1>6

LEMMA PlainMatcher ==
    ASSUME NEW p, IsPart(p), p.regex => p.kind = "header"
    PROVE  SameSort(VulcandPart(p)) = PartMatcher(p)
    <1>1. p.regex \in BOOLEAN
        BY DEF IsPart
    <1>2. PICK v : v = VulcandPart(p)
        OBVIOUS
    <1>3. v = [on |-> p.kind, header |-> p.header, val |-> p.val,
               regex |-> p.regex \/ p.kind = "prefix"]
        BY <1>2 DEF VulcandPart, Matcher
    <1>4. PICK b : b = ((p.regex \/ p.kind = "prefix") /\ p.kind # "prefix")
        OBVIOUS
    <1>5. SameSort(v) = [on |-> p.kind, header |-> p.header, val |-> p.val, regex |-> b]
        <2>1. v.regex = (p.regex \/ p.kind = "prefix") /\ v.on = p.kind
            BY <1>3
        <2>2. (v.regex /\ v.on # "prefix") = b
            BY <1>4, <2>1
        <2>3. SameSort(v) = [v EXCEPT !.regex = b]
            BY <2>2 DEF SameSort
        <2>4. [v EXCEPT !.regex = b]
                = [on |-> p.kind, header |-> p.header, val |-> p.val, regex |-> b]
            BY <1>3
        <2> QED
            BY <2>3, <2>4
    <1>6. b = p.regex
        BY <1>1, <1>4
    <1> QED
        BY <1>2, <1>5, <1>6 DEF PartMatcher, Matcher

(* The parts that vulcand's expression is made of.                         *)
LEMMA VulcandUsesAll ==
    ASSUME NEW s, IsParts(s), Plain(s),
           \A kind \in {"host", "path", "prefix"} : Len(OfKind(s, kind)) <= 1
    PROVE  ToSet(VulcandRoute(s)) = {VulcandPart(p) : p \in ToSet(s)}
    <1>1. IsSeq(s) /\ s # <<>>
        BY DEF IsParts, Plain
    <1>2. \A kind : /\ IsSeq(OfKind(s, kind))
                    /\ ToSet(OfKind(s, kind)) = {p \in ToSet(s) : p.kind = kind}
        BY <1>1, OfKindFacts
    <1>3. PICK h, v, m, d : /\ h = LastOf(OfKind(s, "host")) /\ v = VulcandPath(s)
                            /\ m = OfKind(s, "method") /\ d = OfKind(s, "header")
        OBVIOUS
    <1>4. h = OfKind(s, "host")
        BY <1>2, <1>3, LastOfOne
    <1>5. /\ IsSeq(v)
          /\ ToSet(v) = {p \in ToSet(s) : p.kind \in {"path", "prefix"}}
        <2>1. /\ LastOf(OfKind(s, "path")) = OfKind(s, "path")
              /\ LastOf(OfKind(s, "prefix")) = OfKind(s, "prefix")
            BY <1>2, LastOfOne
        <2>2. CASE OfKind(s, "prefix") = <<>>
            <3>1. v = OfKind(s, "path")
                BY <1>3, <2>1, <2>2 DEF VulcandPath
            <3>2. ToSet(OfKind(s, "prefix")) = {}
                BY <1>2, <2>2, OnlyEmpty
            <3> QED
                BY <1>2, <3>1, <3>2
        <2>3. CASE OfKind(s, "prefix") # <<>>
            <3>1. v = OfKind(s, "prefix") /\ OfKind(s, "path") = <<>>
                BY <1>3, <2>1, <2>3 DEF VulcandPath, Plain
            <3>2. ToSet(OfKind(s, "path")) = {}
                BY <1>2, <3>1, OnlyEmpty
            <3> QED
                BY <1>2, <3>1, <3>2
        <2> QED
            BY <2>2, <2>3
    <1>6. PICK hv : hv = h \o v
        OBVIOUS
    <1>7. IsSeq(hv) /\ ToSet(hv) = ToSet(h) \cup ToSet(v)
        BY <1>2, <1>4, <1>5, <1>6, ConcatFacts, ConcatRange
    <1>8. PICK hm : hm = hv \o m
        OBVIOUS
    <1>9. IsSeq(hm) /\ ToSet(hm) = ToSet(hv) \cup ToSet(m)
        BY <1>2, <1>3, <1>7, <1>8, ConcatFacts, ConcatRange
    <1>10. PICK all : all = hm \o d
        OBVIOUS
    <1>11. IsSeq(all) /\ ToSet(all) = ToSet(hm) \cup ToSet(d)
        BY <1>2, <1>3, <1>9, <1>10, ConcatFacts, ConcatRange
    <1>12. \A p \in ToSet(s) :
              p.kind \in {"host", "path", "prefix", "method", "header"}
        BY DEF IsParts, IsPart, PartKinds
    <1>13. ToSet(all) = ToSet(s)
        BY <1>2, <1>3, <1>4, <1>5, <1>7, <1>9, <1>11, <1>12
    <1>14. VulcandRoute(s) = [k \in DOMAIN all |-> VulcandPart(all[k])]
        BY <1>1, <1>3, <1>6, <1>8, <1>10 DEF VulcandRoute
    <1>15. ToSet(VulcandRoute(s)) = {VulcandPart(all[k]) : k \in DOMAIN all}
        BY <1>14 DEF ToSet
    <1>16. {VulcandPart(all[k]) : k \in DOMAIN all} = {VulcandPart(p) : p \in ToSet(all)}
        BY DEF ToSet
    <1> QED
        BY <1>13, <1>15, <1>16

(* The rules that traefik makes.                                           *)
LEMMA TraefikUsesAll ==
    ASSUME NEW s, IsParts(s), Plain(s),
           \A kind \in {"host", "path", "prefix"} : Len(OfKind(s, kind)) <= 1
    PROVE  TraefikRoute(s) = {PartMatcher(p) : p \in ToSet(s)}
    <1>1. IsSeq(s)
        BY DEF IsParts
    <1>2. \A kind : /\ IsSeq(OfKind(s, kind))
                    /\ ToSet(OfKind(s, kind)) = {p \in ToSet(s) : p.kind = kind}
        BY <1>1, OfKindFacts
    <1>3. \A p \in ToSet(s) : p.regex => p.kind = "header"
        BY DEF Plain, ToSet
    <1>4. \A p \in ToSet(s) : IsPart(p)
        BY DEF IsParts
    <1>5. ASSUME NEW kind \in {"host", "method", "path", "prefix"}
          PROVE  TraefikRules(s, kind)
                    = {PartMatcher(p) : p \in {q \in ToSet(s) : q.kind = kind}}
        <2>1. LastOf(OfKind(s, kind)) = OfKind(s, kind)
            BY <1>2, LastOfOne DEF Plain
        <2>2. TraefikRules(s, kind) = {Matcher(kind, "", p.val, FALSE) :
                                          p \in {q \in ToSet(s) : q.kind = kind}}
            BY <1>2, <2>1 DEF TraefikRules
        <2>3. \A p \in ToSet(s) : p.kind = kind =>
                 PartMatcher(p) = Matcher(kind, "", p.val, FALSE)
            <3> SUFFICES ASSUME NEW p \in ToSet(s), p.kind = kind
                         PROVE  PartMatcher(p) = Matcher(kind, "", p.val, FALSE)
                OBVIOUS
            <3>1. p.kind # "header" /\ p.header = "" /\ p.regex = FALSE
                BY <1>3, <1>4 DEF IsPart
            <3> QED
                BY <3>1 DEF PartMatcher
        <2> QED
            BY <2>2, <2>3
    <1>6. TraefikHeaders(s)
             = {PartMatcher(p) : p \in {q \in ToSet(s) : q.kind = "header"}}
        <2>1. PICK d : d = OfKind(s, "header")
            OBVIOUS
        <2>2. ToSet(d) = {q \in ToSet(s) : q.kind = "header"}
            BY <1>2, <2>1
        <2>3. TraefikHeaders(s)
                 = {Matcher("header", d[k].header, d[k].val, d[k].regex) : k \in DOMAIN d}
            BY <2>1 DEF TraefikHeaders
        <2>4. \A k \in DOMAIN d : d[k] \in ToSet(d) /\ d[k].kind = "header"
            BY <2>2 DEF ToSet
        <2>5. \A k \in DOMAIN d :
                 Matcher("header", d[k].header, d[k].val, d[k].regex) = PartMatcher(d[k])
            BY <2>4 DEF PartMatcher
        <2>6. TraefikHeaders(s) = {PartMatcher(d[k]) : k \in DOMAIN d}
            BY <2>3, <2>5
        <2>7. {PartMatcher(d[k]) : k \in DOMAIN d} = {PartMatcher(p) : p \in ToSet(d)}
            BY DEF ToSet
        <2> QED
            BY <2>2, <2>6, <2>7
    <1>7. \A p \in ToSet(s) : p.kind \in {"host", "method", "path", "prefix"}
                              \/ p.kind = "header"
        BY <1>4 DEF IsPart, PartKinds
    <1>8. \A m : m \in TraefikRoute(s) <=>
              \/ \E kind \in {"host", "method", "path", "prefix"} : m \in TraefikRules(s, kind)
              \/ m \in TraefikHeaders(s)
        <2>1. PICK R, H : /\ R = {TraefikRules(s, kind) :
                                    kind \in {"host", "method", "path", "prefix"}}
                          /\ H = TraefikHeaders(s)
            OBVIOUS
        <2>2. TraefikRoute(s) = (UNION R) \cup H
            BY <2>1 DEF TraefikRoute
        <2>3. \A m : m \in UNION R <=>
                 \E kind \in {"host", "method", "path", "prefix"} : m \in TraefikRules(s, kind)
            BY <2>1
        <2>4. \A m : m \in TraefikRoute(s) <=> m \in UNION R \/ m \in TraefikHeaders(s)
            <3>1. H = TraefikHeaders(s)
                BY <2>1
            <3> QED
                BY <2>2, <3>1
        <2> QED
            BY <2>3, <2>4
    <1>9. ASSUME NEW m \in TraefikRoute(s) PROVE m \in {PartMatcher(p) : p \in ToSet(s)}
        <2>1. \/ \E kind \in {"host", "method", "path", "prefix"} : m \in TraefikRules(s, kind)
              \/ m \in TraefikHeaders(s)
            BY <1>8
        <2> QED
            BY <1>5, <1>6, <2>1
    <1>10. ASSUME NEW p \in ToSet(s) PROVE PartMatcher(p) \in TraefikRoute(s)
        <2>1. CASE p.kind = "header"
            BY <1>6, <1>8, <2>1
        <2>2. CASE p.kind \in {"host", "method", "path", "prefix"}
            <3>1. PartMatcher(p) \in TraefikRules(s, p.kind)
                BY <1>5, <2>2
            <3> QED
                BY <1>8, <2>2, <3>1
        <2> QED
            BY <1>7, <2>1, <2>2
    <1> QED
        BY <1>9, <1>10

(* A route that both providers can say means the same to both, and neither *)
(* drops a part of it.                                                     *)
THEOREM SameToBoth == Spec => []ProvidersAgree
    <1>1. RInv => ProvidersAgree
        <2> SUFFICES ASSUME RInv, applied, Plain(parts)
                     PROVE  /\ {SameSort(m) : m \in ToSet(VulcandRoute(parts))}
                                 = TraefikRoute(parts)
                            /\ TraefikRoute(parts)
                                 = {PartMatcher(parts[k]) : k \in DOMAIN parts}
            BY DEF ProvidersAgree
        <2>1. IsParts(parts)
            BY DEF RInv, Shape
        <2>2. \A kind \in {"host", "path", "prefix"} : Len(OfKind(parts, kind)) <= 1
            BY OneOfEach
        <2>3. ToSet(VulcandRoute(parts)) = {VulcandPart(p) : p \in ToSet(parts)}
            BY <2>1, <2>2, VulcandUsesAll
        <2>4. TraefikRoute(parts) = {PartMatcher(p) : p \in ToSet(parts)}
            BY <2>1, <2>2, TraefikUsesAll
        <2>5. \A p \in ToSet(parts) : SameSort(VulcandPart(p)) = PartMatcher(p)
            <3>1. \A p \in ToSet(parts) : IsPart(p) /\ (p.regex => p.kind = "header")
                BY <2>1 DEF IsParts, Plain, ToSet
            <3> QED
                BY <3>1, PlainMatcher
        <2>6. {SameSort(m) : m \in ToSet(VulcandRoute(parts))}
                 = {PartMatcher(p) : p \in ToSet(parts)}
            BY <2>3, <2>5
        <2>7. {PartMatcher(p) : p \in ToSet(parts)}
                 = {PartMatcher(parts[k]) : k \in DOMAIN parts}
            BY DEF ToSet
        <2> QED
            BY <2>4, <2>6, <2>7
    <1> QED
        BY <1>1, RoutesInvariant, PTL

=============================================================================
