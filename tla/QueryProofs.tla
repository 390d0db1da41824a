----------------------------- MODULE QueryProofs ------------------------------
(***************************************************************************)
(* What one question is answered from and what of it is saved, for every   *)
(* tenant, document set, question and answer of the two searches.  The     *)
(* merge and the sort of the hits are reasoned about by the least number   *)
(* for which a claim fails, since tlapm has no induction over data.        *)
(***************************************************************************)
EXTENDS Query, FiniteSetTheorems, SequenceTheorems, WellFoundedInduction, TLAPS

Hit == [chunk : Chunk, search : Search, index : Nat]

(* Numbers: a set of them that is not empty has a least element. *)
LEMMA LeastNat ==
    ASSUME NEW T \in SUBSET Nat, T # {} PROVE \E x \in T : \A y \in T : x <= y
<1> DEFINE R == OpToRel(<, Nat)
<1>1. ASSUME NEW x \in Nat, NEW y \in Nat, y < x PROVE <<y, x>> \in R
  BY <1>1 DEF OpToRel
<1>2. IsWellFoundedOn(R, Nat)
  BY NatLessThanWellFounded
<1> HIDE DEF R
<1>3. PICK x \in T : \A y \in T : ~ (<<y, x>> \in R)
  BY <1>2, WFMin
<1>4. ASSUME NEW y \in T PROVE x <= y
  <2>1. ~(y < x)
    BY <1>1, <1>3
  <2> QED BY <2>1
<1> QED BY <1>4

(* So a set of numbers that has 0 and with each number the next has them all. *)
LEMMA AllNat ==
    ASSUME NEW T, 0 \in T, \A m \in Nat : m \in T => m + 1 \in T
    PROVE  Nat \subseteq T
<1> SUFFICES ASSUME Nat \ T # {} PROVE FALSE
  OBVIOUS
<1>1. PICK x \in Nat \ T : \A y \in Nat \ T : x <= y
  BY LeastNat
<1>2. x - 1 \in Nat /\ x = (x - 1) + 1
  BY <1>1
<1>3. x - 1 \in T
  BY <1>1, <1>2
<1> QED BY <1>1, <1>2, <1>3

-----------------------------------------------------------------------------
(***************************************************************************)
(* The cross-encoder's sort.                                               *)
(***************************************************************************)
LEMMA RelevanceIsNat == \A h \in Hit : RelevanceOf(h) \in Nat
<1> SUFFICES ASSUME NEW h \in Hit PROVE RelevanceOf(h) \in Nat
  OBVIOUS
<1>1. <<h.chunk, h.search>> \in Chunk \X Search
  BY DEF Hit
<1> QED BY <1>1, RetrievalAssumption DEF RelevanceOf

(* The sort has an outcome: the place of a hit is the number of those before. *)
LEMMA SortExists ==
    ASSUME NEW hits \in Seq(Hit)
    PROVE  \E o \in [DOMAIN hits -> DOMAIN hits] :
              \A i, j \in DOMAIN hits : i < j => Before(hits, o[i], o[j])
<1> DEFINE D == DOMAIN hits
           n == Len(hits)
           B(i) == {k \in D : Before(hits, k, i)}
           rank == [i \in D |-> Cardinality(B(i)) + 1]
<1>1. n \in Nat /\ D = 1..n /\ IsFiniteSet(D) /\ Cardinality(D) = n
  <2>1. n \in Nat /\ D = 1..n
    OBVIOUS
  <2> QED BY <2>1, FS_Interval
<1>2. \A i \in D : RelevanceOf(hits[i]) \in Nat
  BY RelevanceIsNat
<1>3. /\ \A i \in D : ~Before(hits, i, i)
      /\ \A i, j \in D : i = j \/ Before(hits, i, j) \/ Before(hits, j, i)
      /\ \A i, j, k \in D : Before(hits, i, j) /\ Before(hits, j, k) => Before(hits, i, k)
  <2> DEFINE V == [i \in D |-> RelevanceOf(hits[i])]
  <2>1. V \in [D -> Nat] /\ \A i \in D : V[i] = RelevanceOf(hits[i])
    BY <1>2
  <2> HIDE DEF V
  <2>2. \A i, j \in D : Before(hits, i, j) <=> V[i] > V[j] \/ (V[i] = V[j] /\ i < j)
    BY <2>1 DEF Before
  <2>3. D \subseteq Nat
    BY <1>1
  <2> HIDE DEF D
  <2> QED BY <2>1, <2>2, <2>3
<1>4. ASSUME NEW i \in D
      PROVE  IsFiniteSet(B(i)) /\ Cardinality(B(i)) \in Nat /\ Cardinality(B(i)) < n
  <2>1. B(i) \in SUBSET D /\ i \notin B(i)
    BY <1>3
  <2>2. /\ IsFiniteSet(B(i)) /\ Cardinality(B(i)) <= Cardinality(D)
        /\ Cardinality(D) = Cardinality(B(i)) => D = B(i)
    BY <1>1, <2>1, FS_Subset
  <2>3. Cardinality(B(i)) \in Nat
    BY <2>2, FS_CardinalityType
  <2> QED BY <1>1, <2>1, <2>2, <2>3
<1>5. ASSUME NEW i \in D, NEW j \in D, Before(hits, i, j)
      PROVE  Cardinality(B(i)) < Cardinality(B(j))
  <2>1. B(i) \in SUBSET B(j) /\ i \in B(j) /\ i \notin B(i)
    BY <1>3, <1>5
  <2>2. /\ Cardinality(B(i)) <= Cardinality(B(j))
        /\ Cardinality(B(j)) = Cardinality(B(i)) => B(j) = B(i)
    BY <1>4, <2>1, FS_Subset
  <2>3. Cardinality(B(i)) \in Nat /\ Cardinality(B(j)) \in Nat
    BY <1>4
  <2> HIDE DEF B
  <2> QED BY <2>1, <2>2, <2>3
<1> HIDE DEF B
<1>6. rank \in [D -> D]
  BY <1>1, <1>4
<1>7. ASSUME NEW i \in D, NEW j \in D, Before(hits, i, j) PROVE rank[i] < rank[j]
  BY <1>4, <1>5, <1>7
<1> HIDE DEF rank
<1>8. rank \in Injection(D, D)
  <2>1. ASSUME NEW i \in D, NEW j \in D, rank[i] = rank[j] PROVE i = j
    <3>1. rank[i] \in Nat /\ rank[j] \in Nat
      BY <1>1, <1>6
    <3> QED BY <1>3, <1>7, <2>1, <3>1
  <2> QED BY <1>6, <2>1 DEF Injection, IsInjective
<1>9. rank \in Surjection(D, D)
  BY <1>1, <1>8, FS_Injection
<1> DEFINE o == [m \in D |-> CHOOSE i \in D : rank[i] = m]
<1>10. \A m \in D : o[m] \in D /\ rank[o[m]] = m
  <2>1. \A m \in D : \E i \in D : rank[i] = m
    BY <1>9 DEF Surjection
  <2> QED BY <2>1
<1>11. o \in [D -> D]
  BY <1>10
<1> HIDE DEF o
<1>12. ASSUME NEW i \in D, NEW j \in D, i < j PROVE Before(hits, o[i], o[j])
  <2>1. i \in Nat /\ j \in Nat
    BY <1>1
  <2>2. CASE o[i] = o[j]
    BY <1>10, <1>12, <2>1, <2>2
  <2>3. CASE Before(hits, o[j], o[i])
    <3>1. rank[o[j]] < rank[o[i]]
      BY <1>7, <1>10, <2>3
    <3> QED BY <1>10, <1>12, <2>1, <3>1
  <2> QED BY <1>3, <1>10, <2>2, <2>3
<1> QED BY <1>11, <1>12

(* What is sorted is rearranged, each hit once, the most relevant first. *)
LEMMA SortIs ==
    ASSUME NEW hits \in Seq(Hit)
    PROVE  /\ ByRelevance(hits) \in Seq(Hit)
           /\ Len(ByRelevance(hits)) = Len(hits)
           /\ \E o \in [DOMAIN hits -> DOMAIN hits] :
                 /\ \A i, j \in DOMAIN hits : o[i] = o[j] => i = j
                 /\ \A m \in DOMAIN hits : \E i \in DOMAIN hits : o[i] = m
                 /\ \A i \in DOMAIN hits : ByRelevance(hits)[i] = hits[o[i]]
           /\ \A i, j \in DOMAIN hits : i < j =>
                 RelevanceOf(ByRelevance(hits)[i]) >= RelevanceOf(ByRelevance(hits)[j])
<1> DEFINE D == DOMAIN hits
           o == CHOOSE q \in [D -> D] : \A i, j \in D : i < j => Before(hits, q[i], q[j])
           b == [i \in D |-> hits[o[i]]]
<1>1. o \in [D -> D] /\ \A i, j \in D : i < j => Before(hits, o[i], o[j])
  BY SortExists
<1>2. ByRelevance(hits) = b
  BY DEF ByRelevance
<1> HIDE DEF o
<1>3. D = 1..Len(hits) /\ Len(hits) \in Nat /\ \A i \in D : hits[i] \in Hit
  OBVIOUS
<1>4. \A i \in D : RelevanceOf(hits[i]) \in Nat
  BY <1>3, RelevanceIsNat
<1>5. b \in Seq(Hit) /\ Len(b) = Len(hits)
  BY <1>1, <1>3
<1>6. ASSUME NEW i \in D, NEW j \in D, o[i] = o[j] PROVE i = j
  <2>1. ~Before(hits, o[i], o[i]) /\ i \in Nat /\ j \in Nat
    BY <1>1, <1>3, <1>4 DEF Before
  <2> QED BY <1>1, <1>6, <2>1
<1>7. \A m \in D : \E i \in D : o[i] = m
  <2>1. IsFiniteSet(D)
    BY <1>3, FS_Interval
  <2>2. o \in Injection(D, D)
    BY <1>1, <1>6 DEF Injection, IsInjective
  <2>3. o \in Surjection(D, D)
    BY <2>1, <2>2, FS_Injection
  <2> QED BY <2>3 DEF Surjection
<1>8. ASSUME NEW i \in D, NEW j \in D, i < j PROVE RelevanceOf(b[i]) >= RelevanceOf(b[j])
  <2>1. Before(hits, o[i], o[j]) /\ o[i] \in D /\ o[j] \in D
    BY <1>1, <1>8
  <2> QED BY <1>4, <2>1 DEF Before
<1> HIDE DEF D
<1> QED BY <1>1, <1>2, <1>5, <1>6, <1>7, <1>8 DEF D

-----------------------------------------------------------------------------
(***************************************************************************)
(* The merge.  FoldLeft takes the hits by the greatest of the indices that *)
(* are left; what it computes is a function on sets of indices.            *)
(***************************************************************************)
Keep(pool, h) == IF HitKey(h) \in Carried(pool) THEN pool ELSE Append(pool, h)
Folds(f, D, hits) ==
    f = [s \in SUBSET D |->
            IF s = {} THEN <<>> ELSE Keep(f[s \ {Max(s)}], hits[Max(s)])]

LEMMA MaxIs ==
    ASSUME NEW m \in Nat, NEW s \in SUBSET (1..m), m \in s PROVE Max(s) = m
<1>1. \E x \in s : \A y \in s : x >= y
  OBVIOUS
<1>2. Max(s) \in s /\ \A y \in s : Max(s) >= y
  BY <1>1 DEF Max
<1>3. Max(s) >= m /\ Max(s) \in 1..m
  BY <1>2
<1> QED BY <1>3

LEMMA FoldExists ==
    ASSUME NEW hits, NEW n \in Nat
    PROVE  \E f : Folds(f, 1..n, hits)
<1> DEFINE T == {m \in Nat : \E f : Folds(f, 1..m, hits)}
<1>1. 0 \in T
  <2> DEFINE f == [s \in SUBSET (1..0) |-> <<>>]
  <2>1. SUBSET (1..0) = {{}}
    OBVIOUS
  <2>2. f = [s \in SUBSET (1..0) |->
                IF s = {} THEN <<>> ELSE Keep(f[s \ {Max(s)}], hits[Max(s)])]
    BY <2>1
  <2>3. Folds(f, 1..0, hits)
    BY <2>2 DEF Folds
  <2> HIDE DEF f
  <2> QED BY <2>3
<1>2. ASSUME NEW m \in Nat, m \in T PROVE m + 1 \in T
  <2>1. PICK f : Folds(f, 1..m, hits)
    BY <1>2
  <2> DEFINE D == 1..(m + 1)
             g == [s \in SUBSET D |->
                      IF m + 1 \in s THEN Keep(f[s \ {m + 1}], hits[m + 1]) ELSE f[s]]
             rhs == [s \in SUBSET D |->
                      IF s = {} THEN <<>> ELSE Keep(g[s \ {Max(s)}], hits[Max(s)])]
  <2>2. ASSUME NEW s \in SUBSET D PROVE g[s] = rhs[s]
    <3>1. CASE m + 1 \in s
      <4>1. Max(s) = m + 1
        BY <3>1, MaxIs
      <4>2. s \ {m + 1} \in SUBSET D /\ m + 1 \notin s \ {m + 1}
        OBVIOUS
      <4>3. g[s \ {m + 1}] = f[s \ {m + 1}]
        BY <4>2
      <4>4. g[s] = Keep(f[s \ {m + 1}], hits[m + 1])
        BY <3>1
      <4>5. rhs[s] = Keep(g[s \ {Max(s)}], hits[Max(s)])
        BY <3>1
      <4> HIDE DEF g, rhs
      <4> QED BY <4>1, <4>3, <4>4, <4>5
    <3>2. CASE m + 1 \notin s
      <4>1. s \in SUBSET (1..m)
        BY <3>2
      <4>2. f[s] = IF s = {} THEN <<>> ELSE Keep(f[s \ {Max(s)}], hits[Max(s)])
        BY <2>1, <4>1 DEF Folds
      <4>3. s \ {Max(s)} \in SUBSET D /\ m + 1 \notin s \ {Max(s)}
        BY <3>2
      <4>4. g[s \ {Max(s)}] = f[s \ {Max(s)}]
        BY <4>3
      <4>5. g[s] = f[s]
        BY <3>2
      <4>6. rhs[s] = IF s = {} THEN <<>> ELSE Keep(g[s \ {Max(s)}], hits[Max(s)])
        OBVIOUS
      <4> HIDE DEF g, rhs
      <4> QED BY <4>2, <4>4, <4>5, <4>6
    <3> QED BY <3>1, <3>2
  <2>3. g = [s \in SUBSET D |-> g[s]] /\ rhs = [s \in SUBSET D |-> rhs[s]]
    OBVIOUS
  <2>4. g = rhs
    <3> HIDE DEF g, rhs
    <3> QED BY <2>2, <2>3
  <2>5. Folds(g, D, hits)
    BY <2>4 DEF Folds
  <2> HIDE DEF g
  <2> QED BY <2>5
<1> HIDE DEF T
<1>3. Nat \subseteq T
  BY <1>1, <1>2, AllNat
<1> QED BY <1>3 DEF T

(* The pool, hit by hit. *)
LEMMA PoolSteps ==
    ASSUME NEW gs \in Seq(Hit), NEW vs \in Seq(Hit)
    PROVE  LET hits == gs \o vs
           IN  \E p : /\ p[0] = <<>> /\ p[Len(hits)] = Pool(gs, vs)
                      /\ \A m \in Nat : m < Len(hits) => p[m + 1] = Keep(p[m], hits[m + 1])
<1> DEFINE hits == gs \o vs
           n == Len(hits)
           f == CHOOSE g : Folds(g, 1..n, hits)
           p == [m \in 0..n |-> f[1..m]]
<1>1. hits \in Seq(Hit) /\ n \in Nat /\ DOMAIN hits = 1..n
  OBVIOUS
<1>2. Pool(gs, vs) = f[1..n]
  <2>1. Pool(gs, vs) = LET iter[s \in SUBSET DOMAIN hits] ==
                               IF s = {} THEN <<>> ELSE Keep(iter[s \ {Max(s)}], hits[Max(s)])
                       IN  iter[DOMAIN hits]
    BY DEF Pool, FoldLeft, MapThenFoldSet, Keep
  <2> QED BY <1>1, <2>1 DEF Folds
<1>3. Folds(f, 1..n, hits)
  BY <1>1, FoldExists
<1> HIDE DEF f
<1>4. f[{}] = <<>>
  BY <1>3 DEF Folds
<1>5. ASSUME NEW m \in Nat, m < n PROVE f[1..(m + 1)] = Keep(f[1..m], hits[m + 1])
  <2>1. Max(1..(m + 1)) = m + 1
    BY MaxIs
  <2>2. (1..(m + 1)) \ {m + 1} = 1..m /\ m + 1 \in 1..(m + 1)
    OBVIOUS
  <2>3. \A k \in Nat : m < k => 1..(m + 1) \in SUBSET (1..k)
    OBVIOUS
  <2>4. 1..(m + 1) # {} /\ 1..(m + 1) \in SUBSET (1..n)
    BY <1>1, <1>5, <2>2, <2>3
  <2> QED BY <1>3, <2>1, <2>2, <2>4 DEF Folds
<1>6. p[0] = <<>>
  <2>1. 1..0 = {}
    OBVIOUS
  <2> QED BY <1>1, <1>4, <2>1
<1>7. p[n] = Pool(gs, vs)
  BY <1>1, <1>2
<1>8. ASSUME NEW m \in Nat, m < n PROVE p[m + 1] = Keep(p[m], hits[m + 1])
  BY <1>1, <1>5, <1>8
<1> HIDE DEF p
<1> QED BY <1>6, <1>7, <1>8

(* The pool is made of the hits and carries the key of each of them. *)
LEMMA PoolIs ==
    ASSUME NEW gs \in Seq(Hit), NEW vs \in Seq(Hit)
    PROVE  /\ Pool(gs, vs) \in Seq(Hit)
           /\ ToSet(Pool(gs, vs)) \subseteq ToSet(gs \o vs)
           /\ Carried(gs \o vs) \subseteq Carried(Pool(gs, vs))
<1> DEFINE hits == gs \o vs
           n == Len(hits)
<1>1. hits \in Seq(Hit) /\ n \in Nat /\ DOMAIN hits = 1..n
  OBVIOUS
<1>2. PICK p : /\ p[0] = <<>> /\ p[n] = Pool(gs, vs)
               /\ \A m \in Nat : m < n => p[m + 1] = Keep(p[m], hits[m + 1])
  BY PoolSteps
<1> HIDE DEF hits
<1> DEFINE Good(m) == /\ p[m] \in Seq(Hit)
                      /\ \A i \in DOMAIN p[m] : \E j \in 1..n : p[m][i] = hits[j]
                      /\ \A j \in 1..m : \E i \in DOMAIN p[m] : HitKey(p[m][i]) = HitKey(hits[j])
           T == {m \in Nat : m <= n => Good(m)}
<1>3. 0 \in T
  <2>1. p[0] \in Seq(Hit) /\ DOMAIN p[0] = {} /\ 1..0 = {}
    BY <1>2
  <2> QED BY <2>1
<1>4. ASSUME NEW m \in Nat, m \in T PROVE m + 1 \in T
  <2> SUFFICES ASSUME m + 1 <= n PROVE Good(m + 1)
    OBVIOUS
  <2> HIDE DEF n
  <2>n. m < n /\ m <= n /\ m + 1 \in 1..n
    BY <1>1
  <2>1. Good(m) /\ m + 1 \in 1..n /\ p[m + 1] = Keep(p[m], hits[m + 1])
    BY <1>2, <1>4, <2>n
  <2>2. hits[m + 1] \in Hit
    BY <1>1, <2>1
  <2>3. CASE HitKey(hits[m + 1]) \in Carried(p[m])
    <3>1. p[m + 1] = p[m]
      BY <2>1, <2>3 DEF Keep
    <3>2. \E i \in DOMAIN p[m] : HitKey(p[m][i]) = HitKey(hits[m + 1])
      BY <2>3 DEF Carried
    <3>3. \A j \in 1..(m + 1) : j \in 1..m \/ j = m + 1
      OBVIOUS
    <3> QED BY <2>1, <3>1, <3>2, <3>3
  <2>4. CASE HitKey(hits[m + 1]) \notin Carried(p[m])
    <3> DEFINE a == p[m]
               h == hits[m + 1]
               q == p[m + 1]
    <3>1. q = Append(a, h) /\ a \in Seq(Hit) /\ h \in Hit
      BY <2>1, <2>2, <2>4 DEF Keep
    <3> HIDE DEF a, h, q
    <3>2. /\ q \in Seq(Hit) /\ DOMAIN a = 1..Len(a) /\ DOMAIN q = 1..(Len(a) + 1)
          /\ Len(a) \in Nat /\ q[Len(a) + 1] = h
          /\ \A i \in DOMAIN a : q[i] = a[i]
      BY <3>1, AppendProperties
    <3>3. \A i \in DOMAIN q : i \in DOMAIN a \/ i = Len(a) + 1
      BY <3>2
    <3>4. DOMAIN a \subseteq DOMAIN q /\ Len(a) + 1 \in DOMAIN q
      BY <3>2
    <3>5. \A j \in 1..(m + 1) : j \in 1..m \/ j = m + 1
      OBVIOUS
    <3>6. /\ \A i \in DOMAIN a : \E j \in 1..n : a[i] = hits[j]
          /\ \A j \in 1..m : \E i \in DOMAIN a : HitKey(a[i]) = HitKey(hits[j])
      BY <2>1 DEF a
    <3>7. \A i \in DOMAIN q : \E j \in 1..n : q[i] = hits[j]
      BY <2>1, <3>2, <3>3, <3>6 DEF h
    <3>8. \A j \in 1..(m + 1) : \E i \in DOMAIN q : HitKey(q[i]) = HitKey(hits[j])
      BY <3>2, <3>4, <3>5, <3>6 DEF h
    <3> QED BY <3>2, <3>7, <3>8 DEF q
  <2> QED BY <2>3, <2>4
<1> HIDE DEF T
<1>5. n \in T
  BY <1>1, <1>3, <1>4, AllNat
<1>6. Good(n)
  BY <1>1, <1>5 DEF T
<1>7. ToSet(p[n]) \subseteq ToSet(hits) /\ Carried(hits) \subseteq Carried(p[n])
  <2>1. ASSUME NEW h \in ToSet(p[n]) PROVE h \in ToSet(hits)
    <3>1. PICK i \in DOMAIN p[n] : h = p[n][i]
      BY DEF ToSet
    <3> QED BY <1>1, <1>6, <3>1 DEF ToSet
  <2>2. ASSUME NEW c \in Carried(hits) PROVE c \in Carried(p[n])
    <3>1. PICK j \in 1..n : c = HitKey(hits[j])
      BY <1>1 DEF Carried
    <3>2. PICK i \in DOMAIN p[n] : HitKey(p[n][i]) = c
      BY <1>6, <3>1
    <3> QED BY <3>2 DEF Carried
  <2> QED BY <2>1, <2>2
<1> QED BY <1>2, <1>6, <1>7 DEF hits

-----------------------------------------------------------------------------
(***************************************************************************)
(* No two hits of a search of distinct chunks have one key, and none of    *)
(* them is lost by the merge.                                              *)
(***************************************************************************)
Keyed(hits) == \A i, j \in DOMAIN hits : HitKey(hits[i]) = HitKey(hits[j]) => i = j

LEMMA PoolIsLong ==
    ASSUME NEW gs \in Seq(Hit), NEW vs \in Seq(Hit), Keyed(vs)
    PROVE  Len(Pool(gs, vs)) >= Len(vs)
<1> DEFINE pool == Pool(gs, vs)
           at == [i \in 1..Len(vs) |->
                    CHOOSE j \in 1..Len(pool) : HitKey(pool[j]) = HitKey(vs[i])]
<1>1. /\ pool \in Seq(Hit) /\ Len(pool) \in Nat /\ DOMAIN pool = 1..Len(pool)
      /\ Len(vs) \in Nat /\ DOMAIN vs = 1..Len(vs)
      /\ Len(gs) \in Nat /\ DOMAIN gs = 1..Len(gs)
  BY PoolIs
<1>2. ASSUME NEW i \in 1..Len(vs)
      PROVE  \E j \in 1..Len(pool) : HitKey(pool[j]) = HitKey(vs[i])
  <2>1. Len(gs) + i \in 1..(Len(gs) + Len(vs)) /\ ~(Len(gs) + i <= Len(gs))
        /\ (Len(gs) + i) - Len(gs) = i
    BY <1>1
  <2>2. /\ (gs \o vs)[Len(gs) + i] = vs[i]
        /\ Len(gs) + i \in DOMAIN (gs \o vs)
    BY <2>1, ConcatProperties
  <2>3. HitKey(vs[i]) \in Carried(gs \o vs)
    BY <2>2 DEF Carried
  <2>4. HitKey(vs[i]) \in Carried(pool)
    BY <2>3, PoolIs
  <2> QED BY <1>1, <2>4 DEF Carried
<1> HIDE DEF pool
<1>3. at \in [1..Len(vs) -> 1..Len(pool)]
      /\ \A i \in 1..Len(vs) : HitKey(pool[at[i]]) = HitKey(vs[i])
  BY <1>2
<1> HIDE DEF at
<1>4. at \in Injection(1..Len(vs), 1..Len(pool))
  BY <1>1, <1>3 DEF Keyed, Injection, IsInjective
<1>5. /\ IsFiniteSet(1..Len(pool)) /\ Cardinality(1..Len(pool)) = Len(pool)
      /\ Cardinality(1..Len(vs)) = Len(vs)
  <2>1. \A x \in Nat : IsFiniteSet(1..x) /\ Cardinality(1..x) = x
    <3> TAKE x \in Nat
    <3>1. IsFiniteSet(1..x) /\ Cardinality(1..x) = IF 1 > x THEN 0 ELSE x - 1 + 1
      BY FS_Interval
    <3> QED BY <3>1
  <2> QED BY <1>1, <2>1
<1>6. Cardinality(1..Len(vs)) <= Cardinality(1..Len(pool))
  BY <1>4, <1>5, FS_Injection
<1> QED BY <1>5, <1>6 DEF pool

(* What the cross-encoder keeps: as many of the hits as the limit allows. *)
LEMMA RerankIs ==
    ASSUME NEW hits \in Seq(Hit), NEW k \in Nat, NEW sc \in BOOLEAN
    PROVE  /\ Rerank(hits, k, sc) \in Seq(Hit)
           /\ Len(Rerank(hits, k, sc)) = Limit(k, hits)
           /\ Limit(k, hits) \in Nat /\ Limit(k, hits) <= Len(hits)
           /\ \A i \in 1..Limit(k, hits) :
                 Rerank(hits, k, sc)[i] = IF sc THEN ByRelevance(hits)[i] ELSE hits[i]
           /\ ToSet(Rerank(hits, k, sc)) \subseteq ToSet(hits)
           /\ Keyed(hits) => Keyed(Rerank(hits, k, sc))
<1> DEFINE b == IF sc THEN ByRelevance(hits) ELSE hits
           m == Limit(k, hits)
           r == Rerank(hits, k, sc)
           n == Len(hits)
<1>1. n \in Nat /\ DOMAIN hits = 1..n /\ hits \in [1..n -> Hit]
  OBVIOUS
<1>2. m \in Nat /\ m <= n /\ m <= k
  BY <1>1 DEF Limit
<1>3. b \in Seq(Hit) /\ Len(b) = n
  BY SortIs
<1>4. \E o \in [1..n -> 1..n] :
         /\ \A i, j \in 1..n : o[i] = o[j] => i = j
         /\ \A i \in 1..n : b[i] = hits[o[i]]
  <2>1. CASE sc
    <3>1. PICK o \in [DOMAIN hits -> DOMAIN hits] :
             /\ \A i, j \in DOMAIN hits : o[i] = o[j] => i = j
             /\ \A i \in DOMAIN hits : ByRelevance(hits)[i] = hits[o[i]]
      BY SortIs
    <3> QED BY <1>1, <2>1, <3>1
  <2>2. CASE ~sc
    <3> DEFINE o == [i \in 1..n |-> i]
    <3>1. o \in [1..n -> 1..n] /\ \A i \in 1..n : o[i] = i
      OBVIOUS
    <3>2. \A i \in 1..n : b[i] = hits[o[i]]
      BY <2>2, <3>1
    <3> HIDE DEF o
    <3> QED BY <3>1, <3>2
  <2> QED BY <2>1, <2>2
<1>5. r = SubSeq(b, 1, m)
  BY DEF Rerank
<1>6. \A i \in 1..m : b[i] \in Hit
  BY <1>2, <1>3
<1>7. \A i \in 1..m : b[i] = IF sc THEN ByRelevance(hits)[i] ELSE hits[i]
  OBVIOUS
<1> HIDE DEF b, m
<1>8. r \in Seq(Hit) /\ Len(r) = m /\ \A i \in 1..m : r[i] = b[i]
  <2>1. /\ SubSeq(b, 1, m) \in Seq(Hit)
        /\ Len(SubSeq(b, 1, m)) = IF 1 <= m THEN m - 1 + 1 ELSE 0
        /\ \A i \in 1..(m - 1 + 1) : SubSeq(b, 1, m)[i] = b[1 + i - 1]
    BY <1>2, <1>6, SubSeqProperties
  <2>2. m - 1 + 1 = m /\ \A i \in 1..m : 1 + i - 1 = i
    BY <1>2
  <2>3. Len(SubSeq(b, 1, m)) = m
    BY <1>2, <2>1
  <2> HIDE DEF r
  <2> QED BY <1>5, <2>1, <2>2, <2>3
<1> HIDE DEF r
<1>9. DOMAIN r = 1..m /\ 1..m \subseteq 1..n
  BY <1>1, <1>2, <1>8
<1>10. PICK o \in [1..n -> 1..n] : /\ \A i, j \in 1..n : o[i] = o[j] => i = j
                                   /\ \A i \in 1..n : b[i] = hits[o[i]]
  BY <1>4
<1>11. \A i \in 1..m : r[i] = hits[o[i]] /\ o[i] \in DOMAIN hits
  BY <1>1, <1>8, <1>9, <1>10
<1>12. ToSet(r) \subseteq ToSet(hits)
  BY <1>9, <1>11 DEF ToSet
<1>13. Keyed(hits) => Keyed(r)
  BY <1>9, <1>10, <1>11 DEF Keyed
<1>14. \A i \in 1..m : r[i] = IF sc THEN ByRelevance(hits)[i] ELSE hits[i]
  BY <1>7, <1>8
<1> QED BY <1>2, <1>8, <1>12, <1>13, <1>14 DEF r, m

(* What is in a concatenation. *)
LEMMA JoinedIs ==
    ASSUME NEW gs \in Seq(Hit), NEW xs \in Seq(Hit)
    PROVE  ToSet(gs \o xs) = ToSet(gs) \union ToSet(xs)
<1> DEFINE n == Len(gs)
           m == Len(xs)
           all == gs \o xs
<1>1. n \in Nat /\ m \in Nat /\ DOMAIN gs = 1..n /\ DOMAIN xs = 1..m
  OBVIOUS
<1>2. /\ DOMAIN all = 1..(n + m)
      /\ \A i \in 1..(n + m) : all[i] = IF i <= n THEN gs[i] ELSE xs[i - n]
  BY ConcatProperties
<1> HIDE DEF n, m, all
<1>3. ASSUME NEW i \in 1..n PROVE i \in 1..(n + m) /\ all[i] = gs[i]
  BY <1>1, <1>2
<1>4. ASSUME NEW i \in 1..m PROVE n + i \in 1..(n + m) /\ all[n + i] = xs[i]
  <2>1. n + i \in 1..(n + m) /\ ~(n + i <= n) /\ (n + i) - n = i
    BY <1>1
  <2> QED BY <1>2, <2>1
<1>5. ASSUME NEW i \in 1..(n + m)
      PROVE  \/ i \in 1..n /\ all[i] = gs[i]
             \/ i - n \in 1..m /\ all[i] = xs[i - n]
  BY <1>1, <1>2
<1>6. ToSet(gs) \union ToSet(xs) \subseteq ToSet(all)
  <2>1. ASSUME NEW h \in ToSet(gs) PROVE h \in ToSet(all)
    <3>1. PICK i \in 1..n : h = gs[i]
      BY <1>1 DEF ToSet
    <3> QED BY <1>2, <1>3, <3>1 DEF ToSet
  <2>2. ASSUME NEW h \in ToSet(xs) PROVE h \in ToSet(all)
    <3>1. PICK i \in 1..m : h = xs[i]
      BY <1>1 DEF ToSet
    <3> QED BY <1>2, <1>4, <3>1 DEF ToSet
  <2> QED BY <2>1, <2>2
<1>7. ToSet(all) \subseteq ToSet(gs) \union ToSet(xs)
  BY <1>1, <1>2, <1>5 DEF ToSet
<1> QED BY <1>6, <1>7 DEF all

(* Nothing is cited that was not found, and no fewer hits than the vector
   search alone makes of them. *)
LEMMA FinalizeIs ==
    ASSUME NEW se \in [reranker : BOOLEAN, fusion : BOOLEAN, graph : BOOLEAN],
           NEW gs \in Seq(Hit), NEW vs \in Seq(Hit),
           NEW k \in Nat, NEW sc \in BOOLEAN
    PROVE  /\ Finalize(se, gs, vs, k, sc) \in Seq(Hit)
           /\ ToSet(Finalize(se, gs, vs, k, sc)) \subseteq ToSet(gs \o vs)
           /\ Keyed(vs) => Len(Finalize(se, gs, vs, k, sc)) >= Limit(k, vs)
<1> DEFINE all == Finalize(se, gs, vs, k, sc)
           pool == Pool(gs, vs)
           kept == IF se.reranker THEN Rerank(vs, k, sc) ELSE vs
<1>1. pool \in Seq(Hit) /\ ToSet(pool) \subseteq ToSet(gs \o vs)
  BY PoolIs
<1>2. Len(vs) \in Nat /\ Len(pool) \in Nat /\ Len(gs) \in Nat
  BY <1>1
<1>3. CASE Fused(se)
  <2>1. all = Rerank(pool, k, sc)
    BY <1>3 DEF Finalize
  <2> HIDE DEF all, pool
  <2>2. /\ all \in Seq(Hit) /\ Len(all) = Limit(k, pool)
        /\ ToSet(all) \subseteq ToSet(pool)
    BY <1>1, <2>1, RerankIs
  <2>3. Keyed(vs) => Limit(k, pool) >= Limit(k, vs)
    <3>1. Keyed(vs) => Len(pool) >= Len(vs)
      BY PoolIsLong DEF pool
    <3> QED BY <1>2, <3>1 DEF Limit
  <2> QED BY <1>1, <2>2, <2>3 DEF all
<1>4. CASE ~Fused(se)
  <2>1. all = Pool(gs, kept)
    BY <1>4 DEF Finalize
  <2>2. /\ kept \in Seq(Hit) /\ ToSet(kept) \subseteq ToSet(vs)
        /\ Keyed(vs) => Keyed(kept)
        /\ Len(kept) \in Nat /\ Len(kept) >= Limit(k, vs) /\ Limit(k, vs) \in Nat
    <3>1. Limit(k, vs) \in Nat /\ Len(vs) >= Limit(k, vs)
      BY <1>2 DEF Limit
    <3>2. CASE se.reranker
      <4>1. kept = Rerank(vs, k, sc)
        BY <3>2
      <4> HIDE DEF kept
      <4>2. /\ kept \in Seq(Hit) /\ ToSet(kept) \subseteq ToSet(vs)
            /\ Keyed(vs) => Keyed(kept)
            /\ Len(kept) = Limit(k, vs)
        BY <4>1, RerankIs
      <4> QED BY <3>1, <4>2
    <3>3. CASE ~se.reranker
      <4>1. kept = vs
        BY <3>3
      <4> HIDE DEF kept
      <4> QED BY <1>2, <3>1, <4>1
    <3> QED BY <3>2, <3>3
  <2> HIDE DEF all, kept
  <2>3. all \in Seq(Hit) /\ ToSet(all) \subseteq ToSet(gs \o kept) /\ Len(all) \in Nat
    BY <2>1, <2>2, PoolIs
  <2>4. \A xs \in Seq(Hit) : ToSet(gs \o xs) = ToSet(gs) \union ToSet(xs)
    BY JoinedIs
  <2>5. Keyed(vs) => Len(all) >= Len(kept)
    BY <2>1, <2>2, PoolIsLong
  <2>6. ToSet(all) \subseteq ToSet(gs \o vs)
    BY <2>2, <2>3, <2>4
  <2>7. Keyed(vs) => Len(all) >= Limit(k, vs)
    BY <2>2, <2>3, <2>5
  <2> QED BY <2>3, <2>6, <2>7 DEF all
<1> QED BY <1>3, <1>4

-----------------------------------------------------------------------------
(***************************************************************************)
(* The inductive invariant.                                                *)
(***************************************************************************)
Steps == {"idle", "classify", "search", "generate", "append"} \union Over
Sent == {"citation", "token", "error", "done"}

Types ==
    /\ points \subseteq Chunk /\ nodes \subseteq Chunk
    /\ settings \in [reranker : BOOLEAN, fusion : BOOLEAN, graph : BOOLEAN]
    /\ ask \in Asks /\ step \in Steps /\ intent \in Intents
    /\ found \in [Search -> [is : {"pending", "raised", "returned"}, hits : Seq(Hit)]]
    /\ scored \in BOOLEAN
    /\ events \in Seq(Sent)
    /\ answer \in Nat /\ saved \in Nat

(* What each search returned: hits of the asker's documents, those of the
   vector search by the filter and of distinct chunks. *)
OwnVector(hits) ==
    /\ \A i \in DOMAIN hits :
          /\ TenantOfChunk(hits[i].chunk) = ask.tenant
          /\ hits[i].chunk[1] \in ask.only
    /\ Keyed(hits)
OwnGraph(hits) ==
    \A i \in DOMAIN hits :
        TenantOfChunk(hits[i].chunk) = ask.tenant /\ hits[i].search = "graph"
FoundOwn == OwnVector(VectorHits) /\ OwnGraph(GraphHits)

(* What is cited was settled when the searches had returned. *)
Settled == context = Finalize(settings, GraphHits, VectorHits, K, scored)
Asking == step \in {"idle", "classify", "search"}
CitedIsSettled ==
    /\ context = <<>> \/ Settled
    /\ Answering /\ intent # "casual" => Settled
    /\ Asking => context = <<>>

(* The events of a stream count its deltas, and it ends with its error. *)
Tokens(sent) == {i \in DOMAIN sent : sent[i] = "token"}
EventsCount ==
    /\ IF ask.stream THEN Cardinality(Tokens(events)) = answer ELSE events = <<>>
    /\ Asking => events = <<>>
    /\ Answering /\ ask.stream => events # <<>>
    /\ (\E i \in DOMAIN events : events[i] = "error") => step = "error"
    /\ events = <<"error">> => found["vector"].is # "returned"
    /\ saved > 0 => step \in {"done", "abandoned"} /\ saved = answer

(* No search is started before the router has answered. *)
NotSearched == step \in {"idle", "classify"} => found["vector"].is # "returned"

QueryInv == Types /\ FoundOwn /\ CitedIsSettled /\ EventsCount /\ NotSearched

-----------------------------------------------------------------------------
(***************************************************************************)
(* What the searches return.                                               *)
(***************************************************************************)
LEMMA ChunkIs ==
    /\ IsFiniteSet(Chunk)
    /\ \A c \in Chunk : c[1] \in Doc /\ c[2] \in Nat /\ c = <<c[1], c[2]>>
<1> DEFINE Of(d) == {d} \X (0..(ChunkCount[d] - 1))
           All == {Of(d) : d \in Doc}
           f == [d \in Doc |-> Of(d)]
<1>1. Chunk = UNION All
  BY DEF Chunk
<1>2. ASSUME NEW d \in Doc PROVE IsFiniteSet(Of(d)) /\ ChunkCount[d] \in Nat
  <2>1. ChunkCount[d] \in Nat /\ 0 \in Int /\ ChunkCount[d] - 1 \in Int
    BY RetrievalAssumption
  <2>2. IsFiniteSet(0..(ChunkCount[d] - 1)) /\ IsFiniteSet({d})
    BY <2>1, FS_Interval, FS_Singleton
  <2> QED BY <2>1, <2>2, FS_Product
<1>3. ASSUME NEW c \in Chunk PROVE c[1] \in Doc /\ c[2] \in Nat /\ c = <<c[1], c[2]>>
  <2>1. PICK d \in Doc : c \in Of(d)
    BY <1>1
  <2> QED BY <1>2, <2>1
<1>4. f \in Surjection(Doc, All)
  BY DEF Surjection
<1> HIDE DEF f
<1>5. IsFiniteSet(All)
  BY <1>4, FS_Surjection, RetrievalAssumption
<1>6. \A T \in All : IsFiniteSet(T)
  BY <1>2
<1> HIDE DEF All
<1>7. IsFiniteSet(Chunk)
  BY <1>1, <1>5, <1>6, FS_UNION
<1> QED BY <1>3, <1>7

LEMMA RankingIs ==
    ASSUME NEW S \in SUBSET Chunk, NEW score, NEW k \in Nat,
           NEW s \in Rankings(S, score, k)
    PROVE  /\ \E n \in Nat : DOMAIN s = 1..n
           /\ \A i \in DOMAIN s : s[i] \in S
           /\ \A i, j \in DOMAIN s : s[i] = s[j] => i = j
<1>1. Cardinality(S) \in Nat
  BY ChunkIs, FS_Subset, FS_CardinalityType
<1>2. AtMost(k, S) \in Nat
  BY <1>1 DEF AtMost
<1>3. s \in [1..AtMost(k, S) -> S] /\ IsInjective(s)
  BY DEF Rankings
<1> QED BY <1>2, <1>3 DEF IsInjective

LEMMA VectorFindsOwn ==
    ASSUME Types, NEW k \in Nat, NEW hits \in VectorAnswers(ask.tenant, ask.only, k)
    PROVE  hits \in Seq(Hit) /\ OwnVector(hits)
<1> DEFINE S == Passing(ask.tenant, ask.only)
           score == [c \in S |-> 0]
<1>1. PICK s \in Rankings(S, score, k) : hits = [i \in DOMAIN s |-> VectorHit(s[i])]
  BY DEF VectorAnswers
<1>2. S \in SUBSET Chunk
      /\ \A c \in S : TenantOfChunk(c) = ask.tenant /\ c[1] \in ask.only
  BY DEF Types, Passing
<1> HIDE DEF S, score
<1>3. /\ \E n \in Nat : DOMAIN s = 1..n
      /\ \A i \in DOMAIN s : s[i] \in S
      /\ \A i, j \in DOMAIN s : s[i] = s[j] => i = j
  BY <1>1, <1>2, RankingIs
<1>4. ASSUME NEW c \in S
      PROVE  /\ VectorHit(c) \in Hit /\ VectorHit(c).chunk = c
             /\ HitKey(VectorHit(c)) = c
  BY <1>2, ChunkIs DEF VectorHit, Hit, Search, HitKey
<1>5. DOMAIN hits = DOMAIN s /\ \A i \in DOMAIN s : hits[i] = VectorHit(s[i])
  BY <1>1
<1>6. hits \in Seq(Hit)
  <2>1. PICK n \in Nat : DOMAIN s = 1..n
    BY <1>3
  <2>2. hits \in [1..n -> Hit]
    BY <1>1, <1>3, <1>4, <2>1
  <2> QED BY <2>2
<1>7. Keyed(hits)
  BY <1>3, <1>4, <1>5 DEF Keyed
<1> QED BY <1>2, <1>3, <1>4, <1>5, <1>6, <1>7 DEF OwnVector

LEMMA GraphFindsOwn ==
    ASSUME Types, NEW k \in Nat, NEW hits \in GraphAnswers(ask.tenant, ask.named, k)
    PROVE  hits \in Seq(Hit) /\ OwnGraph(hits)
<1> DEFINE R == Reached(ask.tenant, ask.named)
           score == [c \in {d \in nodes : TenantOfChunk(d) = ask.tenant} |->
                       Cardinality({e \in R : <<c, e>> \in mentions})]
           S == {c \in DOMAIN score : score[c] > 0}
<1>1. PICK s \in Rankings(S, score, k) : hits = [i \in DOMAIN s |-> GraphHit(s[i])]
  BY DEF GraphAnswers
<1>2. S \in SUBSET Chunk /\ \A c \in S : TenantOfChunk(c) = ask.tenant
  <2>1. DOMAIN score = {d \in nodes : TenantOfChunk(d) = ask.tenant}
    OBVIOUS
  <2>2. S \subseteq {d \in nodes : TenantOfChunk(d) = ask.tenant}
    BY <2>1
  <2> QED BY <2>2 DEF Types
<1> HIDE DEF S, score
<1>3. /\ \E n \in Nat : DOMAIN s = 1..n
      /\ \A i \in DOMAIN s : s[i] \in S
  BY <1>1, <1>2, RankingIs
<1>4. ASSUME NEW c \in S
      PROVE  GraphHit(c) \in Hit /\ GraphHit(c).chunk = c /\ GraphHit(c).search = "graph"
  BY <1>2 DEF GraphHit, Hit, Search
<1>5. DOMAIN hits = DOMAIN s /\ \A i \in DOMAIN s : hits[i] = GraphHit(s[i])
  BY <1>1
<1>6. hits \in Seq(Hit)
  <2>1. PICK n \in Nat : DOMAIN s = 1..n
    BY <1>3
  <2>2. hits \in [1..n -> Hit]
    BY <1>1, <1>3, <1>4, <2>1
  <2> QED BY <2>2
<1> QED BY <1>2, <1>3, <1>4, <1>5, <1>6 DEF OwnGraph

LEMMA LimitsAreNat ==
    ASSUME Types PROVE K \in Nat /\ FetchK(settings, K) \in Nat
<1>1. ask.topK \in Nat
  BY QueryAssumption DEF Types
<1>2. K \in Nat
  BY <1>1 DEF K, EffectiveK
<1> DEFINE m == IF Oversample > 1 THEN Oversample ELSE 1
<1>3. m \in Nat
  BY RetrievalAssumption
<1> HIDE DEF m
<1>4. K * m \in Nat
  BY <1>2, <1>3
<1>5. FetchK(settings, K) = IF settings.reranker THEN K * m ELSE K
  BY DEF FetchK, m
<1> QED BY <1>2, <1>4, <1>5

(* One more event. *)
LEMMA OneMore ==
    ASSUME NEW sent \in Seq(Sent), NEW e \in Sent
    PROVE  /\ Append(sent, e) \in Seq(Sent) /\ Append(sent, e) # <<>>
           /\ Cardinality(Tokens(sent)) \in Nat
           /\ Cardinality(Tokens(Append(sent, e)))
                  = Cardinality(Tokens(sent)) + IF e = "token" THEN 1 ELSE 0
           /\ \A i \in DOMAIN Append(sent, e) :
                 Append(sent, e)[i] = e \/ \E j \in DOMAIN sent : sent[j] = Append(sent, e)[i]
           /\ sent # <<>> => Append(sent, e) # <<"error">>
           /\ Append(sent, e) = <<"error">> => e = "error"
<1> DEFINE n == Len(sent)
           more == Append(sent, e)
<1>1. n \in Nat /\ DOMAIN sent = 1..n
  OBVIOUS
<1>2. /\ more \in Seq(Sent) /\ more # <<>> /\ Len(more) = n + 1
      /\ DOMAIN more = 1..(n + 1)
      /\ \A i \in 1..n : more[i] = sent[i]
      /\ more[n + 1] = e
  BY AppendProperties
<1>3. IsFiniteSet(Tokens(sent)) /\ Cardinality(Tokens(sent)) \in Nat
  <2>1. IsFiniteSet(1..n)
    BY <1>1, FS_Interval
  <2>2. Tokens(sent) \in SUBSET (1..n)
    BY <1>1 DEF Tokens
  <2>3. IsFiniteSet(Tokens(sent))
    BY <2>1, <2>2, FS_Subset
  <2> QED BY <2>3, FS_CardinalityType
<1>4. n = 0 => sent = <<>>
  OBVIOUS
<1> HIDE DEF more, n
<1>5. \A i \in 1..(n + 1) : i \in 1..n \/ i = n + 1
  BY <1>1
<1>6. 1..n \subseteq 1..(n + 1) /\ n + 1 \in 1..(n + 1) /\ n + 1 \notin 1..n
  BY <1>1
<1>7. Tokens(more) = Tokens(sent) \union (IF e = "token" THEN {n + 1} ELSE {})
  BY <1>1, <1>2, <1>5, <1>6 DEF Tokens
<1>8. n + 1 \notin Tokens(sent)
  BY <1>1, <1>6 DEF Tokens
<1>9. Cardinality(Tokens(more)) = Cardinality(Tokens(sent)) + IF e = "token" THEN 1 ELSE 0
  <2>1. CASE e = "token"
    BY <1>3, <1>7, <1>8, <2>1, FS_AddElement
  <2>2. CASE e # "token"
    BY <1>3, <1>7, <2>2
  <2> QED BY <2>1, <2>2
<1>10. more = <<"error">> => n = 0 /\ e = "error"
  <2>1. SUFFICES ASSUME more = <<"error">> PROVE n = 0 /\ e = "error"
    OBVIOUS
  <2>2. Len(more) = 1 /\ more[1] = "error"
    BY <2>1
  <2>3. n = 0
    BY <1>1, <1>2, <2>2
  <2> QED BY <1>2, <2>2, <2>3
<1> QED BY <1>1, <1>2, <1>3, <1>4, <1>5, <1>9, <1>10 DEF more

-----------------------------------------------------------------------------
(***************************************************************************)
(* Every step preserves the invariant.                                     *)
(***************************************************************************)
LEMMA InitInv == Init => QueryInv
<1> SUFFICES ASSUME Init PROVE QueryInv
  OBVIOUS
<1>1. ask.stream \in BOOLEAN
  BY QueryAssumption DEF Init
<1>2. Types
  <2>1. points \subseteq Chunk /\ nodes \subseteq Chunk
    BY RetrievalAssumption DEF Init, StoresInit, ChunksOf
  <2>2. found \in [Search -> [is : {"pending", "raised", "returned"}, hits : Seq(Hit)]]
    BY DEF Init, Pending, Outcome
  <2>3. events \in Seq(Sent)
    BY DEF Init
  <2> QED BY <2>1, <2>2, <2>3 DEF Types, Init, Steps, Intents
<1>3. VectorHits = <<>> /\ GraphHits = <<>>
  BY DEF Init, VectorHits, GraphHits, Pending, Outcome, Search
<1>4. FoundOwn
  BY <1>3 DEF FoundOwn, OwnVector, OwnGraph, Keyed
<1>5. CitedIsSettled
  BY DEF Init, CitedIsSettled, Answering
<1>6. Tokens(<<>>) = {}
  BY DEF Tokens
<1>7. EventsCount
  <2>1. events = <<>> /\ answer = 0 /\ saved = 0 /\ step = "idle"
    BY DEF Init
  <2>2. Cardinality(Tokens(events)) = 0
    BY <1>6, <2>1, FS_EmptySet
  <2>3. events # <<"error">> /\ DOMAIN events = {}
    BY <2>1
  <2> QED BY <1>1, <2>1, <2>2, <2>3 DEF EventsCount, Answering
<1>8. NotSearched
  BY DEF Init, NotSearched, Pending, Outcome, Search
<1> QED BY <1>2, <1>4, <1>5, <1>7, <1>8 DEF QueryInv

(* The two searches store what they found; the rest leaves it alone. *)
LEMMA OutcomesAre ==
    /\ \A hits \in Seq(Hit) :
          /\ Returned(hits) \in [is : {"raised", "returned"}, hits : Seq(Hit)]
          /\ Returned(hits).hits = hits
    /\ Raised \in [is : {"raised", "returned"}, hits : Seq(Hit)]
    /\ Raised.hits = <<>> /\ <<>> \in Seq(Hit)
<1>1. <<>> \in Seq(Hit)
  OBVIOUS
<1> QED BY <1>1 DEF Returned, Raised, Outcome

LEMMA SearchVectorFinds ==
    ASSUME Types, SearchVector
    PROVE  \E outcome : /\ found' = [found EXCEPT !["vector"] = outcome]
                        /\ outcome \in [is : {"raised", "returned"}, hits : Seq(Hit)]
                        /\ OwnVector(outcome.hits)
<1>1. PICK hits \in VectorAnswers(ask.tenant, ask.only, FetchK(settings, K)) :
         \E outcome \in {Returned(hits)} \union (IF Faulty THEN {Raised} ELSE {}) :
             found' = [found EXCEPT !["vector"] = outcome]
  BY DEF SearchVector
<1>2. hits \in Seq(Hit) /\ OwnVector(hits)
  BY LimitsAreNat, VectorFindsOwn
<1>3. OwnVector(<<>>)
  BY DEF OwnVector, Keyed
<1>4. PICK outcome : /\ found' = [found EXCEPT !["vector"] = outcome]
                     /\ outcome = Returned(hits) \/ outcome = Raised
  BY <1>1
<1>5. outcome \in [is : {"raised", "returned"}, hits : Seq(Hit)] /\ OwnVector(outcome.hits)
  BY <1>2, <1>3, <1>4, OutcomesAre
<1> QED BY <1>4, <1>5

LEMMA SearchGraphFinds ==
    ASSUME Types, SearchGraph
    PROVE  \E outcome : /\ found' = [found EXCEPT !["graph"] = outcome]
                        /\ outcome \in [is : {"raised", "returned"}, hits : Seq(Hit)]
                        /\ OwnGraph(outcome.hits)
<1>1. PICK outcome \in
           IF ask.blank THEN {Returned(<<>>)}
           ELSE {Returned(hits) : hits \in GraphAnswers(ask.tenant, ask.named, K)}
                \union (IF Faulty THEN {Raised} ELSE {}) :
         found' = [found EXCEPT !["graph"] = outcome]
  BY DEF SearchGraph
<1>2. \/ outcome = Returned(<<>>) \/ outcome = Raised
      \/ \E hits \in GraphAnswers(ask.tenant, ask.named, K) : outcome = Returned(hits)
  BY <1>1
<1>3. OwnGraph(<<>>)
  BY DEF OwnGraph
<1>4. outcome \in [is : {"raised", "returned"}, hits : Seq(Hit)] /\ OwnGraph(outcome.hits)
  <2>1. CASE outcome = Returned(<<>>) \/ outcome = Raised
    BY <1>3, <2>1, OutcomesAre
  <2>2. CASE \E hits \in GraphAnswers(ask.tenant, ask.named, K) : outcome = Returned(hits)
    <3>1. PICK hits \in GraphAnswers(ask.tenant, ask.named, K) : outcome = Returned(hits)
      BY <2>2
    <3>2. hits \in Seq(Hit) /\ OwnGraph(hits)
      BY LimitsAreNat, GraphFindsOwn
    <3> QED BY <3>1, <3>2, OutcomesAre
  <2> QED BY <1>2, <2>1, <2>2
<1> QED BY <1>1, <1>4

LEMMA StoresKeep ==
    ASSUME Types, StoresNext PROVE points' \subseteq Chunk /\ nodes' \subseteq Chunk
<1>1. \A d \in Doc : ChunksOf(d) \subseteq Chunk
  BY DEF ChunksOf
<1> QED BY <1>1 DEF Types, StoresNext, WritePoints, WriteGraph, DeletePoints, DeleteGraph

(* The events after a step, when it sends one. *)
LEMMA SendsOne ==
    ASSUME Types, EventsCount, NEW e \in Sent, Sends(e)
    PROVE  /\ events' \in Seq(Sent)
           /\ ask.stream => /\ events' # <<>>
                            /\ Cardinality(Tokens(events'))
                                  = answer + IF e = "token" THEN 1 ELSE 0
                            /\ events # <<>> => events' # <<"error">>
           /\ ~ask.stream => events' = <<>>
           /\ events' = <<"error">> => e = "error"
           /\ (\E i \in DOMAIN events' : events'[i] = "error")
                 => e = "error" \/ \E i \in DOMAIN events : events[i] = "error"
<1> DEFINE more == Append(events, e)
<1>1. events \in Seq(Sent)
  BY DEF Types
<1>2. /\ more \in Seq(Sent) /\ more # <<>>
      /\ Cardinality(Tokens(more))
             = Cardinality(Tokens(events)) + IF e = "token" THEN 1 ELSE 0
      /\ \A i \in DOMAIN more : more[i] = e \/ \E j \in DOMAIN events : events[j] = more[i]
      /\ events # <<>> => more # <<"error">>
      /\ more = <<"error">> => e = "error"
  BY <1>1, OneMore
<1>3. CASE ask.stream
  <2>1. events' = more /\ Cardinality(Tokens(events)) = answer
    BY <1>3 DEF Sends, EventsCount
  <2> HIDE DEF more
  <2> QED BY <1>2, <1>3, <2>1
<1>4. CASE ~ask.stream
  <2>1. events' = <<>>
    BY <1>4 DEF Sends, EventsCount
  <2> QED BY <1>4, <2>1
<1> QED BY <1>3, <1>4

LEMMA TypesKept == QueryInv /\ [Next]_vars => Types'
<1> SUFFICES ASSUME QueryInv, [Next]_vars PROVE Types'
  OBVIOUS
<1> USE DEF request, output, Goes
<1>0. Types /\ EventsCount
  BY DEF QueryInv
<1>1. ASSUME UNCHANGED vars PROVE Types'
  BY <1>0, <1>1 DEF Types, vars, stores
<1>2. CASE Ask
  BY <1>0, <1>2 DEF Ask, Types, Steps, Intents, stores
<1>3. CASE Classify
  BY <1>0, <1>3 DEF Classify, Types, Steps, stores
<1>4. CASE SearchVector
  <2>1. found' \in [Search -> [is : {"pending", "raised", "returned"}, hits : Seq(Hit)]]
    BY <1>0, <1>4, SearchVectorFinds DEF Types
  <2> QED BY <1>0, <1>4, <2>1 DEF SearchVector, Searching, Types, stores
<1>5. CASE SearchGraph
  <2>1. found' \in [Search -> [is : {"pending", "raised", "returned"}, hits : Seq(Hit)]]
    BY <1>0, <1>5, SearchGraphFinds DEF Types
  <2> QED BY <1>0, <1>5, <2>1 DEF SearchGraph, Searching, Types, stores
<1>6. ASSUME NEW e \in Sent, Sends(e) PROVE events' \in Seq(Sent)
  BY <1>0, <1>6, SendsOne
<1>7. CASE CiteNothing
  BY <1>0, <1>6, <1>7 DEF CiteNothing, Cite, Types, Steps, Sent, stores
<1>8. CASE CiteFound
  <2>1. scored' \in BOOLEAN /\ Sends("citation")
    BY <1>8, QueryAssumption DEF CiteFound, Cite
  <2>2. events' \in Seq(Sent)
    BY <1>6, <2>1 DEF Sent
  <2> QED BY <1>0, <1>8, <2>1, <2>2 DEF CiteFound, Cite, Types, Steps, stores
<1>9. CASE RetrievalFails
  BY <1>0, <1>6, <1>9 DEF RetrievalFails, Types, Steps, Over, Sent, stores
<1>10. CASE Token
  <2>1. events' \in Seq(Sent)
    BY <1>6, <1>10 DEF Token, Sent
  <2>2. answer' \in Nat
    BY <1>0, <1>10, QueryAssumption DEF Token, Types
  <2> QED BY <1>0, <1>10, <2>1, <2>2 DEF Token, Types, stores
<1>11. CASE AnswerEnds
  <2>1. events' \in Seq(Sent)
    BY <1>0, <1>6, <1>11 DEF AnswerEnds, Types, Sent
  <2>2. step' \in Steps
    BY <1>11 DEF AnswerEnds, AfterAnswer, Steps, Over
  <2> QED BY <1>0, <1>11, <2>1, <2>2 DEF AnswerEnds, Types, stores
<1>12. CASE GenerationFails
  BY <1>0, <1>6, <1>12 DEF GenerationFails, AfterFailure, Types, Steps, Over, Sent, stores
<1>13. CASE AppendTurn
  <2>1. events' \in Seq(Sent)
    BY <1>6, <1>13 DEF AppendTurn, Sent
  <2>2. saved' \in Nat
    BY <1>0, <1>13 DEF AppendTurn, Types
  <2> QED BY <1>0, <1>13, <2>1, <2>2 DEF AppendTurn, Types, Steps, Over, stores
<1>14. CASE Abandon
  <2>1. saved' \in Nat
    BY <1>0, <1>14 DEF Abandon, Types
  <2> QED BY <1>0, <1>14, <2>1 DEF Abandon, Types, Steps, Over, stores
<1>15. CASE Elsewhere
  BY <1>0, <1>15, StoresKeep DEF Elsewhere, Types
<1>16. CASE ClassifyFails
  BY <1>0, <1>6, <1>16 DEF ClassifyFails, Types, Steps, Over, Sent, stores
<1> QED BY <1>1, <1>2, <1>3, <1>4, <1>5, <1>7, <1>8, <1>9, <1>10, <1>11, <1>12,
           <1>13, <1>14, <1>15, <1>16 DEF Next, QueryNext, Rest

LEMMA FoundKept == QueryInv /\ [Next]_vars => FoundOwn'
<1> SUFFICES ASSUME QueryInv, [Next]_vars PROVE FoundOwn'
  OBVIOUS
<1> USE DEF request
<1>0. Types /\ FoundOwn
  BY DEF QueryInv
<1> DEFINE Alike == found' = found /\ ask' = ask
<1>1. ASSUME Alike PROVE FoundOwn'
  BY <1>0, <1>1 DEF FoundOwn, OwnVector, OwnGraph, VectorHits, GraphHits
<1>2. CASE SearchVector
  <2>1. PICK outcome : found' = [found EXCEPT !["vector"] = outcome] /\ OwnVector(outcome.hits)
    BY <1>0, <1>2, SearchVectorFinds
  <2>2. ask' = ask
    BY <1>2 DEF SearchVector, Searching
  <2>3. VectorHits' = outcome.hits /\ GraphHits' = GraphHits
    BY <1>0, <2>1 DEF Types, Search, VectorHits, GraphHits
  <2> QED BY <1>0, <2>1, <2>2, <2>3 DEF FoundOwn, OwnVector, OwnGraph
<1>3. CASE SearchGraph
  <2>1. PICK outcome : found' = [found EXCEPT !["graph"] = outcome] /\ OwnGraph(outcome.hits)
    BY <1>0, <1>3, SearchGraphFinds
  <2>2. ask' = ask
    BY <1>3 DEF SearchGraph, Searching
  <2>3. GraphHits' = outcome.hits /\ VectorHits' = VectorHits
    BY <1>0, <2>1 DEF Types, Search, VectorHits, GraphHits
  <2> QED BY <1>0, <2>1, <2>2, <2>3 DEF FoundOwn, OwnVector, OwnGraph
<1>4. CASE UNCHANGED vars
  BY <1>1, <1>4 DEF vars
<1>5. CASE Ask \/ Classify \/ ClassifyFails \/ Elsewhere
  BY <1>1, <1>5 DEF Ask, Classify, ClassifyFails, Elsewhere
<1>6. CASE CiteNothing \/ CiteFound \/ RetrievalFails
  BY <1>1, <1>6 DEF CiteNothing, CiteFound, RetrievalFails, Cite
<1>7. CASE Token \/ AnswerEnds \/ GenerationFails \/ AppendTurn \/ Abandon
  BY <1>1, <1>7 DEF Token, AnswerEnds, GenerationFails, AppendTurn, Abandon
<1> QED BY <1>2, <1>3, <1>4, <1>5, <1>6, <1>7 DEF Next, QueryNext, Rest

LEMMA CitedKept == QueryInv /\ [Next]_vars => CitedIsSettled'
<1> SUFFICES ASSUME QueryInv, [Next]_vars PROVE CitedIsSettled'
  OBVIOUS
<1> USE DEF request, Goes
<1>0. CitedIsSettled
  BY DEF QueryInv
<1> DEFINE Calm == /\ settings' = settings /\ ask' = ask /\ intent' = intent
                   /\ found' = found /\ context' = context
<1>1. ASSUME Calm, scored' = scored PROVE Settled' = Settled
  BY <1>1 DEF Settled, GraphHits, VectorHits, K
<1>2. ASSUME Calm, scored' = scored, Answering' => Answering, Asking' => Asking
      PROVE  CitedIsSettled'
  BY <1>0, <1>1, <1>2 DEF CitedIsSettled
<1>3. ASSUME Asking, Asking', context' = context PROVE CitedIsSettled'
  BY <1>0, <1>3 DEF CitedIsSettled, Asking, Answering
<1>4. CASE Ask \/ Classify
  BY <1>3, <1>4 DEF Ask, Classify, output, Asking
<1>5. CASE SearchVector \/ SearchGraph
  BY <1>3, <1>5 DEF SearchVector, SearchGraph, Searching, output, Asking
<1>6. CASE CiteNothing
  BY <1>6 DEF CiteNothing, Cite, CitedIsSettled, Asking
<1>7. CASE CiteFound
  <2>1. context' = Finalize(settings, GraphHits, VectorHits, K, scored')
    BY <1>7 DEF CiteFound, Cite
  <2>2. settings' = settings /\ ask' = ask /\ intent' = intent /\ found' = found
    BY <1>7 DEF CiteFound, Cite
  <2>3. Settled'
    BY <2>1, <2>2 DEF Settled, GraphHits, VectorHits, K
  <2>4. step' = "generate"
    BY <1>7 DEF CiteFound
  <2> QED BY <2>3, <2>4 DEF CitedIsSettled, Asking
<1>8. CASE RetrievalFails
  <2>1. step' = "error"
    BY <1>8 DEF RetrievalFails
  <2> QED BY <1>2, <1>8, <2>1 DEF RetrievalFails, Answering, Asking, CitedIsSettled
<1>9. CASE Token \/ AnswerEnds \/ AppendTurn
  <2>1. Answering /\ Answering' /\ ~Asking'
    BY <1>9 DEF Token, AnswerEnds, AppendTurn, AfterAnswer, Answering, Asking
  <2> QED BY <1>2, <1>9, <2>1 DEF Token, AnswerEnds, AppendTurn
<1>10. CASE GenerationFails
  <2>1. ~Answering' /\ ~Asking'
    BY <1>10 DEF GenerationFails, AfterFailure, Answering, Asking
  <2> QED BY <1>2, <1>10, <2>1 DEF GenerationFails
<1>11. CASE Abandon
  <2>1. ~Answering' /\ ~Asking'
    BY <1>11 DEF Abandon, Answering, Asking
  <2> QED BY <1>2, <1>11, <2>1 DEF Abandon
<1>12. CASE Elsewhere
  BY <1>2, <1>12 DEF Elsewhere, output, Answering, Asking
<1>13. CASE UNCHANGED vars
  BY <1>2, <1>13 DEF vars, output, Answering, Asking
<1>14. CASE ClassifyFails
  <2>1. ~Answering' /\ ~Asking'
    BY <1>14 DEF ClassifyFails, Answering, Asking
  <2> QED BY <1>2, <1>14, <2>1 DEF ClassifyFails
<1> QED BY <1>4, <1>5, <1>6, <1>7, <1>8, <1>9, <1>10, <1>11, <1>12, <1>13, <1>14
        DEF Next, QueryNext, Rest

LEMMA EventsKept == QueryInv /\ [Next]_vars => EventsCount'
<1> SUFFICES ASSUME QueryInv, [Next]_vars PROVE EventsCount'
  OBVIOUS
<1> USE DEF request, Goes
<1>0. Types /\ EventsCount
  BY DEF QueryInv
<1>s. ask.stream \in BOOLEAN
  BY <1>0, QueryAssumption DEF Types
<1> DEFINE Reports(sent) == \E i \in DOMAIN sent : sent[i] = "error"
(* A step that sends no event. *)
<1>1. ASSUME UNCHANGED <<ask, events, answer>>,
             found["vector"].is # "returned" => found'["vector"].is # "returned",
             Asking' => Asking, Answering' => Answering,
             step = "error" => step' = "error",
             saved' > 0 => step' \in {"done", "abandoned"} /\ saved' = answer
      PROVE  EventsCount'
  BY <1>0, <1>1 DEF EventsCount
(* A step that sends one. *)
<1>2. ASSUME NEW e \in Sent, Sends(e), ask' = ask, found' = found, ~Asking', step # "error",
             answer' = answer + (IF e = "token" /\ ask.stream THEN 1 ELSE 0)
                \/ ~ask.stream,
             e = "error" => step' = "error",
             e = "error" => events # <<>> \/ ~ask.stream \/ found["vector"].is # "returned",
             saved' > 0 => step' \in {"done", "abandoned"} /\ saved' = answer'
      PROVE  EventsCount'
  <2>1. /\ ask.stream => /\ events' # <<>>
                         /\ Cardinality(Tokens(events')) = answer + IF e = "token" THEN 1 ELSE 0
                         /\ events # <<>> => events' # <<"error">>
        /\ ~ask.stream => events' = <<>>
        /\ events' = <<"error">> => e = "error"
        /\ Reports(events') => e = "error" \/ Reports(events)
    BY <1>0, <1>2, SendsOne
  <2>2. Reports(events') => step' = "error"
    BY <1>0, <1>2, <2>1 DEF EventsCount
  <2>3. events' = <<"error">> => found'["vector"].is # "returned"
    <3>1. SUFFICES ASSUME events' = <<"error">> PROVE found["vector"].is # "returned"
      BY <1>2
    <3>2. events' # <<>>
      BY <3>1
    <3> QED BY <1>2, <1>s, <2>1, <3>1, <3>2
  <2>4. IF ask'.stream THEN Cardinality(Tokens(events')) = answer' ELSE events' = <<>>
    <3>1. CASE ask.stream
      BY <1>2, <2>1, <3>1
    <3>2. CASE ~ask.stream
      BY <1>2, <2>1, <3>2
    <3> QED BY <3>1, <3>2
  <2> HIDE DEF Reports
  <2> QED BY <1>2, <2>1, <2>2, <2>3, <2>4 DEF EventsCount, Reports
<1>3. CASE Ask \/ Classify
  BY <1>0, <1>1, <1>3 DEF Ask, Classify, output, Asking, Answering, EventsCount
<1>4. CASE SearchVector \/ SearchGraph
  <2>1. UNCHANGED <<ask, step, events, answer, saved>> /\ step = "search"
    BY <1>4 DEF SearchVector, SearchGraph, Searching, output
  <2>2. events = <<>> /\ saved = 0
    BY <1>0, <2>1 DEF EventsCount, Asking, Types
  <2>3. events' # <<"error">> /\ DOMAIN events' = {}
    BY <2>1, <2>2
  <2> QED BY <1>0, <2>1, <2>2, <2>3 DEF EventsCount, Asking, Answering
<1>5. CASE CiteNothing \/ CiteFound
  <2>1. /\ Sends("citation") /\ UNCHANGED <<ask, found, answer, saved>>
        /\ step = "search" /\ step' = "generate"
    BY <1>5 DEF CiteNothing, CiteFound, Cite
  <2>2. saved = 0
    BY <1>0, <2>1 DEF EventsCount, Types
  <2> QED BY <1>0, <1>2, <2>1, <2>2 DEF Sent, Asking, Types
<1>6. CASE RetrievalFails
  <2>1. /\ Sends("error") /\ UNCHANGED <<ask, found, answer, saved>>
        /\ step = "search" /\ step' = "error"
    BY <1>6 DEF RetrievalFails
  <2>2. found["vector"].is # "returned"
    BY <1>6 DEF RetrievalFails, MayCite, Raised, Outcome
  <2>3. saved = 0
    BY <1>0, <2>1 DEF EventsCount, Types
  <2> QED BY <1>0, <1>2, <2>1, <2>2, <2>3 DEF Sent, Asking, Types
<1>7. CASE Token
  <2>1. /\ Sends("token") /\ UNCHANGED <<ask, found, step, saved>> /\ step = "generate"
        /\ answer' = IF ask.stream THEN answer + 1 ELSE MaxTokens
    BY <1>7 DEF Token
  <2>2. saved = 0
    BY <1>0, <2>1 DEF EventsCount, Types
  <2> QED BY <1>2, <1>s, <2>1, <2>2 DEF Sent, Asking
<1>8. CASE AnswerEnds
  <2>1. /\ UNCHANGED <<ask, found, answer, saved>> /\ step = "generate"
        /\ step' = AfterAnswer
        /\ IF AfterAnswer = "done" THEN Sends("done") ELSE UNCHANGED events
    BY <1>8 DEF AnswerEnds
  <2>2. saved = 0
    BY <1>0, <2>1 DEF EventsCount, Types
  <2>3. CASE AfterAnswer = "done"
    BY <1>0, <1>2, <2>1, <2>2, <2>3 DEF Sent, Asking, Types
  <2>4. CASE AfterAnswer # "done"
    <3>1. step' = "append"
      BY <2>1, <2>4 DEF AfterAnswer
    <3> QED BY <1>1, <2>1, <2>2, <2>4, <3>1 DEF Asking, Answering
  <2> QED BY <2>3, <2>4
<1>9. CASE GenerationFails
  <2>1. /\ Sends("error") /\ UNCHANGED <<ask, found, answer, saved>>
        /\ step = "generate" /\ step' = "error"
    BY <1>9 DEF GenerationFails, AfterFailure
  <2>2. saved = 0 /\ (events # <<>> \/ ~ask.stream)
    BY <1>0, <2>1 DEF EventsCount, Types, Answering
  <2> QED BY <1>0, <1>2, <2>1, <2>2 DEF Sent, Asking, Types
<1>10. CASE AppendTurn
  <2>1. /\ Sends("done") /\ UNCHANGED <<ask, found, answer>>
        /\ step = "append" /\ step' = "done"
        /\ saved' = answer \/ saved' = saved
    BY <1>10 DEF AppendTurn
  <2>2. saved = 0
    BY <1>0, <2>1 DEF EventsCount, Types
  <2> QED BY <1>0, <1>2, <2>1, <2>2 DEF Sent, Asking, Types
<1>11. CASE Abandon
  <2>1. /\ UNCHANGED <<ask, events, answer, found>> /\ step' = "abandoned"
        /\ step # "error" /\ step # "done" /\ step # "abandoned"
        /\ saved' = answer \/ saved' = saved
    BY <1>11 DEF Abandon, Over
  <2>2. saved = 0
    BY <1>0, <2>1 DEF EventsCount, Types
  <2> QED BY <1>1, <2>1, <2>2 DEF Asking, Answering
<1>12. CASE Elsewhere
  BY <1>0, <1>1, <1>12 DEF Elsewhere, output, Asking, Answering, EventsCount
<1>13. CASE UNCHANGED vars
  BY <1>0, <1>1, <1>13 DEF vars, output, Asking, Answering, EventsCount
<1>14. CASE ClassifyFails
  <2>1. /\ Sends("error") /\ UNCHANGED <<ask, found, answer, saved>>
        /\ step = "classify" /\ step' = "error"
    BY <1>14 DEF ClassifyFails
  <2>2. found["vector"].is # "returned"
    BY <2>1 DEF QueryInv, NotSearched
  <2>3. saved = 0
    BY <1>0, <2>1 DEF EventsCount, Types
  <2> QED BY <1>0, <1>2, <2>1, <2>2, <2>3 DEF Sent, Asking, Types
<1> QED BY <1>3, <1>4, <1>5, <1>6, <1>7, <1>8, <1>9, <1>10, <1>11, <1>12, <1>13, <1>14
        DEF Next, QueryNext, Rest

LEMMA NotSearchedKept == QueryInv /\ [Next]_vars => NotSearched'
<1> SUFFICES ASSUME QueryInv, [Next]_vars PROVE NotSearched'
  OBVIOUS
<1> USE DEF Goes, NotSearched
<1>0. NotSearched
  BY DEF QueryInv
<1>1. CASE Ask
  BY <1>0, <1>1 DEF Ask
<1>2. CASE Classify \/ ClassifyFails \/ RetrievalFails
  BY <1>2 DEF Classify, ClassifyFails, RetrievalFails
<1>3. CASE SearchVector \/ SearchGraph
  BY <1>3 DEF SearchVector, SearchGraph, Searching
<1>4. CASE CiteNothing \/ CiteFound
  BY <1>4 DEF CiteNothing, CiteFound
<1>5. CASE Token \/ AnswerEnds \/ GenerationFails \/ AppendTurn \/ Abandon
  BY <1>5 DEF Token, AnswerEnds, AfterAnswer, GenerationFails, AfterFailure, AppendTurn, Abandon
<1>6. CASE Elsewhere \/ UNCHANGED vars
  BY <1>0, <1>6 DEF Elsewhere, vars
<1> QED BY <1>1, <1>2, <1>3, <1>4, <1>5, <1>6 DEF Next, QueryNext, Rest

(* In every state of a request: the answer was made of hits of the asker's
   documents, the context was settled by the two searches, the events of a
   stream count the answer's deltas. *)
THEOREM QueryInvariance == Spec => []QueryInv
<1>1. QueryInv /\ [Next]_vars => QueryInv'
  BY TypesKept, FoundKept, CitedKept, EventsKept, NotSearchedKept DEF QueryInv
<1> QED BY InitInv, <1>1, PTL DEF Spec

-----------------------------------------------------------------------------
(***************************************************************************)
(* What is promised of an answer.                                          *)
(***************************************************************************)

(* An exchange reaches the session only whole (SavedIsWhole): of a stream the
   deltas that were saved are those that were sent, and no error was. *)
THEOREM SavedIsWholeHolds == Spec => []SavedIsWhole
<1>1. QueryInv => SavedIsWhole
  <2> SUFFICES ASSUME EventsCount, saved > 0
               PROVE  /\ step \in {"done", "abandoned"}
                      /\ ask.stream => Cardinality(Tokens(events)) = saved
                      /\ \A i \in DOMAIN events : events[i] # "error"
    BY DEF QueryInv, SavedIsWhole, Tokens
  <2>1. step \in {"done", "abandoned"} /\ saved = answer /\ step # "error"
    BY DEF EventsCount
  <2> QED BY <2>1 DEF EventsCount
<1> QED BY <1>1, QueryInvariance, PTL

(* What is cited was found by one of the searches. *)
LEMMA CitedIsFound ==
    ASSUME QueryInv
    PROVE  Cited \subseteq Hits /\ GraphHits \in Seq(Hit) /\ VectorHits \in Seq(Hit)
<1>1. GraphHits \in Seq(Hit) /\ VectorHits \in Seq(Hit)
  BY DEF QueryInv, Types, GraphHits, VectorHits, Search
<1>2. CASE context = <<>>
  BY <1>1, <1>2 DEF Cited, ToSet
<1>3. CASE Settled
  <2>1. K \in Nat /\ scored \in BOOLEAN
        /\ settings \in [reranker : BOOLEAN, fusion : BOOLEAN, graph : BOOLEAN]
    BY LimitsAreNat DEF QueryInv, Types
  <2>2. ToSet(Finalize(settings, GraphHits, VectorHits, K, scored))
           \subseteq ToSet(GraphHits \o VectorHits)
    BY <1>1, <2>1, FinalizeIs
  <2> QED BY <1>1, <1>3, <2>2 DEF Settled, Cited, Hits
<1> QED BY <1>2, <1>3 DEF QueryInv, CitedIsSettled

(* A question is answered from its tenant's documents only, and a hit that
   does not pass the request's filter is one of the graph search's
   (ContextIsOwn), whatever entities, relations and documents come and go. *)
THEOREM ContextIsOwnHolds == Spec => []ContextIsOwn
<1>1. QueryInv => ContextIsOwn
  <2> SUFFICES ASSUME QueryInv, NEW h \in Cited
               PROVE  /\ TenantOfChunk(h.chunk) = ask.tenant
                      /\ h.chunk[1] \in ask.only \/ h.search = "graph"
    BY DEF ContextIsOwn
  <2>1. h \in ToSet(GraphHits) \union ToSet(VectorHits)
    BY CitedIsFound, JoinedIs DEF Hits
  <2>2. OwnVector(VectorHits) /\ OwnGraph(GraphHits)
    BY DEF QueryInv, FoundOwn
  <2>3. CASE h \in ToSet(GraphHits)
    BY <2>2, <2>3 DEF OwnGraph, ToSet
  <2>4. CASE h \in ToSet(VectorHits)
    BY <2>2, <2>4 DEF OwnVector, ToSet
  <2> QED BY <2>1, <2>3, <2>4
<1> QED BY <1>1, QueryInvariance, PTL

(* A graph search or a cross-encoder that fails costs neither the answer nor
   passages (FailureCostsNothing), whatever the two searches returned. *)
THEOREM FailureCostsNothingHolds == Spec => []FailureCostsNothing
<1>1. QueryInv => FailureCostsNothing
  <2> SUFFICES ASSUME QueryInv PROVE FailureCostsNothing
    OBVIOUS
  <2>1. ASSUME Answering, intent # "casual"
        PROVE  Len(context) >= Limit(K, VectorHits)
    <3>1. Settled /\ Keyed(VectorHits)
      BY <2>1 DEF QueryInv, CitedIsSettled, FoundOwn, OwnVector
    <3>2. K \in Nat /\ scored \in BOOLEAN
          /\ settings \in [reranker : BOOLEAN, fusion : BOOLEAN, graph : BOOLEAN]
      BY LimitsAreNat DEF QueryInv, Types
    <3>3. Len(Finalize(settings, GraphHits, VectorHits, K, scored)) >= Limit(K, VectorHits)
      BY <3>1, <3>2, CitedIsFound, FinalizeIs
    <3> QED BY <3>1, <3>3 DEF Settled
  <2>2. ASSUME found["vector"].is = "returned" PROVE events # <<"error">>
    BY <2>2 DEF QueryInv, EventsCount
  <2> QED BY <2>1, <2>2 DEF FailureCostsNothing
<1> QED BY <1>1, QueryInvariance, PTL

(* Of the pool, what the cross-encoder leaves out is no more relevant than
   what it keeps. *)
LEMMA RerankScored ==
    ASSUME NEW hits \in Seq(Hit), NEW k \in Nat
    PROVE  /\ Rerank(hits, k, TRUE) \in Seq(Hit)
           /\ Len(Rerank(hits, k, TRUE)) = Limit(k, hits)
           /\ Limit(k, hits) \in Nat /\ Limit(k, hits) <= Len(hits)
           /\ \A i \in 1..Limit(k, hits) :
                 Rerank(hits, k, TRUE)[i] = ByRelevance(hits)[i]
<1>1. \A sc \in BOOLEAN :
         /\ Rerank(hits, k, sc) \in Seq(Hit)
         /\ Len(Rerank(hits, k, sc)) = Limit(k, hits)
         /\ Limit(k, hits) \in Nat /\ Limit(k, hits) <= Len(hits)
         /\ \A i \in 1..Limit(k, hits) :
               Rerank(hits, k, sc)[i] = IF sc THEN ByRelevance(hits)[i] ELSE hits[i]
  BY RerankIs
<1> QED BY <1>1

LEMMA BestAreKept ==
    ASSUME NEW pool \in Seq(Hit), NEW k \in Nat,
           NEW out \in ToSet(pool) \ ToSet(Rerank(pool, k, TRUE)),
           NEW kept \in ToSet(Rerank(pool, k, TRUE))
    PROVE  RelevanceOf(out) <= RelevanceOf(kept)
<1> DEFINE b == ByRelevance(pool)
           r == Rerank(pool, k, TRUE)
           m == Limit(k, pool)
           n == Len(pool)
<1>1. n \in Nat /\ DOMAIN pool = 1..n
  OBVIOUS
<1>2. /\ r \in Seq(Hit) /\ Len(r) = m /\ m \in Nat /\ m <= n
      /\ \A i \in 1..m : r[i] = b[i]
  BY RerankScored
<1>3. DOMAIN r = 1..m
  <2> HIDE DEF r, m
  <2> QED BY <1>2
<1>4. PICK o \in [DOMAIN pool -> DOMAIN pool] :
         /\ \A j \in DOMAIN pool : \E i \in DOMAIN pool : o[i] = j
         /\ \A i \in DOMAIN pool : b[i] = pool[o[i]]
  BY SortIs
<1>5. \A i, j \in 1..n : i < j => RelevanceOf(b[i]) >= RelevanceOf(b[j])
  BY <1>1, SortIs
<1>6. \A i \in 1..n : RelevanceOf(b[i]) \in Nat
  BY <1>1, SortIs, RelevanceIsNat
<1> HIDE DEF b, r, m, n
<1>7. PICK i \in 1..n : out = b[i]
  <2>1. PICK j \in 1..n : out = pool[j]
    BY <1>1 DEF ToSet
  <2>2. PICK i \in DOMAIN pool : o[i] = j
    BY <1>1, <1>4, <2>1
  <2> QED BY <1>1, <1>4, <2>1, <2>2
<1>8. PICK j \in 1..m : kept = b[j]
  BY <1>2, <1>3 DEF ToSet, r
<1>9. i \notin 1..m
  <2>1. SUFFICES ASSUME i \in 1..m PROVE FALSE
    OBVIOUS
  <2>2. out \in ToSet(r)
    BY <1>2, <1>3, <1>7, <2>1 DEF ToSet
  <2> QED BY <2>2 DEF r
<1>10. j < i /\ j \in 1..n
  BY <1>1, <1>2, <1>7, <1>8, <1>9 DEF n
<1>11. RelevanceOf(b[j]) >= RelevanceOf(b[i])
  BY <1>5, <1>7, <1>10
<1> QED BY <1>6, <1>7, <1>8, <1>10, <1>11

(* With fusion on, the limit falls on the right side of the cross-encoder
   (FusedIsBest): the context keeps to the limit, and a hit that was found and
   is not cited is no more relevant than any that is, or another hit with its
   key was taken for it. *)
THEOREM FusedIsBestHolds == Spec => []FusedIsBest
<1>1. QueryInv => FusedIsBest
  <2> DEFINE pool == Pool(GraphHits, VectorHits)
  <2>0. ASSUME QueryInv, Fused(settings) PROVE Len(context) <= K
    <3>1. K \in Nat /\ scored \in BOOLEAN /\ pool \in Seq(Hit)
      BY <2>0, CitedIsFound, LimitsAreNat, PoolIs DEF QueryInv, Types
    <3>2. CASE context = <<>>
      BY <3>1, <3>2
    <3>3. CASE Settled
      <4>1. context = Rerank(pool, K, scored)
        BY <2>0, <3>3 DEF Settled, Finalize
      <4> HIDE DEF pool
      <4>2. Len(context) = Limit(K, pool)
        BY <3>1, <4>1, RerankIs
      <4> QED BY <3>1, <4>2 DEF Limit
    <3> QED BY <2>0, <3>2, <3>3 DEF QueryInv, CitedIsSettled
  <2> HIDE DEF pool
  <2> SUFFICES ASSUME QueryInv, Fused(settings), scored,
                      NEW out \in Hits \ Cited, NEW kept \in Cited
               PROVE  \/ RelevanceOf(out) <= RelevanceOf(kept)
                      \/ \E h \in Hits \ {out} : HitKey(h) = HitKey(out)
    BY <2>0 DEF FusedIsBest
  <2> USE DEF pool
  <2>1. GraphHits \in Seq(Hit) /\ VectorHits \in Seq(Hit) /\ K \in Nat
    BY CitedIsFound, LimitsAreNat DEF QueryInv
  <2>2. /\ pool \in Seq(Hit)
        /\ ToSet(pool) \subseteq ToSet(GraphHits \o VectorHits)
        /\ Carried(GraphHits \o VectorHits) \subseteq Carried(pool)
    BY <2>1, PoolIs
  <2>3. context = Rerank(pool, K, TRUE)
    <3>1. context # <<>>
      BY DEF Cited, ToSet
    <3>2. scored = TRUE
      BY DEF QueryInv, Types
    <3> QED BY <3>1, <3>2 DEF QueryInv, CitedIsSettled, Settled, Finalize
  <2> HIDE DEF pool
  <2>4. CASE out \in ToSet(pool)
    BY <2>1, <2>2, <2>3, <2>4, BestAreKept DEF Cited
  <2>5. CASE out \notin ToSet(pool)
    <3>1. HitKey(out) \in Carried(pool)
      BY <2>2 DEF Hits, ToSet, Carried
    <3>2. PICK i \in DOMAIN pool : HitKey(pool[i]) = HitKey(out)
      BY <3>1 DEF Carried
    <3>3. pool[i] \in ToSet(pool)
      BY DEF ToSet
    <3> QED BY <2>2, <2>5, <3>2, <3>3 DEF Hits
  <2> QED BY <2>4, <2>5
<1> QED BY <1>1, QueryInvariance, PTL

===============================================================================
