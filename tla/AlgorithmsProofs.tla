--------------------------- MODULE AlgorithmsProofs ---------------------------
(***************************************************************************)
(* What the sequential algorithms compute, for every text, reply, verdict  *)
(* and experiment.  Each loop is a fold; the value of a fold is reasoned   *)
(* about by the least number of rounds for which a claim fails, since      *)
(* tlapm has no induction over data.                                       *)
(***************************************************************************)
EXTENDS Algorithms, FiniteSetTheorems, SequenceTheorems, WellFoundedInduction, TLAPS

(* Numbers: a set of them that is not empty has a least element. *)
LEMMA LeastNat ==
    ASSUME NEW T \in SUBSET Nat, T # {} PROVE \E x \in T : \A y \in T : x <= y
<1> DEFINE R == OpToRel(<, Nat)
<1>1. ASSUME NEW x \in Nat, NEW y \in Nat, y < x PROVE <<y, x>> \in R
  BY <1>1 DEF OpToRel
<1>2. IsWellFoundedOn(R, Nat)
  BY NatLessThanWellFounded
<1> HIDE DEF R
<1>3. PICK x \in T : \A y \in T : ~ (<<y, x>> \in R)
  BY <1>2, WFMin
<1>4. ASSUME NEW y \in T PROVE x <= y
  <2>1. ~(y < x)
    BY <1>1, <1>3
  <2> QED BY <2>1
<1> QED BY <1>4

(* So a set of numbers that has 0 and with each number the next has them all. *)
LEMMA AllNat ==
    ASSUME NEW T, 0 \in T, \A m \in Nat : m \in T => m + 1 \in T
    PROVE  Nat \subseteq T
<1> SUFFICES ASSUME Nat \ T # {} PROVE FALSE
  OBVIOUS
<1>1. PICK x \in Nat \ T : \A y \in Nat \ T : x <= y
  BY LeastNat
<1>2. x - 1 \in Nat /\ x = (x - 1) + 1
  BY <1>1
<1>3. x - 1 \in T
  BY <1>1, <1>2
<1> QED BY <1>1, <1>2, <1>3

(* The first n numbers, and the last of them. *)
LEMMA Upto ==
    ASSUME NEW n \in Nat
    PROVE  /\ IsFiniteSet(1..n) /\ Cardinality(1..n) = n
           /\ \A s \in SUBSET (1..n) : s # {} => Max(s) \in s /\ \A i \in s : i <= Max(s)
           /\ \A s \in SUBSET (1..n) : s # {} => Min(s) \in s /\ \A i \in s : Min(s) <= i
<1>1. IsFiniteSet(1..n) /\ Cardinality(1..n) = n
  BY FS_Interval
<1>2. ASSUME NEW s \in SUBSET (1..n), s # {}
      PROVE  \E x \in s : \A y \in s : x >= y
  <2> DEFINE T == {k \in Nat : \A y \in s : y <= k}
  <2>1. n \in T
    OBVIOUS
  <2>2. PICK k \in T : \A j \in T : k <= j
    BY <2>1, LeastNat
  <2>3. k \in s
    <3>1. SUFFICES ASSUME k \notin s PROVE FALSE
      OBVIOUS
    <3>2. k # 0
      <4>1. PICK y : y \in s
        BY <1>2
      <4>2. y \in 1..n /\ y <= k
        BY <2>2, <4>1
      <4> QED BY <4>1, <4>2
    <3>3. k - 1 \in T
      BY <2>2, <3>1, <3>2
    <3> QED BY <2>2, <3>3
  <2> QED BY <2>2, <2>3
<1>3. ASSUME NEW s \in SUBSET (1..n), s # {}
      PROVE  \E x \in s : \A y \in s : x =< y
  <2>1. s \in SUBSET Nat
    OBVIOUS
  <2> QED BY <1>3, <2>1, LeastNat
<1>4. ASSUME NEW s \in SUBSET (1..n), s # {}
      PROVE  Max(s) \in s /\ \A i \in s : i <= Max(s)
  <2>1. Max(s) \in s /\ \A i \in s : Max(s) >= i
    BY <1>2, <1>4 DEF Max
  <2> QED BY <2>1
<1>5. ASSUME NEW s \in SUBSET (1..n), s # {}
      PROVE  Min(s) \in s /\ \A i \in s : Min(s) <= i
  BY <1>3, <1>5 DEF Min
<1> QED BY <1>1, <1>4, <1>5

(* A fold over a finite set, one element that `ch` chooses after the other. *)
Chooses(ch, S) == \A s \in SUBSET S : s # {} => ch[s] \in s
FoldOf(f, S, b, st, ch) ==
    \A s \in SUBSET S : f[s] = IF s = {} THEN b ELSE st[f[s \ {ch[s]}]][ch[s]]

LEMMA FoldExists ==
    ASSUME NEW S, IsFiniteSet(S), NEW A, NEW b \in A, NEW st \in [A -> [S -> A]],
           NEW ch, Chooses(ch, S)
    PROVE  \E f \in [SUBSET S -> A] : FoldOf(f, S, b, st, ch)
<1> USE DEF Chooses, FoldOf
<1> DEFINE Small(n) == {s \in SUBSET S : Cardinality(s) <= n}
           Good(f, n) == \A s \in Small(n) :
                            f[s] = IF s = {} THEN b ELSE st[f[s \ {ch[s]}]][ch[s]]
           T == {n \in Nat : \E f \in [Small(n) -> A] : Good(f, n)}
<1>1. \A s \in SUBSET S : IsFiniteSet(s) /\ Cardinality(s) \in Nat
  BY FS_Subset, FS_CardinalityType
<1>2. \A s \in SUBSET S : s # {} =>
         s \ {ch[s]} \in SUBSET S /\ Cardinality(s \ {ch[s]}) = Cardinality(s) - 1
  BY <1>1, FS_RemoveElement
<1>3. 0 \in T
  <2>1. \A s \in Small(0) : s = {}
    BY <1>1, FS_EmptySet
  <2>2. [s \in Small(0) |-> b] \in [Small(0) -> A] /\ Good([s \in Small(0) |-> b], 0)
    BY <2>1
  <2> QED BY <2>2
<1>4. ASSUME NEW n \in Nat, n \in T PROVE n + 1 \in T
  <2>1. PICK f \in [Small(n) -> A] : Good(f, n)
    BY <1>4
  <2> DEFINE g == [s \in Small(n + 1) |->
                      IF s = {} THEN b ELSE st[f[s \ {ch[s]}]][ch[s]]]
  <2>2. ASSUME NEW s \in Small(n + 1), s # {}
        PROVE  s \ {ch[s]} \in Small(n) /\ ch[s] \in S
    <3>1. s \in SUBSET S /\ Cardinality(s) <= n + 1 /\ Cardinality(s) \in Nat
      BY <1>1
    <3>2. s \ {ch[s]} \in SUBSET S /\ Cardinality(s \ {ch[s]}) = Cardinality(s) - 1
      BY <1>2, <2>2, <3>1
    <3>3. Cardinality(s \ {ch[s]}) <= n
      BY <3>1, <3>2
    <3> QED BY <2>2, <3>1, <3>2, <3>3
  <2>3. \A s \in Small(n) : s \in Small(n + 1)
    BY <1>1
  <2>4. ASSUME NEW s \in Small(n + 1) PROVE g[s] \in A
    <3>1. CASE s = {}
      BY <3>1
    <3>2. CASE s # {}
      <4>1. f[s \ {ch[s]}] \in A /\ ch[s] \in S
        BY <2>1, <2>2, <3>2
      <4>2. g[s] = st[f[s \ {ch[s]}]][ch[s]]
        BY <3>2
      <4>3. st[f[s \ {ch[s]}]] \in [S -> A]
        BY <4>1
      <4> QED BY <4>1, <4>2, <4>3
    <3> QED BY <3>1, <3>2
  <2>5. g \in [Small(n + 1) -> A]
    BY <2>4
  <2>6. ASSUME NEW s \in Small(n) PROVE g[s] = f[s]
    <3>1. f[s] = IF s = {} THEN b ELSE st[f[s \ {ch[s]}]][ch[s]]
      BY <2>1
    <3> QED BY <2>3, <3>1
  <2>7. Good(g, n + 1)
    <3> SUFFICES ASSUME NEW s \in Small(n + 1)
                 PROVE  g[s] = IF s = {} THEN b ELSE st[g[s \ {ch[s]}]][ch[s]]
      OBVIOUS
    <3>1. s # {} => g[s \ {ch[s]}] = f[s \ {ch[s]}]
      BY <2>2, <2>6
    <3>2. g[s] = IF s = {} THEN b ELSE st[f[s \ {ch[s]}]][ch[s]]
      OBVIOUS
    <3> HIDE DEF g
    <3> QED BY <3>1, <3>2
  <2> HIDE DEF g, Good
  <2>8. \E h \in [Small(n + 1) -> A] : Good(h, n + 1)
    BY <2>5, <2>7
  <2> HIDE DEF Small
  <2> QED BY <2>8
<1> HIDE DEF T
<1>5. Cardinality(S) \in T
  <2>1. Cardinality(S) \in Nat
    BY <1>1
  <2> QED BY <1>3, <1>4, <2>1, AllNat
<1>6. Small(Cardinality(S)) = SUBSET S
  BY <1>1, FS_Subset
<1> QED BY <1>5, <1>6 DEF T

(* The same over the first n numbers, from the first on and from the last. *)
FoldLeftOf(f, n, b, st) ==
    \A s \in SUBSET (1..n) : f[s] = IF s = {} THEN b ELSE st[f[s \ {Max(s)}]][Max(s)]
FoldRightOf(f, n, b, st) ==
    \A s \in SUBSET (1..n) : f[s] = IF s = {} THEN b ELSE st[f[s \ {Min(s)}]][Min(s)]

LEMMA FoldLeftExists ==
    ASSUME NEW n \in Nat, NEW A, NEW b \in A, NEW st \in [A -> [1..n -> A]]
    PROVE  \E f \in [SUBSET (1..n) -> A] : FoldLeftOf(f, n, b, st)
<1> DEFINE ch == [s \in SUBSET (1..n) |-> Max(s)]
<1>1. \A s \in SUBSET (1..n) : ch[s] = Max(s) /\ (s # {} => ch[s] \in s)
  BY Upto
<1>2. IsFiniteSet(1..n) /\ Chooses(ch, 1..n)
  BY <1>1, Upto DEF Chooses
<1> HIDE DEF ch
<1>3. PICK f \in [SUBSET (1..n) -> A] : FoldOf(f, 1..n, b, st, ch)
  BY <1>2, FoldExists, Zenon
<1>4. ASSUME NEW s \in SUBSET (1..n)
      PROVE  f[s] = IF s = {} THEN b ELSE st[f[s \ {Max(s)}]][Max(s)]
  BY <1>1, <1>3 DEF FoldOf
<1> QED BY <1>3, <1>4 DEF FoldLeftOf

LEMMA FoldRightExists ==
    ASSUME NEW n \in Nat, NEW A, NEW b \in A, NEW st \in [A -> [1..n -> A]]
    PROVE  \E f \in [SUBSET (1..n) -> A] : FoldRightOf(f, n, b, st)
<1> DEFINE ch == [s \in SUBSET (1..n) |-> Min(s)]
<1>1. \A s \in SUBSET (1..n) : ch[s] = Min(s) /\ (s # {} => ch[s] \in s)
  BY Upto
<1>2. IsFiniteSet(1..n) /\ Chooses(ch, 1..n)
  BY <1>1, Upto DEF Chooses
<1> HIDE DEF ch
<1>3. PICK f \in [SUBSET (1..n) -> A] : FoldOf(f, 1..n, b, st, ch)
  BY <1>2, FoldExists, Zenon
<1>4. ASSUME NEW s \in SUBSET (1..n)
      PROVE  f[s] = IF s = {} THEN b ELSE st[f[s \ {Min(s)}]][Min(s)]
  BY <1>1, <1>3 DEF FoldOf
<1> QED BY <1>3, <1>4 DEF FoldRightOf

(* Its last round takes the last number, or the first. *)
LEMMA LastRound ==
    ASSUME NEW n \in Nat, NEW m \in 0..(n - 1)
    PROVE  /\ 1..(m + 1) \in SUBSET (1..n) /\ 1..(m + 1) # {}
           /\ Max(1..(m + 1)) = m + 1 /\ (1..(m + 1)) \ {m + 1} = 1..m
           /\ (m + 1)..n \in SUBSET (1..n) /\ (m + 1)..n # {}
           /\ Min((m + 1)..n) = m + 1 /\ ((m + 1)..n) \ {m + 1} = (m + 2)..n
<1>1. /\ 1..(m + 1) \in SUBSET (1..n) /\ m + 1 \in 1..(m + 1)
      /\ (m + 1)..n \in SUBSET (1..n) /\ m + 1 \in (m + 1)..n
  OBVIOUS
<1>2. (1..(m + 1)) \ {m + 1} = 1..m
  OBVIOUS
<1>3. ((m + 1)..n) \ {m + 1} = (m + 2)..n
  OBVIOUS
<1>4. Max(1..(m + 1)) \in 1..(m + 1) /\ m + 1 <= Max(1..(m + 1))
  BY <1>1, Upto
<1>5. Min((m + 1)..n) \in (m + 1)..n /\ Min((m + 1)..n) <= m + 1
  BY <1>1, Upto
<1>6. Max(1..(m + 1)) = m + 1 /\ Min((m + 1)..n) = m + 1
  BY <1>4, <1>5
<1> QED BY <1>1, <1>2, <1>3, <1>6

(* What every round keeps holds after all of them. *)
LEMMA Climb ==
    ASSUME NEW n \in Nat, NEW p, NEW A, p[0] \in A,
           \A m \in 0..(n - 1) : p[m] \in A => p[m + 1] \in A
    PROVE  \A m \in 0..n : p[m] \in A
<1> DEFINE T == {m \in Nat : m <= n => p[m] \in A}
<1>1. 0 \in T
  OBVIOUS
<1>2. ASSUME NEW m \in Nat, m \in T PROVE m + 1 \in T
  BY <1>2
<1> HIDE DEF T
<1>3. Nat \subseteq T
  BY <1>1, <1>2, AllNat
<1> QED BY <1>3 DEF T

LEMMA Descend ==
    ASSUME NEW n \in Nat, NEW p, NEW A, p[n + 1] \in A,
           \A m \in 0..(n - 1) : p[m + 2] \in A => p[m + 1] \in A
    PROVE  \A m \in 1..(n + 1) : p[m] \in A
<1> DEFINE T == {k \in Nat : k <= n => p[n + 1 - k] \in A}
<1>1. 0 \in T
  OBVIOUS
<1>2. ASSUME NEW k \in Nat, k \in T PROVE k + 1 \in T
  <2>1. SUFFICES ASSUME k + 1 <= n PROVE p[n - k] \in A
    OBVIOUS
  <2>2. n - k - 1 \in 0..(n - 1) /\ (n - k - 1) + 2 = n + 1 - k /\ (n - k - 1) + 1 = n - k
    BY <2>1
  <2>3. p[n + 1 - k] \in A
    BY <1>2, <2>1
  <2> QED BY <2>2, <2>3
<1> HIDE DEF T
<1>3. Nat \subseteq T
  BY <1>1, <1>2, AllNat
<1>4. ASSUME NEW m \in 1..(n + 1) PROVE p[m] \in A
  <2>1. n + 1 - m \in T /\ n + 1 - m <= n /\ n + 1 - (n + 1 - m) = m
    BY <1>3
  <2> QED BY <2>1 DEF T
<1> QED BY <1>4

-----------------------------------------------------------------------------
(***************************************************************************)
(* Extraction.                                                             *)
(***************************************************************************)

(* The first loop of the parser, item by item. *)
LEMMA KeepSteps ==
    ASSUME NEW items, IsList(items),
           NEW A, <<>> \in A,
           \A a \in A, i \in DOMAIN items : Keep(a, items[i]) \in A
    PROVE  \E p : /\ p[0] = <<>> /\ p[Len(items)] = EntitiesIn(items)
                  /\ \A m \in 0..(Len(items) - 1) : p[m + 1] = Keep(p[m], items[m + 1])
                  /\ \A m \in 0..Len(items) : p[m] \in A
<1> DEFINE n == Len(items)
           base == <<>>
           st == [a \in A |-> [i \in 1..n |-> Keep(a, items[i])]]
           Solves(f) == f = [s \in SUBSET (1..n) |->
                               IF s = {} THEN <<>>
                               ELSE Keep(f[s \ {Max(s)}], items[Max(s)])]
           h == CHOOSE f : Solves(f)
           p == [m \in 0..n |-> h[1..m]]
<1>1. n \in Nat /\ DOMAIN items = 1..n
  BY DEF IsList
<1>2. st \in [A -> [1..n -> A]] /\ base \in A
  BY <1>1
<1>3. EntitiesIn(items) = h[1..n]
  BY <1>1 DEF EntitiesIn, Keep, FoldLeftDomain, FoldLeft, MapThenFoldSet
<1> HIDE DEF n, st, base
<1>4. PICK f \in [SUBSET (1..n) -> A] : FoldLeftOf(f, n, base, st)
  BY <1>1, <1>2, FoldLeftExists, Zenon
<1>5. \A s \in SUBSET (1..n) :
         s # {} => Max(s) \in 1..n /\ s \ {Max(s)} \in SUBSET (1..n)
  BY <1>1, Upto
<1>6. ASSUME NEW s \in SUBSET (1..n)
      PROVE  f[s] = IF s = {} THEN <<>> ELSE Keep(f[s \ {Max(s)}], items[Max(s)])
  BY <1>1, <1>4, <1>5 DEF FoldLeftOf, st, base
<1>7. Solves(f)
  BY <1>4, <1>6
<1>8. Solves(h)
  BY <1>7
<1> HIDE DEF h
<1>9. \A s \in SUBSET (1..n) :
         h[s] = IF s = {} THEN <<>> ELSE Keep(h[s \ {Max(s)}], items[Max(s)])
  BY <1>8, <1>1, <1>5
<1> HIDE DEF Solves
<1>10. h[{}] = <<>>
  BY <1>9
<1>11. p[0] = <<>> /\ p[n] = h[1..n]
  <2>1. 1..0 = {} /\ 0 \in 0..n /\ n \in 0..n
    BY <1>1
  <2> QED BY <1>10, <2>1
<1>12. ASSUME NEW m \in 0..(n - 1) PROVE p[m + 1] = Keep(p[m], items[m + 1])
  <2> DEFINE s == 1..(m + 1)
  <2>1. s \in SUBSET (1..n) /\ s # {} /\ Max(s) = m + 1 /\ s \ {m + 1} = 1..m
    BY <1>1, LastRound
  <2>2. p[m + 1] = h[s] /\ p[m] = h[1..m]
    BY <1>1
  <2> HIDE DEF s, p
  <2>3. h[s] = Keep(h[1..m], items[m + 1])
    BY <1>9, <2>1
  <2> QED BY <2>2, <2>3
<1> HIDE DEF p
<1>13. ASSUME NEW m \in 0..(n - 1), p[m] \in A PROVE p[m + 1] \in A
  <2>1. m + 1 \in DOMAIN items
    BY <1>1
  <2> QED BY <1>12, <1>13, <2>1
<1>14. \A m \in 0..n : p[m] \in A
  BY <1>1, <1>11, <1>13, Climb
<1> QED BY <1>3, <1>11, <1>12, <1>14 DEF n

(* The second loop. *)
LEMMA LinkSteps ==
    ASSUME NEW entities, NEW items, IsList(items),
           NEW A, <<>> \in A,
           \A a \in A, i \in DOMAIN items : Link(entities, a, items[i]) \in A
    PROVE  \E p : /\ p[0] = <<>> /\ p[Len(items)] = RelationsIn(items, entities)
                  /\ \A m \in 0..(Len(items) - 1) : p[m + 1] = Link(entities, p[m], items[m + 1])
                  /\ \A m \in 0..Len(items) : p[m] \in A
<1> DEFINE n == Len(items)
           base == <<>>
           st == [a \in A |-> [i \in 1..n |-> Link(entities, a, items[i])]]
           Solves(f) == f = [s \in SUBSET (1..n) |->
                               IF s = {} THEN <<>>
                               ELSE Link(entities, f[s \ {Max(s)}], items[Max(s)])]
           h == CHOOSE f : Solves(f)
           p == [m \in 0..n |-> h[1..m]]
<1>1. n \in Nat /\ DOMAIN items = 1..n
  BY DEF IsList
<1>2. st \in [A -> [1..n -> A]] /\ base \in A
  BY <1>1
<1>3. RelationsIn(items, entities) = h[1..n]
  BY <1>1 DEF RelationsIn, Link, FoldLeftDomain, FoldLeft, MapThenFoldSet
<1> HIDE DEF n, st, base
<1>4. PICK f \in [SUBSET (1..n) -> A] : FoldLeftOf(f, n, base, st)
  BY <1>1, <1>2, FoldLeftExists, Zenon
<1>5. \A s \in SUBSET (1..n) :
         s # {} => Max(s) \in 1..n /\ s \ {Max(s)} \in SUBSET (1..n)
  BY <1>1, Upto
<1>6. ASSUME NEW s \in SUBSET (1..n)
      PROVE  f[s] = IF s = {} THEN <<>> ELSE Link(entities, f[s \ {Max(s)}], items[Max(s)])
  BY <1>1, <1>4, <1>5 DEF FoldLeftOf, st, base
<1>7. Solves(f)
  BY <1>4, <1>6
<1>8. Solves(h)
  BY <1>7
<1> HIDE DEF h
<1>9. \A s \in SUBSET (1..n) :
         h[s] = IF s = {} THEN <<>> ELSE Link(entities, h[s \ {Max(s)}], items[Max(s)])
  BY <1>8, <1>1, <1>5
<1> HIDE DEF Solves
<1>10. h[{}] = <<>>
  BY <1>9
<1>11. p[0] = <<>> /\ p[n] = h[1..n]
  <2>1. 1..0 = {} /\ 0 \in 0..n /\ n \in 0..n
    BY <1>1
  <2> QED BY <1>10, <2>1
<1>12. ASSUME NEW m \in 0..(n - 1) PROVE p[m + 1] = Link(entities, p[m], items[m + 1])
  <2> DEFINE s == 1..(m + 1)
  <2>1. s \in SUBSET (1..n) /\ s # {} /\ Max(s) = m + 1 /\ s \ {m + 1} = 1..m
    BY <1>1, LastRound
  <2>2. p[m + 1] = h[s] /\ p[m] = h[1..m]
    BY <1>1
  <2> HIDE DEF s, p
  <2>3. h[s] = Link(entities, h[1..m], items[m + 1])
    BY <1>9, <2>1
  <2> QED BY <2>2, <2>3
<1> HIDE DEF p
<1>13. ASSUME NEW m \in 0..(n - 1), p[m] \in A PROVE p[m + 1] \in A
  <2>1. m + 1 \in DOMAIN items
    BY <1>1
  <2> QED BY <1>12, <1>13, <2>1
<1>14. \A m \in 0..n : p[m] \in A
  BY <1>1, <1>11, <1>13, Climb
<1> QED BY <1>3, <1>11, <1>12, <1>14 DEF n

(* The entities a list of items can become. *)
EntityOf(item) == [name |-> item.name, type |-> NormalType(item.type)]
EntitiesOf(items) == {EntityOf(items[i]) : i \in DOMAIN items}

LEMMA KeepIs ==
    ASSUME NEW E, NEW es \in Seq(E), NEW item, EntityOf(item) \in E
    PROVE  Keep(es, item) \in Seq(E)
<1>1. Append(es, EntityOf(item)) \in Seq(E)
  BY AppendProperties
<1> QED BY <1>1 DEF Keep, EntityOf

LEMMA KeptAreList ==
    ASSUME NEW items, IsList(items)
    PROVE  EntitiesIn(items) \in Seq(EntitiesOf(items))
<1> DEFINE A == Seq(EntitiesOf(items))
<1>1. <<>> \in A /\ \A a \in A, i \in DOMAIN items : Keep(a, items[i]) \in A
  BY KeepIs DEF EntitiesOf
<1>2. Len(items) \in Nat
  BY DEF IsList
<1> HIDE DEF A
<1>3. EntitiesIn(items) \in A
  BY <1>1, <1>2, KeepSteps
<1> QED BY <1>3 DEF A

(* What the second loop keeps is linked. *)
LEMMA LinksAre ==
    ASSUME NEW entities, NEW items, IsList(items)
    PROVE  \A r \in ToSet(RelationsIn(items, entities)) : Linked(entities, r)
<1> DEFINE L == {item \in ToSet(items) : Linked(entities, item)}
           A == Seq(L)
           end == RelationsIn(items, entities)
<1>1. ASSUME NEW a \in A, NEW i \in DOMAIN items PROVE Link(entities, a, items[i]) \in A
  <2>1. CASE Linked(entities, items[i])
    <3>1. items[i] \in L
      BY <2>1 DEF ToSet
    <3> HIDE DEF L
    <3>2. Append(a, items[i]) \in Seq(L)
      BY <3>1, AppendProperties
    <3> QED BY <2>1, <3>2 DEF Link
  <2>2. CASE ~Linked(entities, items[i])
    BY <2>2 DEF Link
  <2> QED BY <2>1, <2>2
<1>2. <<>> \in A
  OBVIOUS
<1>3. Len(items) \in Nat
  BY DEF IsList
<1> HIDE DEF A
<1>4. end \in A
  BY <1>1, <1>2, <1>3, LinkSteps
<1> HIDE DEF end
<1>5. \A r \in ToSet(end) : r \in L
  <2> HIDE DEF L
  <2> QED BY <1>4 DEF A, ToSet
<1> QED BY <1>5 DEF end

(* What the parser makes of a reply: a list of entities, and relations between
   their names. *)
IsExtraction(x) ==
    /\ DOMAIN x.entities = 1..Len(x.entities) /\ Len(x.entities) \in Nat
    /\ \A r \in ToSet(x.relations) : {r.source, r.target} \subseteq NamesOf(x.entities)

LEMMA NothingIsExtraction == IsExtraction(Nothing)
BY DEF IsExtraction, Nothing, ToSet

LEMMA ExtractIs ==
    ASSUME NEW reply,
           reply.is = "object" => IsList(reply.entities.items) /\ IsList(reply.relations.items)
    PROVE  IsExtraction(Extract(reply))
<1>1. CASE reply.is = "object"
  <2> DEFINE es == EntitiesIn(reply.entities.items)
             rs == RelationsIn(reply.relations.items, es)
  <2>1. Extract(reply) = [entities |-> es, relations |-> rs]
    BY <1>1 DEF Extract, ParseObject
  <2>2. DOMAIN es = 1..Len(es) /\ Len(es) \in Nat
    BY <1>1, KeptAreList
  <2> HIDE DEF es
  <2>3. \A r \in ToSet(rs) : Linked(es, r)
    BY <1>1, LinksAre
  <2> HIDE DEF rs
  <2>4. Extract(reply).entities = es /\ Extract(reply).relations = rs
    BY <2>1
  <2>5. \A r \in ToSet(rs) : {r.source, r.target} \subseteq NamesOf(es)
    BY <2>3 DEF Linked
  <2> QED BY <2>2, <2>4, <2>5 DEF IsExtraction
<1>2. CASE reply.is # "object"
  BY <1>2, NothingIsExtraction DEF Extract
<1> QED BY <1>1, <1>2

(* The type that is looked up for a name is that of an entity of the name. *)
LEMMA TypeInIs ==
    ASSUME NEW x, IsExtraction(x), NEW name \in NamesOf(x.entities)
    PROVE  \E e \in ToSet(x.entities) : <<name, TypeIn(x, name)>> = <<e.name, e.type>>
<1> DEFINE es == x.entities
           I == {i \in 1..Len(es) : es[i].name = name}
<1>1. DOMAIN es = 1..Len(es) /\ Len(es) \in Nat
  BY DEF IsExtraction
<1>2. I \in SUBSET (1..Len(es)) /\ I # {}
  BY <1>1 DEF NamesOf
<1>3. TypeIn(x, name) = es[Max(I)].type
  BY <1>2 DEF TypeIn, SelectLastInSeq
<1>4. Max(I) \in I
  <2> HIDE DEF I
  <2> QED BY <1>1, <1>2, Upto
<1>5. es[Max(I)] \in ToSet(es) /\ es[Max(I)].name = name
  BY <1>1, <1>4 DEF ToSet
<1> QED BY <1>3, <1>5

(* What is told of a task when it has ended is what its function makes of an
   input of the task. *)
Computed ==
    \/ task = "cut" /\ input \in Documents
       /\ (ended => output = Transcribed(input.pages, input.failures, input.size, input.overlap))
    \/ task = "extract" /\ input \in Replies
       /\ (ended => output = ExtractAll(input))
    \/ task = "evaluate" /\ input \in Questions
       /\ (ended => output = Evaluate(input.asked, input.expected, input.trial))
    \/ task = "experiment" /\ input \in Experiments
       /\ (ended => output = Raw(input.questions, input.trials))

(* Every task runs once, on its own input, and its result stays. *)
THEOREM ComputedHolds == Spec => []Computed
<1>1. Init => Computed
  BY DEF Init, Computed
<1>2. Computed /\ [Next]_vars => Computed'
  <2> SUFFICES ASSUME Computed, [Next]_vars PROVE Computed'
    OBVIOUS
  <2>1. CASE Cut
    <3>1. /\ task = "cut" /\ task' = task /\ input' = input
          /\ output' = Transcribed(input.pages, input.failures, input.size, input.overlap)
      BY <2>1 DEF Cut, Runs
    <3>2. input \in Documents
      BY <3>1 DEF Computed
    <3> QED BY <3>1, <3>2 DEF Computed
  <2>2. CASE ExtractGraph
    <3>1. task = "extract" /\ task' = task /\ input' = input /\ output' = ExtractAll(input)
      BY <2>2 DEF ExtractGraph, Runs
    <3>2. input \in Replies
      BY <3>1 DEF Computed
    <3> QED BY <3>1, <3>2 DEF Computed
  <2>3. CASE ScoreQuestion
    <3>1. /\ task = "evaluate" /\ task' = task /\ input' = input
          /\ output' = Evaluate(input.asked, input.expected, input.trial)
      BY <2>3 DEF ScoreQuestion, Runs
    <3>2. input \in Questions
      BY <3>1 DEF Computed
    <3> QED BY <3>1, <3>2 DEF Computed
  <2>4. CASE RunEval
    <3>1. /\ task = "experiment" /\ task' = task /\ input' = input
          /\ output' = Raw(input.questions, input.trials)
      BY <2>4 DEF RunEval, Runs
    <3>2. input \in Experiments
      BY <3>1 DEF Computed
    <3> QED BY <3>1, <3>2 DEF Computed
  <2>5. CASE Rest \/ UNCHANGED vars
    BY <2>5 DEF Rest, vars, Computed
  <2> QED BY <2>1, <2>2, <2>3, <2>4, <2>5 DEF Next
<1> QED BY <1>1, <1>2, PTL DEF Spec

(* The rows of one extraction. *)
RowsOf(x) == {<<e.name, e.type>> : e \in ToSet(x.entities)}

LEMMA EndsAreRows ==
    ASSUME NEW x, IsExtraction(x), NEW r \in ToSet(x.relations)
    PROVE  ToSet(Ends(x, r)) \subseteq RowsOf(x)
<1> DEFINE s == <<r.source, TypeIn(x, r.source)>>
           t == <<r.target, TypeIn(x, r.target)>>
<1>1. r.source \in NamesOf(x.entities) /\ r.target \in NamesOf(x.entities)
  BY DEF IsExtraction
<1>2. s \in RowsOf(x)
  BY <1>1, TypeInIs DEF RowsOf
<1>3. t \in RowsOf(x)
  BY <1>1, TypeInIs DEF RowsOf
<1>4. Ends(x, r) = <<s, t>>
  BY DEF Ends
<1> HIDE DEF s, t
<1>5. ToSet(<<s, t>>) = {s, t}
  BY DEF ToSet
<1> QED BY <1>2, <1>3, <1>4, <1>5

LEMMA ExtractAllIs ==
    ASSUME NEW replies,
           \A i \in DOMAIN replies : replies[i].is = "object" =>
               IsList(replies[i].entities.items) /\ IsList(replies[i].relations.items)
    PROVE  /\ DOMAIN ExtractAll(replies) = DOMAIN replies
           /\ \A i \in DOMAIN replies : IsExtraction(ExtractAll(replies)[i])
<1>1. CASE GatherRaises(replies)
  <2>1. \A i \in DOMAIN replies : ExtractAll(replies)[i] = Nothing
    BY <1>1 DEF ExtractAll
  <2>2. DOMAIN ExtractAll(replies) = DOMAIN replies
    BY <1>1 DEF ExtractAll
  <2> QED BY <1>1, <2>1, <2>2, NothingIsExtraction
<1>2. CASE ~GatherRaises(replies)
  <2>1. \A i \in DOMAIN replies : ExtractAll(replies)[i] = Extract(replies[i])
    BY <1>2 DEF ExtractAll
  <2>2. DOMAIN ExtractAll(replies) = DOMAIN replies
    BY <1>2 DEF ExtractAll
  <2>3. \A i \in DOMAIN replies : IsExtraction(Extract(replies[i]))
    BY ExtractIs
  <2> QED BY <2>1, <2>2, <2>3
<1> QED BY <1>1, <1>2

(* The rows of a document: of all its replies, or none. *)
LEMMA DocumentRows ==
    ASSUME NEW replies
    PROVE  EntityRows(ExtractAll(replies)) =
               IF GatherRaises(replies) THEN {}
               ELSE UNION {RowsOf(Extract(replies[i])) : i \in DOMAIN replies}
<1>1. \A x : EntityRows(x) = UNION {RowsOf(x[i]) : i \in DOMAIN x}
  BY DEF EntityRows, RowsOf
<1>2. CASE GatherRaises(replies)
  <2>1. ExtractAll(replies) = [i \in DOMAIN replies |-> Nothing]
    BY <1>2 DEF ExtractAll
  <2>2. RowsOf(Nothing) = {}
    BY DEF RowsOf, Nothing, ToSet
  <2>3. EntityRows([i \in DOMAIN replies |-> Nothing]) = {}
    BY <1>1, <2>2
  <2> QED BY <1>2, <2>1, <2>3
<1>3. CASE ~GatherRaises(replies)
  <2>1. ExtractAll(replies) = [i \in DOMAIN replies |-> Extract(replies[i])]
    BY <1>3 DEF ExtractAll
  <2>2. EntityRows([i \in DOMAIN replies |-> Extract(replies[i])]) =
            UNION {RowsOf(Extract(replies[i])) : i \in DOMAIN replies}
    BY <1>1
  <2> QED BY <1>3, <2>1, <2>2
<1> QED BY <1>2, <1>3

LEMMA RowsAlone ==
    ASSUME NEW r, ~Raises(r) PROVE EntityRows(ExtractAll(<<r>>)) = RowsOf(Extract(r))
<1>1. DOMAIN <<r>> = {1} /\ <<r>>[1] = r
  OBVIOUS
<1>2. ~GatherRaises(<<r>>)
  BY <1>1 DEF GatherRaises
<1>3. EntityRows(ExtractAll(<<r>>)) = UNION {RowsOf(Extract(<<r>>[i])) : i \in DOMAIN <<r>>}
  BY <1>2, DocumentRows
<1>4. \A i \in DOMAIN <<r>> : RowsOf(Extract(<<r>>[i])) = RowsOf(Extract(r))
  BY <1>1
<1> QED BY <1>1, <1>3, <1>4

(* A reply that brings nothing. *)
LEMMA FlakyRows ==
    ASSUME NEW r, r.is \in {"error", "prose", "list"} PROVE ~Raises(r) /\ RowsOf(Extract(r)) = {}
BY DEF Raises, Extract, RowsOf, Nothing, ToSet

LEMMA EmptyRows == ~Raises(EmptyObject) /\ RowsOf(Extract(EmptyObject)) = {}
<1> DEFINE none == <<>>
           es == EntitiesIn(none)
<1>0. /\ EmptyObject.is = "object" /\ EmptyObject.entities.items = none
      /\ EmptyObject.entities.is = "items" /\ EmptyObject.relations.is = "items"
  BY DEF EmptyObject, Items
<1>1. ~Raises(EmptyObject)
  BY <1>0 DEF Raises, Scalar
<1>2. IsList(none) /\ EntitiesOf(none) = {}
  BY DEF IsList, ToSet, EntitiesOf
<1>3. es \in Seq({})
  BY <1>2, KeptAreList
<1>4. Extract(EmptyObject).entities = es
  BY <1>0 DEF Extract, ParseObject
<1> HIDE DEF es
<1>5. ToSet(es) = {}
  BY <1>3 DEF ToSet
<1> QED BY <1>1, <1>4, <1>5 DEF RowsOf

(* Every MATCH of graph_indexer.py finds its entity, whatever the LLM replies
   about however many chunks; and a document sends the rows of all its replies
   or, when one of them made the parser raise, none at all. *)
THEOREM RowsResolveHolds == Spec => []RowsResolve
<1>1. ASSUME Computed, Ended("extract") PROVE RowsResolve
  <2> DEFINE x == ExtractAll(input)
  <2>1. output = x /\ input \in Replies
    BY <1>1 DEF Computed, Ended
  <2>2. /\ DOMAIN x = DOMAIN input
        /\ \A i \in DOMAIN input : IsExtraction(x[i])
    BY <2>1, ExtractAllIs, RepliesAssumption
  <2>0. EntityRows(x) = IF GatherRaises(input) THEN {}
                        ELSE UNION {RowsOf(Extract(input[i])) : i \in DOMAIN input}
    BY DocumentRows
  <2> HIDE DEF x
  <2>3. EntityRows(x) = UNION {RowsOf(x[i]) : i \in DOMAIN input}
    BY <2>2 DEF EntityRows, RowsOf
  <2>4. {m[2] : m \in MentionRows(x)} \subseteq EntityRows(x)
    BY DEF MentionRows, EntityRows
  <2>5. UNION {ToSet(r[2]) : r \in RelationRows(x)} \subseteq EntityRows(x)
    <3> SUFFICES ASSUME NEW row \in RelationRows(x), NEW e \in ToSet(row[2])
                 PROVE  e \in EntityRows(x)
      OBVIOUS
    <3>0. PICK i \in DOMAIN x : \E r \in ToSet(x[i].relations) : row = <<i, Ends(x[i], r)>>
      BY DEF RelationRows
    <3>1. PICK r \in ToSet(x[i].relations) : row = <<i, Ends(x[i], r)>>
      BY <3>0
    <3>2. row[2] = Ends(x[i], r)
      BY <3>1
    <3>3. ToSet(row[2]) \subseteq RowsOf(x[i])
      BY <2>2, <3>1, <3>2, EndsAreRows
    <3> QED BY <2>2, <2>3, <3>1, <3>3
  <2>6. EntityRows(x) \in {{}, RowsOfEach}
    <3>1. CASE GatherRaises(input)
      BY <2>0, <3>1
    <3>2. CASE ~GatherRaises(input)
      <4>1. \A i \in DOMAIN input : EntityRows(ExtractAll(<<input[i]>>)) = RowsOf(Extract(input[i]))
        BY <3>2, RowsAlone DEF GatherRaises
      <4> QED BY <2>0, <3>2, <4>1 DEF RowsOfEach
    <3> QED BY <3>1, <3>2
  <2>7. ASSUME NEW i \in DOMAIN input, input[i].is \in {"error", "prose", "list"}
        PROVE  EntityRows(x) = EntityRows(ExtractAll([input EXCEPT ![i] = EmptyObject]))
    <3> DEFINE y == [input EXCEPT ![i] = EmptyObject]
    <3>1. /\ DOMAIN y = DOMAIN input /\ y[i] = EmptyObject
          /\ \A j \in DOMAIN input : j # i => y[j] = input[j]
      OBVIOUS
    <3> HIDE DEF y
    <3>2. ~Raises(input[i]) /\ RowsOf(Extract(input[i])) = {}
      BY <2>7, FlakyRows
    <3>3. ~Raises(y[i]) /\ RowsOf(Extract(y[i])) = {}
      BY <3>1, EmptyRows
    <3>4. \A j \in DOMAIN input : /\ Raises(y[j]) <=> Raises(input[j])
                                 /\ RowsOf(Extract(y[j])) = RowsOf(Extract(input[j]))
      BY <3>1, <3>2, <3>3
    <3>5. GatherRaises(y) <=> GatherRaises(input)
      BY <3>1, <3>4 DEF GatherRaises
    <3>6. UNION {RowsOf(Extract(y[j])) : j \in DOMAIN y} =
          UNION {RowsOf(Extract(input[j])) : j \in DOMAIN input}
      BY <3>1, <3>4
    <3>7. EntityRows(x) = EntityRows(ExtractAll(y))
      BY <2>0, <3>5, <3>6, DocumentRows
    <3> QED BY <3>7 DEF y
  <2> QED BY <2>1, <2>4, <2>5, <2>6, <2>7 DEF RowsResolve
<1>2. Computed => RowsResolve
  BY <1>1 DEF RowsResolve
<1> QED BY <1>2, ComputedHolds, PTL

-----------------------------------------------------------------------------
(***************************************************************************)
(* The experiment.                                                         *)
(***************************************************************************)

(* Rows without a score change no mean. *)
LEMMA MeansOf ==
    ASSUME NEW rows, NEW few,
           DOMAIN few \subseteq DOMAIN rows,
           \A i \in DOMAIN few : few[i] = rows[i],
           \A i \in DOMAIN rows \ DOMAIN few : \A name \in MetricName : ~IsScore(rows[i].scores[name])
    PROVE  Means(few) = Means(rows)
<1>1. ASSUME NEW name \in MetricName PROVE Defined(few, name) = Defined(rows, name)
  <2> DEFINE S(r) == {i \in DOMAIN r : IsScore(r[i].scores[name])}
  <2>1. S(few) = S(rows)
    OBVIOUS
  <2>2. \A i \in S(rows) : few[i] = rows[i]
    BY <2>1
  <2>3. Defined(few, name) = [i \in S(few) |-> few[i].scores[name]]
    BY DEF Defined
  <2>4. Defined(rows, name) = [i \in S(rows) |-> rows[i].scores[name]]
    BY DEF Defined
  <2> HIDE DEF S
  <2> QED BY <2>1, <2>2, <2>3, <2>4
<1>2. \A name \in MetricName : SafeMean(few, name) = SafeMean(rows, name)
  BY <1>1 DEF SafeMean
<1> QED BY <1>2 DEF Means

(* A question that raised has no score. *)
LEMMA RecordIs ==
    ASSUME NEW question, NEW trial
    PROVE  /\ RecordOf(question, trial).id = question.id
           /\ Breaks(MetricName, question.truth, trial) =>
                \A name \in MetricName : ~IsScore(RecordOf(question, trial).scores[name])
<1>1. RecordOf(question, trial).id = question.id
  BY DEF RecordOf
<1>2. ASSUME Breaks(MetricName, question.truth, trial) PROVE RecordOf(question, trial).scores = NoScores
  <2>1. ResolveMetrics(MetricName, question.truth) = MetricName
    BY DEF ResolveMetrics, MetricName
  <2>2. Evaluate(MetricName, question.truth, trial).code = 500
    BY <1>2, <2>1 DEF Evaluate
  <2> QED BY <2>2 DEF RecordOf
<1>3. \A name \in MetricName : ~IsScore(NoScores[name])
  BY DEF NoScores, IsScore, None
<1> QED BY <1>1, <1>2, <1>3

(* Whatever raises in however many questions, the means of results.md are those
   of the questions that ran, and none is left out of its list. *)
THEOREM FailuresMoveNoMeanHolds == Spec => []FailuresMoveNoMean
<1>1. ASSUME Computed, Ended("experiment") PROVE FailuresMoveNoMean
  <2> DEFINE questions == input.questions
             trials == input.trials
             ran(mode) == {i \in DOMAIN questions : ~Breaks(MetricName, questions[i].truth, trials[mode][i])}
             few == [mode \in Mode |-> [i \in ran(mode) |-> RecordOf(questions[i], trials[mode][i])]]
  <2>1. output = Raw(questions, trials) /\ IsList(questions)
    BY <1>1, ExperimentsAssumption DEF Computed, Ended
  <2>2. ASSUME NEW mode \in Mode
        PROVE  /\ DOMAIN few[mode] \subseteq DOMAIN output[mode]
               /\ \A i \in DOMAIN few[mode] : few[mode][i] = output[mode][i]
               /\ \A i \in DOMAIN output[mode] \ DOMAIN few[mode] : \A name \in MetricName :
                     ~IsScore(output[mode][i].scores[name])
               /\ DOMAIN output[mode] = DOMAIN questions
               /\ \A i \in DOMAIN questions : output[mode][i].id = questions[i].id
    <3>1. output[mode] = [i \in DOMAIN questions |-> RecordOf(questions[i], trials[mode][i])]
      BY <2>1 DEF Raw
    <3>2. few[mode] = [i \in ran(mode) |-> RecordOf(questions[i], trials[mode][i])]
      OBVIOUS
    <3> HIDE DEF few
    <3>3. ASSUME NEW i \in DOMAIN questions \ ran(mode), NEW name \in MetricName
          PROVE  ~IsScore(output[mode][i].scores[name])
      <4>1. Breaks(MetricName, questions[i].truth, trials[mode][i])
        OBVIOUS
      <4>2. output[mode][i] = RecordOf(questions[i], trials[mode][i])
        BY <3>1
      <4> QED BY <4>1, <4>2, RecordIs
    <3>4. \A i \in DOMAIN questions : output[mode][i].id = questions[i].id
      BY <3>1, RecordIs
    <3> QED BY <3>1, <3>2, <3>3, <3>4
  <2> HIDE DEF few
  <2>3. ASSUME NEW mode \in Mode PROVE Means(few[mode]) = Means(output[mode])
    BY <2>2, MeansOf
  <2>4. ASSUME NEW mode \in Mode, NEW cat \in Category
        PROVE  Means(InCategory(few[mode], cat)) = Means(InCategory(output[mode], cat))
    <3> DEFINE a == few[mode]
               b == output[mode]
    <3>1. /\ DOMAIN a \subseteq DOMAIN b
          /\ \A i \in DOMAIN a : a[i] = b[i]
          /\ \A i \in DOMAIN b \ DOMAIN a : \A name \in MetricName : ~IsScore(b[i].scores[name])
      BY <2>2
    <3> HIDE DEF a, b
    <3>2. InCategory(a, cat) = [i \in {i \in DOMAIN a : a[i].category = cat} |-> a[i]]
      BY DEF InCategory, Restrict
    <3>3. InCategory(b, cat) = [i \in {i \in DOMAIN b : b[i].category = cat} |-> b[i]]
      BY DEF InCategory, Restrict
    <3> DEFINE c == InCategory(a, cat)
               d == InCategory(b, cat)
    <3>4. /\ DOMAIN c \subseteq DOMAIN d
          /\ \A i \in DOMAIN c : c[i] = d[i]
          /\ \A i \in DOMAIN d \ DOMAIN c : \A name \in MetricName : ~IsScore(d[i].scores[name])
      BY <3>1, <3>2, <3>3
    <3> HIDE DEF c, d
    <3>5. Means(c) = Means(d)
      BY <3>4, MeansOf
    <3> QED BY <3>5 DEF a, b, c, d
  <2>5. Report(few).overall = Report(output).overall
    BY <2>3 DEF Report
  <2>6. Report(few).byCategory = Report(output).byCategory
    BY <2>4 DEF Report
  <2>7. ASSUME NEW i \in DOMAIN questions, NEW mode \in Mode
        PROVE  \E row \in Report(output).listed[mode] : row.id = questions[i].id
    <3> DEFINE rows == output[mode]
               J == {j \in DOMAIN rows : rows[j].id = questions[i].id}
    <3>1. DOMAIN rows = 1..Len(questions) /\ Len(questions) \in Nat /\ rows[i].id = questions[i].id
      BY <2>1, <2>2 DEF IsList
    <3>2. J \in SUBSET (1..Len(questions)) /\ J # {}
      BY <2>1, <3>1 DEF IsList
    <3>3. Max(J) \in J /\ \A j \in J : j <= Max(J)
      <4> HIDE DEF J
      <4> QED BY <3>1, <3>2, Upto
    <3>4. Report(output).listed[mode] = Listed(rows)
      BY DEF Report
    <3> DEFINE k == Max(J)
               row == [id |-> rows[k].id, scores |-> rows[k].scores]
    <3>5. /\ k \in DOMAIN rows /\ rows[k].id = questions[i].id
          /\ \A j \in DOMAIN rows : rows[j].id = rows[k].id => j <= k
      BY <3>3
    <3> HIDE DEF k
    <3>6. row \in Listed(rows) /\ row.id = questions[i].id
      BY <3>5 DEF Listed
    <3> QED BY <3>4, <3>6
  <2> QED BY <2>5, <2>6, <2>7 DEF FailuresMoveNoMean, few
<1>2. Computed => FailuresMoveNoMean
  BY <1>1 DEF FailuresMoveNoMean
<1> QED BY <1>2, ComputedHolds, PTL

-----------------------------------------------------------------------------
(***************************************************************************)
(* The scores.                                                             *)
(***************************************************************************)

(* The loop of context_precision, rank by rank. *)
LEMMA JudgeSteps ==
    ASSUME NEW verdicts, IsList(verdicts),
           NEW A, [seen |-> 0, sum |-> <<0, 1>>] \in A,
           \A a \in A, i \in DOMAIN verdicts : Judge(a, i, verdicts) \in A
    PROVE  \E p : /\ p[0] = [seen |-> 0, sum |-> <<0, 1>>] /\ p[Len(verdicts)] = AllJudged(verdicts)
                  /\ \A m \in 0..(Len(verdicts) - 1) : p[m + 1] = Judge(p[m], m + 1, verdicts)
                  /\ \A m \in 0..Len(verdicts) : p[m] \in A
<1> DEFINE n == Len(verdicts)
           base == [seen |-> 0, sum |-> <<0, 1>>]
           st == [a \in A |-> [i \in 1..n |-> Judge(a, i, verdicts)]]
           Solves(f) == f = [s \in SUBSET (1..n) |->
                               IF s = {} THEN [seen |-> 0, sum |-> <<0, 1>>]
                               ELSE Judge(f[s \ {Max(s)}], [i \in DOMAIN verdicts |-> i][Max(s)], verdicts)]
           h == CHOOSE f : Solves(f)
           p == [m \in 0..n |-> h[1..m]]
<1>1. n \in Nat /\ DOMAIN verdicts = 1..n
  BY DEF IsList
<1>2. st \in [A -> [1..n -> A]] /\ base \in A
  BY <1>1
<1>3. AllJudged(verdicts) = h[1..n]
  BY <1>1 DEF AllJudged, Judge, FoldLeftDomain, FoldLeft, MapThenFoldSet
<1> HIDE DEF n, st, base
<1>4. PICK f \in [SUBSET (1..n) -> A] : FoldLeftOf(f, n, base, st)
  BY <1>1, <1>2, FoldLeftExists, Zenon
<1>5. \A s \in SUBSET (1..n) :
         s # {} => Max(s) \in 1..n /\ s \ {Max(s)} \in SUBSET (1..n)
  BY <1>1, Upto
<1>6. ASSUME NEW s \in SUBSET (1..n)
      PROVE  f[s] = IF s = {} THEN [seen |-> 0, sum |-> <<0, 1>>] ELSE Judge(f[s \ {Max(s)}], [i \in DOMAIN verdicts |-> i][Max(s)], verdicts)
  BY <1>1, <1>4, <1>5 DEF FoldLeftOf, st, base
<1>7. Solves(f)
  BY <1>4, <1>6
<1>8. Solves(h)
  BY <1>7
<1> HIDE DEF h
<1>9. \A s \in SUBSET (1..n) :
         h[s] = IF s = {} THEN [seen |-> 0, sum |-> <<0, 1>>] ELSE Judge(h[s \ {Max(s)}], Max(s), verdicts)
  BY <1>8, <1>1, <1>5
<1> HIDE DEF Solves
<1>10. h[{}] = [seen |-> 0, sum |-> <<0, 1>>]
  BY <1>9
<1>11. p[0] = [seen |-> 0, sum |-> <<0, 1>>] /\ p[n] = h[1..n]
  <2>1. 1..0 = {} /\ 0 \in 0..n /\ n \in 0..n
    BY <1>1
  <2> QED BY <1>10, <2>1
<1>12. ASSUME NEW m \in 0..(n - 1) PROVE p[m + 1] = Judge(p[m], m + 1, verdicts)
  <2> DEFINE s == 1..(m + 1)
  <2>1. s \in SUBSET (1..n) /\ s # {} /\ Max(s) = m + 1 /\ s \ {m + 1} = 1..m
    BY <1>1, LastRound
  <2>2. p[m + 1] = h[s] /\ p[m] = h[1..m]
    BY <1>1
  <2> HIDE DEF s, p
  <2>3. h[s] = Judge(h[1..m], m + 1, verdicts)
    BY <1>9, <2>1
  <2> QED BY <2>2, <2>3
<1> HIDE DEF p
<1>13. ASSUME NEW m \in 0..(n - 1), p[m] \in A PROVE p[m + 1] \in A
  <2>1. m + 1 \in DOMAIN verdicts
    BY <1>1
  <2>2. Judge(p[m], m + 1, verdicts) \in A
    BY <1>13, <2>1
  <2> QED BY <1>12, <2>2
<1>14. \A m \in 0..n : p[m] \in A
  BY <1>1, <1>11, <1>13, Climb
<1> QED BY <1>3, <1>11, <1>12, <1>14 DEF n

(* Fractions with whole parts. *)
Fraction == Int \X Int

LEMMA PlusIs ==
    ASSUME NEW a \in Fraction, NEW s \in Fraction, NEW t \in Fraction
    PROVE  /\ Plus(a, s) \in Fraction
           /\ Plus(Plus(a, s), t) = Plus(Plus(a, t), s)
<1>1. Plus(a, s) \in Fraction /\ Plus(a, t) \in Fraction
  BY DEF Plus, Fraction
<1>2. PICK a1 \in Int, a2 \in Int : a = <<a1, a2>>
  BY DEF Fraction
<1>3. PICK s1 \in Int, s2 \in Int : s = <<s1, s2>>
  BY DEF Fraction
<1>4. PICK t1 \in Int, t2 \in Int : t = <<t1, t2>>
  BY DEF Fraction
<1>5. Plus(Plus(a, s), t) = <<(a1 * s2 + s1 * a2) * t2 + t1 * (a2 * s2), (a2 * s2) * t2>>
  BY <1>2, <1>3, <1>4 DEF Plus
<1>6. Plus(Plus(a, t), s) = <<(a1 * t2 + t1 * a2) * s2 + s1 * (a2 * t2), (a2 * t2) * s2>>
  BY <1>2, <1>3, <1>4 DEF Plus
<1>7. (a1 * s2 + s1 * a2) * t2 + t1 * (a2 * s2) = (a1 * t2 + t1 * a2) * s2 + s1 * (a2 * t2)
  <2>1. (a1 * s2 + s1 * a2) * t2 = (a1 * s2) * t2 + (s1 * a2) * t2
    OBVIOUS
  <2>2. (a1 * t2 + t1 * a2) * s2 = (a1 * t2) * s2 + (t1 * a2) * s2
    OBVIOUS
  <2>3. (a1 * s2) * t2 = (a1 * t2) * s2
    OBVIOUS
  <2>4. (s1 * a2) * t2 = s1 * (a2 * t2)
    OBVIOUS
  <2>5. t1 * (a2 * s2) = (t1 * a2) * s2
    OBVIOUS
  <2> DEFINE u == (a1 * s2) * t2
             v == (s1 * a2) * t2
             w == t1 * (a2 * s2)
  <2>6. u \in Int /\ v \in Int /\ w \in Int
    OBVIOUS
  <2> HIDE DEF u, v, w
  <2>7. (u + v) + w = (u + w) + v
    BY <2>6
  <2> QED BY <2>1, <2>2, <2>3, <2>4, <2>5, <2>7 DEF u, v, w
<1>8. (a2 * s2) * t2 = (a2 * t2) * s2
  OBVIOUS
<1> QED BY <1>1, <1>5, <1>6, <1>7, <1>8

(* What each round of a fold keeps holds of the whole. *)
LEMMA FoldKeeps ==
    ASSUME NEW S, IsFiniteSet(S), NEW A, NEW ch, Chooses(ch, S), NEW f, f[{}] \in A,
           \A s \in SUBSET S : s # {} /\ f[s \ {ch[s]}] \in A => f[s] \in A
    PROVE  \A s \in SUBSET S : f[s] \in A
<1> DEFINE T == {n \in Nat : \A s \in SUBSET S : Cardinality(s) = n => f[s] \in A}
<1>1. \A s \in SUBSET S : IsFiniteSet(s) /\ Cardinality(s) \in Nat
  BY FS_Subset, FS_CardinalityType
<1>2. 0 \in T
  <2>1. \A s \in SUBSET S : Cardinality(s) = 0 => s = {}
    BY <1>1, FS_EmptySet
  <2> QED BY <2>1
<1>3. ASSUME NEW n \in Nat, n \in T PROVE n + 1 \in T
  <2> SUFFICES ASSUME NEW s \in SUBSET S, Cardinality(s) = n + 1 PROVE f[s] \in A
    OBVIOUS
  <2>1. s # {}
    <3>1. Cardinality({}) = 0
      BY FS_EmptySet
    <3>2. Cardinality(s) # 0
      OBVIOUS
    <3> QED BY <3>1, <3>2, Zenon
  <2>2. ch[s] \in s
    BY <2>1 DEF Chooses
  <2>3. s \ {ch[s]} \in SUBSET S /\ Cardinality(s \ {ch[s]}) = n
    <3>1. Cardinality(s \ {ch[s]}) = Cardinality(s) - 1
      BY <1>1, <2>2, FS_RemoveElement
    <3> QED BY <3>1
  <2>4. f[s \ {ch[s]}] \in A
    BY <1>3, <2>3
  <2> QED BY <2>1, <2>4
<1> HIDE DEF T
<1>4. Nat \subseteq T
  BY <1>2, <1>3, AllNat
<1> QED BY <1>1, <1>4 DEF T

(* The order in which a fold takes its elements does not matter when it does
   not for any two: each of them could have been the last one. *)
Commutes(st, A, S) == \A a \in A : \A x, y \in S : st[st[a][x]][y] = st[st[a][y]][x]
Within(f, S, A) == \A s \in SUBSET S : f[s] \in A
AnyLast(f, S, st) == \A s \in SUBSET S : \A x \in s : f[s] = st[f[s \ {x}]][x]

LEMMA FoldAny ==
    ASSUME NEW S, IsFiniteSet(S), NEW A, NEW b, NEW st, NEW ch, Chooses(ch, S), Commutes(st, A, S),
           NEW f, Within(f, S, A), FoldOf(f, S, b, st, ch)
    PROVE  AnyLast(f, S, st)
<1> DEFINE Holds(s) == \A x \in s : f[s] = st[f[s \ {x}]][x]
           T == {n \in Nat : \A s \in SUBSET S : Cardinality(s) = n => Holds(s)}
<1>1. \A s \in SUBSET S : IsFiniteSet(s) /\ Cardinality(s) \in Nat
  BY FS_Subset, FS_CardinalityType
<1>2. \A s \in SUBSET S : \A x \in s : Cardinality(s \ {x}) = Cardinality(s) - 1
  BY <1>1, FS_RemoveElement
<1>3. \A s \in SUBSET S : s # {} => ch[s] \in s /\ f[s] = st[f[s \ {ch[s]}]][ch[s]]
  BY DEF Chooses, FoldOf
<1>4. 0 \in T
  <2>1. \A s \in SUBSET S : Cardinality(s) = 0 => s = {}
    BY <1>1, FS_EmptySet
  <2> QED BY <2>1
<1>5. ASSUME NEW n \in Nat, n \in T PROVE n + 1 \in T
  <2> SUFFICES ASSUME NEW s \in SUBSET S, Cardinality(s) = n + 1, NEW x \in s
               PROVE  f[s] = st[f[s \ {x}]][x]
    OBVIOUS
  <2> DEFINE y == ch[s]
             u == f[(s \ {x}) \ {y}]
  <2>1. y \in s /\ f[s] = st[f[s \ {y}]][y]
    BY <1>3
  <2>2. CASE x = y
    BY <2>1, <2>2
  <2>3. CASE x # y
    <3>1. /\ s \ {x} \in SUBSET S /\ Cardinality(s \ {x}) = n /\ y \in s \ {x}
          /\ s \ {y} \in SUBSET S /\ Cardinality(s \ {y}) = n /\ x \in s \ {y}
      BY <1>2, <2>1, <2>3
    <3>2. Holds(s \ {x}) /\ Holds(s \ {y})
      BY <1>5, <3>1
    <3>3. (s \ {y}) \ {x} = (s \ {x}) \ {y}
      OBVIOUS
    <3>4. f[s \ {x}] = st[u][y] /\ f[s \ {y}] = st[u][x]
      BY <3>1, <3>2, <3>3
    <3>5. u \in A /\ x \in S /\ y \in S
      BY <2>1 DEF Within
    <3> HIDE DEF u, y
    <3>6. st[st[u][y]][x] = st[st[u][x]][y]
      BY <3>5 DEF Commutes
    <3> QED BY <2>1, <3>4, <3>6
  <2> QED BY <2>2, <2>3
<1> HIDE DEF T
<1>6. Nat \subseteq T
  BY <1>4, <1>5, AllNat
<1> QED BY <1>1, <1>6 DEF T, AnyLast

(* The sum of the shares up to a rank, one relevant rank after the other. *)
LEMMA SharesSum ==
    ASSUME NEW n \in Nat, NEW yes \in SUBSET (1..n)
    PROVE  \E f : /\ f[{}] = <<0, 1>> /\ f[yes] = SumOfShares(yes)
                  /\ \A s \in SUBSET yes : f[s] \in Fraction
                  /\ \A s \in SUBSET yes : \A k \in s : f[s] = Plus(f[s \ {k}], ShareUpTo(yes, k))
<1> DEFINE st == [a \in Fraction |-> [k \in yes |-> Plus(a, ShareUpTo(yes, k))]]
           ch == [s \in SUBSET yes |-> CHOOSE k \in s : TRUE]
           base == <<0, 1>>
           Solves(f) == f = [s \in SUBSET yes |->
                               IF s = {} THEN <<0, 1>>
                               ELSE Plus(f[s \ {CHOOSE k \in s : TRUE}], ShareUpTo(yes, CHOOSE k \in s : TRUE))]
           h == CHOOSE f : Solves(f)
<1>1. IsFiniteSet(yes)
  BY Upto, FS_Subset
<1>2. \A k \in yes : ShareUpTo(yes, k) \in Fraction
  <2> SUFFICES ASSUME NEW k \in yes PROVE ShareUpTo(yes, k) \in Fraction
    OBVIOUS
  <2>1. yes \cap 1..k \in SUBSET yes
    OBVIOUS
  <2>2. IsFiniteSet(yes \cap 1..k)
    BY <1>1, <2>1, FS_Subset
  <2>3. Cardinality(yes \cap 1..k) \in Nat
    BY <2>2, FS_CardinalityType
  <2> QED BY <2>3 DEF ShareUpTo, Fraction
<1>3. st \in [Fraction -> [yes -> Fraction]] /\ base \in Fraction
  <2>1. \A a \in Fraction, k \in yes : Plus(a, ShareUpTo(yes, k)) \in Fraction
    BY <1>2, PlusIs
  <2>2. base \in Fraction
    BY DEF Fraction
  <2> QED BY <2>1, <2>2
<1>4. SumOfShares(yes) = h[yes]
  BY DEF SumOfShares, FoldSet, MapThenFoldSet
<1>5. \A s \in SUBSET yes : s # {} =>
         (CHOOSE k \in s : TRUE) \in s /\ s \ {CHOOSE k \in s : TRUE} \in SUBSET yes
  OBVIOUS
<1>6. Chooses(ch, yes)
  BY <1>5 DEF Chooses
<1>7. Commutes(st, Fraction, yes)
  <2> SUFFICES ASSUME NEW a \in Fraction, NEW x \in yes, NEW y \in yes
               PROVE  st[st[a][x]][y] = st[st[a][y]][x]
    BY DEF Commutes
  <2> DEFINE t == ShareUpTo(yes, x)
             u == ShareUpTo(yes, y)
  <2>1. t \in Fraction /\ u \in Fraction
    BY <1>2
  <2>2. /\ Plus(a, t) \in Fraction /\ Plus(a, u) \in Fraction
        /\ Plus(Plus(a, t), u) = Plus(Plus(a, u), t)
    BY <2>1, PlusIs
  <2> QED BY <2>2
<1> HIDE DEF base
<1>8. PICK f \in [SUBSET yes -> Fraction] : FoldOf(f, yes, base, st, ch)
  <2> HIDE DEF st, ch
  <2> QED BY <1>1, <1>3, <1>6, FoldExists, Zenon
<1>9. Solves(f)
  <2>1. \A s \in SUBSET yes : ch[s] = CHOOSE k \in s : TRUE
    OBVIOUS
  <2>2. f[{}] = <<0, 1>>
    BY <1>8 DEF FoldOf, base
  <2>3. ASSUME NEW s \in SUBSET yes, s # {}
        PROVE  f[s] = Plus(f[s \ {CHOOSE k \in s : TRUE}], ShareUpTo(yes, CHOOSE k \in s : TRUE))
    <3>1. f[s] = st[f[s \ {ch[s]}]][ch[s]]
      BY <1>8, <2>3 DEF FoldOf
    <3>2. ch[s] \in yes /\ f[s \ {ch[s]}] \in Fraction
      BY <1>5, <1>8, <2>1, <2>3
    <3>3. f[s] = Plus(f[s \ {ch[s]}], ShareUpTo(yes, ch[s]))
      BY <3>1, <3>2
    <3> QED BY <2>1, <3>3
  <2>4. \A s \in SUBSET yes :
          f[s] = IF s = {} THEN <<0, 1>>
                 ELSE Plus(f[s \ {CHOOSE k \in s : TRUE}], ShareUpTo(yes, CHOOSE k \in s : TRUE))
    BY <2>2, <2>3
  <2> QED BY <1>8, <2>4
<1>10. Solves(h)
  BY <1>9
<1> HIDE DEF h
<1>11. \A s \in SUBSET yes :
          h[s] = IF s = {} THEN <<0, 1>>
                 ELSE Plus(h[s \ {CHOOSE k \in s : TRUE}], ShareUpTo(yes, CHOOSE k \in s : TRUE))
  BY <1>10
<1> HIDE DEF Solves
<1>12. h[{}] = <<0, 1>> /\ <<0, 1>> \in Fraction
  BY <1>3, <1>11 DEF base
<1>13. \A s \in SUBSET yes : s # {} => h[s] = Plus(h[s \ {ch[s]}], ShareUpTo(yes, ch[s])) /\ ch[s] \in yes
  BY <1>5, <1>11
<1>14. \A s \in SUBSET yes : s # {} /\ h[s \ {ch[s]}] \in Fraction => h[s] \in Fraction
  <2> SUFFICES ASSUME NEW s \in SUBSET yes, s # {}, h[s \ {ch[s]}] \in Fraction
               PROVE  h[s] \in Fraction
    OBVIOUS
  <2>1. h[s] = Plus(h[s \ {ch[s]}], ShareUpTo(yes, ch[s])) /\ ch[s] \in yes
    BY <1>13
  <2>2. ShareUpTo(yes, ch[s]) \in Fraction
    BY <1>2, <2>1
  <2> HIDE DEF ch
  <2> QED BY <2>1, <2>2, PlusIs
<1>15. \A s \in SUBSET yes : h[s] \in Fraction
  <2> HIDE DEF ch
  <2>1. h[{}] \in Fraction
    BY <1>12
  <2> QED BY <1>1, <1>6, <1>14, <2>1, FoldKeeps, Zenon
<1>16. FoldOf(h, yes, base, st, ch)
  <2>1. ASSUME NEW s \in SUBSET yes, s # {} PROVE h[s] = st[h[s \ {ch[s]}]][ch[s]]
    <3>1. h[s \ {ch[s]}] \in Fraction /\ ch[s] \in yes
      BY <1>5, <1>15, <2>1
    <3> HIDE DEF ch
    <3> QED BY <1>13, <2>1, <3>1
  <2> HIDE DEF st, ch
  <2> QED BY <1>12, <2>1 DEF FoldOf, base
<1>17. \A s \in SUBSET yes : \A x \in s : h[s] = st[h[s \ {x}]][x]
  <2> HIDE DEF st, ch
  <2>1. Within(h, yes, Fraction)
    BY <1>15 DEF Within
  <2>2. AnyLast(h, yes, st)
    BY <1>1, <1>6, <1>7, <1>16, <2>1, FoldAny, Zenon
  <2> QED BY <2>2 DEF AnyLast
<1>18. ASSUME NEW s \in SUBSET yes, NEW k \in s
       PROVE  h[s] = Plus(h[s \ {k}], ShareUpTo(yes, k))
  <2>1. h[s \ {k}] \in Fraction /\ k \in yes
    BY <1>15
  <2> QED BY <1>17, <2>1
<1> QED BY <1>4, <1>12, <1>15, <1>18

(* After k ranks the loop has seen the relevant ones among them, and its sum is
   that of their shares. *)
LEMMA JudgedAre ==
    ASSUME NEW verdicts, IsList(verdicts)
    PROVE  /\ AllJudged(verdicts).seen = Cardinality(Yes(verdicts))
           /\ AllJudged(verdicts).sum = SumOfShares(Yes(verdicts))
           /\ Cardinality(Yes(verdicts)) \in Nat
           /\ Yes(verdicts) = {} <=> Cardinality(Yes(verdicts)) = 0
<1> DEFINE n == Len(verdicts)
           yes == Yes(verdicts)
           A == [seen : Nat, sum : Fraction]
           first == [seen |-> 0, sum |-> <<0, 1>>]
<1>1. n \in Nat /\ DOMAIN verdicts = 1..n
  BY DEF IsList
<1>2. yes \in SUBSET (1..n)
  BY <1>1 DEF Yes
<1>3. IsFiniteSet(yes) /\ \A s \in SUBSET yes : IsFiniteSet(s) /\ Cardinality(s) \in Nat
  <2> HIDE DEF yes
  <2> QED BY <1>1, <1>2, Upto, FS_Subset, FS_CardinalityType
<1>4. first \in A
  BY DEF Fraction
<1>5. ASSUME NEW a \in A, NEW k \in DOMAIN verdicts PROVE Judge(a, k, verdicts) \in A
  <2>1. a.seen + 1 \in Nat /\ a.sum \in Fraction /\ PrecisionAt(a.seen + 1, k) \in Fraction
    BY <1>1 DEF PrecisionAt, Fraction
  <2>2. Plus(a.sum, PrecisionAt(a.seen + 1, k)) \in Fraction
    BY <2>1, PlusIs
  <2> QED BY <2>1, <2>2 DEF Judge
<1> HIDE DEF A
<1>6. PICK p : /\ p[0] = first /\ p[n] = AllJudged(verdicts)
               /\ \A m \in 0..(n - 1) : p[m + 1] = Judge(p[m], m + 1, verdicts)
               /\ \A m \in 0..n : p[m] \in A
  BY <1>4, <1>5, JudgeSteps
<1> HIDE DEF n, yes
<1>7. PICK f : /\ f[{}] = <<0, 1>> /\ f[yes] = SumOfShares(yes)
               /\ \A s \in SUBSET yes : f[s] \in Fraction
               /\ \A s \in SUBSET yes : \A k \in s : f[s] = Plus(f[s \ {k}], ShareUpTo(yes, k))
  BY <1>1, <1>2, SharesSum
<1> DEFINE T == {m \in Nat : m <= n => /\ p[m].seen = Cardinality(yes \cap 1..m)
                                       /\ p[m].sum = f[yes \cap 1..m]}
<1>8. 0 \in T
  <2>1. yes \cap 1..0 = {}
    OBVIOUS
  <2>2. Cardinality({}) = 0
    BY FS_EmptySet
  <2> QED BY <1>6, <1>7, <2>1, <2>2
<1>9. ASSUME NEW m \in Nat, m \in T PROVE m + 1 \in T
  <2> SUFFICES ASSUME m + 1 <= n
               PROVE  /\ p[m + 1].seen = Cardinality(yes \cap 1..(m + 1))
                      /\ p[m + 1].sum = f[yes \cap 1..(m + 1)]
    OBVIOUS
  <2> DEFINE k == m + 1
             old == yes \cap 1..m
             new == yes \cap 1..k
  <2>1. m \in 0..(n - 1) /\ k \in 1..n /\ m <= n
    BY <1>1
  <2>2. p[k] = Judge(p[m], k, verdicts)
    BY <1>6, <2>1
  <2>3. p[m].seen = Cardinality(old) /\ p[m].sum = f[old]
    BY <1>9, <2>1
  <2>4. k \notin old /\ new \in SUBSET yes /\ old \in SUBSET yes
    OBVIOUS
  <2>5. verdicts[k] = "yes" <=> k \in yes
    BY <1>1, <2>1 DEF yes, Yes
  <2> HIDE DEF T
  <2>6. CASE k \in yes
    <3>1. new = old \union {k} /\ new \ {k} = old /\ k \in new
      BY <2>6
    <3>2. Cardinality(new) = Cardinality(old) + 1
      BY <1>3, <2>4, <3>1, FS_AddElement
    <3>3. f[new] = Plus(f[old], ShareUpTo(yes, k))
      BY <1>7, <2>4, <3>1
    <3>4. ShareUpTo(yes, k) = PrecisionAt(Cardinality(old) + 1, k)
      BY <3>2 DEF ShareUpTo, PrecisionAt
    <3>5. p[k] = [seen |-> p[m].seen + 1, sum |-> Plus(p[m].sum, PrecisionAt(p[m].seen + 1, k))]
      BY <2>2, <2>5, <2>6 DEF Judge
    <3> QED BY <2>3, <3>2, <3>3, <3>4, <3>5
  <2>7. CASE k \notin yes
    <3>1. new = old
      BY <2>7
    <3>2. p[k] = p[m]
      BY <2>2, <2>5, <2>7 DEF Judge
    <3> QED BY <2>3, <3>1, <3>2
  <2> QED BY <2>6, <2>7
<1> HIDE DEF T
<1>10. n \in T
  BY <1>1, <1>8, <1>9, AllNat
<1>11. yes \cap 1..n = yes
  BY <1>2
<1>12. p[n].seen = Cardinality(yes) /\ p[n].sum = SumOfShares(yes)
  <2>1. p[n].seen = Cardinality(yes \cap 1..n) /\ p[n].sum = f[yes \cap 1..n]
    BY <1>1, <1>10 DEF T
  <2> QED BY <1>7, <1>11, <2>1
<1>13. yes = {} <=> Cardinality(yes) = 0
  BY <1>3, FS_EmptySet
<1> QED BY <1>3, <1>6, <1>12, <1>13 DEF yes

(* context_precision is the mean average precision its heading promises,
   however many passages were judged and whatever the verdicts. *)
THEOREM PrecisionIsAverageHolds == Spec => []PrecisionIsAverage
<1>1. ASSUME Computed, Ended("evaluate"), output.code = 200,
             "context_precision" \in DOMAIN output.scores
      PROVE  PrecisionIsAverage
  <2> DEFINE verdicts == input.trial.relevance
             yes == Yes(verdicts)
             end == AllJudged(verdicts)
             chosen == ResolveMetrics(input.asked, input.expected)
  <2>1. output = Evaluate(input.asked, input.expected, input.trial) /\ IsList(verdicts)
    BY <1>1, QuestionsAssumption DEF Computed, Ended
  <2>2. output = [code |-> 200, scores |-> [name \in chosen |-> ScoreOf(name, input.expected, input.trial)]]
    BY <1>1, <2>1 DEF Evaluate
  <2>3. output.scores["context_precision"] = ContextPrecision(verdicts)
    <3>1. output.scores["context_precision"]
             = ScoreOf("context_precision", input.expected, input.trial)
      BY <1>1, <2>2
    <3> QED BY <3>1 DEF ScoreOf
  <2>4. /\ end.seen = Cardinality(yes) /\ end.sum = SumOfShares(yes)
        /\ yes = {} <=> Cardinality(yes) = 0
    BY <2>1, JudgedAre
  <2>5. verdicts = <<>> => yes = {}
    BY DEF Yes
  <2>6. CASE yes = {}
    <3>1. ContextPrecision(verdicts) \in {None, <<0, 1>>}
      BY <2>4, <2>6 DEF ContextPrecision
    <3> QED BY <2>3, <2>6, <3>1 DEF PrecisionIsAverage
  <2>7. CASE yes # {}
    <3>1. ContextPrecision(verdicts) = <<end.sum[1], end.sum[2] * end.seen>>
      BY <2>4, <2>5, <2>7 DEF ContextPrecision
    <3> DEFINE sum == SumOfShares(yes)
               score == <<sum[1], sum[2] * Cardinality(yes)>>
    <3>2. output.scores["context_precision"] = score
      BY <2>3, <2>4, <3>1
    <3>3. SameScore(score, score)
      BY DEF SameScore
    <3> QED BY <2>7, <3>2, <3>3 DEF PrecisionIsAverage
  <2> QED BY <2>6, <2>7
<1>2. Computed => PrecisionIsAverage
  BY <1>1 DEF PrecisionIsAverage
<1> QED BY <1>2, ComputedHolds, PTL

-----------------------------------------------------------------------------
(***************************************************************************)
(* Cutting: what a list of pieces tells of a text.                         *)
(***************************************************************************)
Text == Seq(Int)

(* The letters of a text are what cutting must keep; one is before another
   when it has a place before one of the other's. *)
IsLetter(x) == x > 0 /\ \A sep \in ToSet(Separators) : x \notin ToSet(sep)
Letters(text) == {text[i] : i \in Solid(text)}
Before(text, x, y) == \E i, j \in Solid(text) : i < j /\ text[i] = x /\ text[j] = y

LEMMA LettersAre ==
    ASSUME NEW text \in Text
    PROVE  \A x : x \in Letters(text) <=> x \in ToSet(text) /\ IsLetter(x)
BY DEF Letters, Solid, ToSet, IsLetter, Text

LEMMA BeforeAre ==
    ASSUME NEW text, NEW x, NEW y, Before(text, x, y)
    PROVE  x \in Letters(text) /\ y \in Letters(text)
BY DEF Before, Letters

LEMMA Concat ==
    ASSUME NEW a \in Text, NEW b \in Text
    PROVE  /\ a \o b \in Text
           /\ Letters(a \o b) = Letters(a) \union Letters(b)
           /\ \A x, y : Before(a \o b, x, y) <=>
                \/ Before(a, x, y) \/ Before(b, x, y)
                \/ x \in Letters(a) /\ y \in Letters(b)
<1> DEFINE c == a \o b
           n == Len(a)
<1>1. /\ c \in Text /\ n \in Nat /\ Len(b) \in Nat /\ Len(c) = n + Len(b)
      /\ \A i \in 1..n : c[i] = a[i]
      /\ \A i \in (n + 1)..(n + Len(b)) : c[i] = b[i - n]
  BY ConcatProperties DEF Text
<1>2. DOMAIN a = 1..n /\ DOMAIN b = 1..Len(b) /\ DOMAIN c = 1..(n + Len(b))
  BY <1>1 DEF Text
<1> HIDE DEF c, n
<1>3. \A j \in 1..Len(b) : n + j \in (n + 1)..(n + Len(b)) /\ (n + j) - n = j
  BY <1>1
<1>4. \A j \in 1..Len(b) : c[n + j] = b[j]
  BY <1>1, <1>3
<1>5. \A i \in 1..n : i \in Solid(c) <=> i \in Solid(a)
  BY <1>1, <1>2 DEF Solid
<1>6. \A j \in 1..Len(b) : n + j \in Solid(c) <=> j \in Solid(b)
  BY <1>1, <1>2, <1>3, <1>4 DEF Solid
<1>7. \A i \in Solid(c) : i \in 1..n \/ \E j \in 1..Len(b) : i = n + j
  <2> SUFFICES ASSUME NEW i \in Solid(c), i \notin 1..n PROVE \E j \in 1..Len(b) : i = n + j
    OBVIOUS
  <2>1. i \in 1..(n + Len(b))
    BY <1>2 DEF Solid
  <2>2. i - n \in 1..Len(b) /\ i = n + (i - n)
    BY <1>1, <2>1
  <2> QED BY <2>2
<1>8. Solid(a) \subseteq 1..n /\ Solid(b) \subseteq 1..Len(b)
  BY <1>2 DEF Solid
<1>9. Letters(c) = Letters(a) \union Letters(b)
  <2>1. ASSUME NEW x \in Letters(c) PROVE x \in Letters(a) \union Letters(b)
    <3>1. PICK i \in Solid(c) : c[i] = x
      BY DEF Letters
    <3> QED BY <1>1, <1>4, <1>5, <1>6, <1>7, <3>1 DEF Letters
  <2>2. ASSUME NEW x \in Letters(a) PROVE x \in Letters(c)
    BY <1>1, <1>5, <1>8 DEF Letters
  <2>3. ASSUME NEW x \in Letters(b) PROVE x \in Letters(c)
    <3>1. PICK j \in Solid(b) : b[j] = x
      BY DEF Letters
    <3>2. n + j \in Solid(c) /\ c[n + j] = x
      BY <1>4, <1>6, <1>8, <3>1
    <3> QED BY <3>2 DEF Letters
  <2> QED BY <2>1, <2>2, <2>3
<1>10. ASSUME NEW x, NEW y, Before(c, x, y)
       PROVE  Before(a, x, y) \/ Before(b, x, y) \/ (x \in Letters(a) /\ y \in Letters(b))
  <2>1. PICK i \in Solid(c), j \in Solid(c) : i < j /\ c[i] = x /\ c[j] = y
    BY <1>10 DEF Before
  <2>2. CASE i \in 1..n /\ j \in 1..n
    BY <1>1, <1>5, <2>1, <2>2 DEF Before
  <2>3. CASE i \in 1..n /\ j \notin 1..n
    <3>1. PICK l \in 1..Len(b) : j = n + l
      BY <1>7, <2>3
    <3>2. a[i] = x /\ i \in Solid(a) /\ b[l] = y /\ l \in Solid(b)
      BY <1>1, <1>4, <1>5, <1>6, <2>1, <2>3, <3>1
    <3> QED BY <3>2 DEF Letters
  <2>4. CASE i \notin 1..n
    <3>1. PICK k \in 1..Len(b) : i = n + k
      BY <1>7, <2>4
    <3>2. j \notin 1..n
      BY <1>1, <2>1, <3>1
    <3>3. PICK l \in 1..Len(b) : j = n + l
      BY <1>7, <3>2
    <3>4. k < l
      BY <1>1, <2>1, <3>1, <3>3
    <3>5. b[k] = x /\ k \in Solid(b) /\ b[l] = y /\ l \in Solid(b)
      BY <1>4, <1>6, <2>1, <3>1, <3>3
    <3> QED BY <3>4, <3>5 DEF Before
  <2> QED BY <2>2, <2>3, <2>4
<1>11. ASSUME NEW x, NEW y, Before(a, x, y) PROVE Before(c, x, y)
  <2>1. PICK i \in Solid(a), j \in Solid(a) : i < j /\ a[i] = x /\ a[j] = y
    BY <1>11 DEF Before
  <2>2. i \in Solid(c) /\ j \in Solid(c) /\ c[i] = x /\ c[j] = y
    BY <1>1, <1>5, <1>8, <2>1
  <2> QED BY <2>1, <2>2 DEF Before
<1>12. ASSUME NEW x, NEW y, Before(b, x, y) PROVE Before(c, x, y)
  <2>1. PICK i \in Solid(b), j \in Solid(b) : i < j /\ b[i] = x /\ b[j] = y
    BY <1>12 DEF Before
  <2>2. /\ n + i \in Solid(c) /\ n + j \in Solid(c) /\ c[n + i] = x /\ c[n + j] = y
        /\ n + i < n + j
    BY <1>1, <1>4, <1>6, <1>8, <2>1
  <2> QED BY <2>2 DEF Before
<1>13. ASSUME NEW x \in Letters(a), NEW y \in Letters(b) PROVE Before(c, x, y)
  <2>1. PICK i \in Solid(a) : a[i] = x
    BY DEF Letters
  <2>2. PICK j \in Solid(b) : b[j] = y
    BY DEF Letters
  <2>3. /\ i \in Solid(c) /\ n + j \in Solid(c) /\ c[i] = x /\ c[n + j] = y
        /\ i < n + j
    BY <1>1, <1>4, <1>5, <1>6, <1>8, <2>1, <2>2
  <2> QED BY <2>3 DEF Before
<1>14. \A x, y : Before(c, x, y) <=>
                \/ Before(a, x, y) \/ Before(b, x, y)
                \/ x \in Letters(a) /\ y \in Letters(b)
  BY <1>10, <1>11, <1>12, <1>13
<1> QED BY <1>1, <1>9, <1>14 DEF c

(* A join: two texts with one in between that has no letter. *)
LEMMA Joint ==
    ASSUME NEW a \in Text, NEW s \in Text, NEW b \in Text, Letters(s) = {}
    PROVE  /\ a \o s \o b \in Text
           /\ Letters(a \o s \o b) = Letters(a) \union Letters(b)
           /\ \A x, y : Before(a \o s \o b, x, y) <=>
                \/ Before(a, x, y) \/ Before(b, x, y)
                \/ x \in Letters(a) /\ y \in Letters(b)
<1> DEFINE c == a \o s
<1>1. /\ c \in Text /\ Letters(c) = Letters(a)
      /\ \A x, y : Before(c, x, y) <=> Before(a, x, y)
  <2>1. \A x, y : ~Before(s, x, y)
    BY BeforeAre
  <2> QED BY <2>1, Concat
<1> HIDE DEF c
<1>2. /\ c \o b \in Text /\ Letters(c \o b) = Letters(c) \union Letters(b)
      /\ \A x, y : Before(c \o b, x, y) <=>
                \/ Before(c, x, y) \/ Before(b, x, y)
                \/ x \in Letters(c) /\ y \in Letters(b)
  BY <1>1, Concat
<1>3. /\ c \o b \in Text /\ Letters(c \o b) = Letters(a) \union Letters(b)
      /\ \A x, y : Before(c \o b, x, y) <=>
                \/ Before(a, x, y) \/ Before(b, x, y)
                \/ x \in Letters(a) /\ y \in Letters(b)
  BY <1>1, <1>2
<1> QED BY <1>3 DEF c

(* Pieces tell a text when they have its letters, and in the order of the text
   if its letters can be told apart. *)
Apart(text) == \A x : ~Before(text, x, x)
Ordered(text, ps) ==
    \A x, y : Before(text, x, y) =>
        \A k \in DOMAIN ps : y \in Letters(ps[k]) => \E h \in 1..k : x \in Letters(ps[h])
Tells(text, ps) ==
    /\ \A x : x \in Letters(text) <=> \E k \in DOMAIN ps : x \in Letters(ps[k])
    /\ Apart(text) => Ordered(text, ps)

(* The pieces of a text that was joined are those of one part and then those
   of the other ... *)
LEMMA Compose ==
    ASSUME NEW a \in Text, NEW s \in Text, NEW b \in Text, Letters(s) = {},
           NEW ps \in Seq(Text), NEW qs \in Seq(Text), Tells(a, ps), Tells(b, qs)
    PROVE  Tells(a \o s \o b, ps \o qs)
<1> DEFINE c == a \o s \o b
           rs == ps \o qs
           n == Len(ps)
<1>1. /\ \A x : x \in Letters(c) <=> x \in Letters(a) \/ x \in Letters(b)
      /\ \A x, y : Before(c, x, y) <=>
            \/ Before(a, x, y) \/ Before(b, x, y)
            \/ x \in Letters(a) /\ y \in Letters(b)
  BY Joint
<1>2. /\ n \in Nat /\ Len(qs) \in Nat /\ DOMAIN ps = 1..n /\ DOMAIN qs = 1..Len(qs)
      /\ DOMAIN rs = 1..(n + Len(qs))
      /\ \A k \in 1..n : rs[k] = ps[k]
      /\ \A k \in (n + 1)..(n + Len(qs)) : rs[k] = qs[k - n]
  BY ConcatProperties
<1> HIDE DEF c, rs, n
<1>3. /\ \A x : x \in Letters(a) <=> \E k \in 1..n : x \in Letters(ps[k])
      /\ \A x : x \in Letters(b) <=> \E k \in 1..Len(qs) : x \in Letters(qs[k])
  BY <1>2 DEF Tells
<1>4. \A j \in 1..Len(qs) : n + j \in (n + 1)..(n + Len(qs)) /\ (n + j) - n = j
                            /\ n + j \in 1..(n + Len(qs))
  BY <1>2
<1>5. \A j \in 1..Len(qs) : rs[n + j] = qs[j]
  BY <1>2, <1>4
<1>6. \A k \in 1..(n + Len(qs)) : k \in 1..n \/ \E j \in 1..Len(qs) : k = n + j
  <2> SUFFICES ASSUME NEW k \in 1..(n + Len(qs)), k \notin 1..n
               PROVE  \E j \in 1..Len(qs) : k = n + j
    OBVIOUS
  <2>1. k - n \in 1..Len(qs) /\ k = n + (k - n)
    BY <1>2
  <2> QED BY <2>1
<1>7. ASSUME NEW x PROVE x \in Letters(c) <=> \E k \in DOMAIN rs : x \in Letters(rs[k])
  <2>1. ASSUME x \in Letters(a) PROVE \E k \in DOMAIN rs : x \in Letters(rs[k])
    <3>1. PICK k \in 1..n : x \in Letters(ps[k])
      BY <1>3, <2>1
    <3>2. k \in DOMAIN rs /\ rs[k] = ps[k]
      BY <1>2
    <3> QED BY <3>1, <3>2
  <2>2. ASSUME x \in Letters(b) PROVE \E k \in DOMAIN rs : x \in Letters(rs[k])
    <3>1. PICK k \in 1..Len(qs) : x \in Letters(qs[k])
      BY <1>3, <2>2
    <3>2. n + k \in DOMAIN rs /\ rs[n + k] = qs[k]
      BY <1>2, <1>4, <1>5
    <3> QED BY <3>1, <3>2
  <2>3. ASSUME NEW k \in DOMAIN rs, x \in Letters(rs[k]) PROVE x \in Letters(a) \/ x \in Letters(b)
    BY <1>2, <1>3, <1>5, <1>6, <2>3
  <2> QED BY <1>1, <2>1, <2>2, <2>3
<1>8. ASSUME Apart(c), NEW x, NEW y, Before(c, x, y), NEW k \in DOMAIN rs, y \in Letters(rs[k])
      PROVE  \E h \in 1..k : x \in Letters(rs[h])
  <2>1. Apart(a) /\ Apart(b) /\ \A z : ~(z \in Letters(a) /\ z \in Letters(b))
    BY <1>1, <1>8 DEF Apart
  <2>2. Ordered(a, ps) /\ Ordered(b, qs)
    BY <2>1 DEF Tells
  <2>3. CASE k \in 1..n
    <3>1. y \in Letters(a) /\ rs[k] = ps[k]
      BY <1>2, <1>3, <1>8, <2>3
    <3>2. Before(a, x, y)
      BY <1>1, <1>8, <2>1, <3>1, BeforeAre
    <3>3. PICK h \in 1..k : x \in Letters(ps[h])
      BY <1>2, <1>8, <2>2, <2>3, <3>1, <3>2 DEF Ordered
    <3>4. rs[h] = ps[h]
      BY <1>2, <2>3, <3>3
    <3> QED BY <3>3, <3>4
  <2>4. CASE k \notin 1..n
    <3>1. PICK j \in 1..Len(qs) : k = n + j
      BY <1>2, <1>6, <2>4
    <3>2. y \in Letters(b) /\ rs[k] = qs[j]
      BY <1>3, <1>5, <1>8, <3>1
    <3>3. CASE x \in Letters(a)
      <4>1. PICK h \in 1..n : x \in Letters(ps[h])
        BY <1>3, <3>3
      <4>2. h \in 1..k /\ rs[h] = ps[h]
        BY <1>2, <3>1, <4>1
      <4> QED BY <4>1, <4>2
    <3>4. CASE x \notin Letters(a)
      <4>1. Before(b, x, y)
        BY <1>1, <1>8, <3>4, BeforeAre
      <4>2. PICK h \in 1..j : x \in Letters(qs[h])
        BY <1>2, <1>8, <2>2, <3>1, <3>2, <4>1 DEF Ordered
      <4>3. h \in 1..Len(qs) /\ n + h \in 1..k
        BY <1>2, <3>1, <4>2
      <4>4. rs[n + h] = qs[h]
        BY <1>5, <4>3
      <4> QED BY <4>2, <4>3, <4>4
    <3> QED BY <3>3, <3>4
  <2> QED BY <2>3, <2>4
<1>9. Apart(c) => Ordered(c, rs)
  BY <1>8 DEF Ordered
<1>10. Tells(c, rs)
  BY <1>7, <1>9 DEF Tells
<1> QED BY <1>10 DEF c, rs

(* ... or the last piece of the one goes on with the other. *)
LEMMA Extend ==
    ASSUME NEW a \in Text, NEW s \in Text, NEW b \in Text, Letters(s) = {},
           NEW ps \in Seq(Text), NEW buf \in Text, Tells(a, Append(ps, buf))
    PROVE  Tells(a \o s \o b, Append(ps, buf \o s \o b))
<1> DEFINE c == a \o s \o b
           new == buf \o s \o b
           n == Len(ps)
           qs == Append(ps, buf)
           rs == Append(ps, new)
<1>1. /\ \A x : x \in Letters(c) <=> x \in Letters(a) \/ x \in Letters(b)
      /\ \A x, y : Before(c, x, y) <=>
            \/ Before(a, x, y) \/ Before(b, x, y)
            \/ x \in Letters(a) /\ y \in Letters(b)
  BY Joint
<1>2. new \in Text /\ \A x : x \in Letters(new) <=> x \in Letters(buf) \/ x \in Letters(b)
  BY Joint
<1> HIDE DEF c, new
<1>3. /\ n \in Nat /\ DOMAIN qs = 1..(n + 1) /\ DOMAIN rs = 1..(n + 1)
      /\ \A k \in 1..n : qs[k] = rs[k]
      /\ qs[n + 1] = buf /\ rs[n + 1] = new
  BY <1>2, AppendProperties
<1>4. Tells(a, qs)
  OBVIOUS
<1> HIDE DEF n, qs, rs
<1>5. \A x : x \in Letters(a) <=> \E k \in 1..(n + 1) : x \in Letters(qs[k])
  BY <1>3, <1>4 DEF Tells
<1>6. n + 1 \in 1..(n + 1) /\ \A k \in 1..(n + 1) : k = n + 1 \/ k \in 1..n
  BY <1>3
<1>7. \A x : x \in Letters(rs[n + 1]) <=> x \in Letters(qs[n + 1]) \/ x \in Letters(b)
  BY <1>2, <1>3
<1>8. ASSUME NEW x PROVE x \in Letters(c) <=> \E k \in DOMAIN rs : x \in Letters(rs[k])
  <2>1. ASSUME x \in Letters(a) PROVE \E k \in DOMAIN rs : x \in Letters(rs[k])
    BY <1>3, <1>5, <1>6, <1>7, <2>1
  <2>2. ASSUME x \in Letters(b) PROVE \E k \in DOMAIN rs : x \in Letters(rs[k])
    BY <1>3, <1>6, <1>7, <2>2
  <2>3. ASSUME NEW k \in DOMAIN rs, x \in Letters(rs[k]) PROVE x \in Letters(a) \/ x \in Letters(b)
    BY <1>3, <1>5, <1>6, <1>7, <2>3
  <2> QED BY <1>1, <2>1, <2>2, <2>3
<1>9. ASSUME Apart(c), NEW x, NEW y, Before(c, x, y), NEW k \in DOMAIN rs, y \in Letters(rs[k])
      PROVE  \E h \in 1..k : x \in Letters(rs[h])
  <2>1. CASE k = n + 1
    <3>1. x \in Letters(c)
      BY <1>9, BeforeAre
    <3> QED BY <1>3, <1>8, <2>1, <3>1
  <2>2. CASE k \in 1..n
    <3>1. y \in Letters(a) /\ rs[k] = qs[k]
      BY <1>3, <1>5, <1>6, <1>9, <2>2
    <3>2. Apart(a) /\ y \notin Letters(b)
      BY <1>1, <1>9, <3>1 DEF Apart
    <3>3. Before(a, x, y) /\ Ordered(a, qs)
      BY <1>1, <1>4, <1>9, <3>2, BeforeAre DEF Tells
    <3>4. PICK h \in 1..k : x \in Letters(qs[h])
      BY <1>3, <1>9, <3>1, <3>3 DEF Ordered
    <3>5. rs[h] = qs[h]
      BY <1>3, <2>2, <3>4
    <3> QED BY <3>4, <3>5
  <2> QED BY <1>3, <1>6, <2>1, <2>2
<1>10. Apart(c) => Ordered(c, rs)
  BY <1>9 DEF Ordered
<1>11. Tells(c, rs)
  BY <1>8, <1>10 DEF Tells
<1> QED BY <1>11 DEF c, new, rs

(* A text tells itself, and an empty one is told by nothing. *)
LEMMA TellsOne ==
    ASSUME NEW text \in Text
    PROVE  Tells(text, <<text>>) /\ Tells(text, Flush(<<>>, text))
<1>1. DOMAIN <<text>> = {1} /\ <<text>>[1] = text
  OBVIOUS
<1>2. Tells(text, <<text>>)
  <2>1. \A x, y : Before(text, x, y) => x \in Letters(text)
    BY BeforeAre
  <2>2. 1 \in 1..1
    OBVIOUS
  <2> QED BY <1>1, <2>1, <2>2 DEF Tells, Ordered
<1>3. CASE text = <<>>
  <2>1. DOMAIN text = {}
    BY <1>3
  <2>2. Letters(text) = {} /\ \A x, y : ~Before(text, x, y)
    BY <2>1 DEF Letters, Before, Solid
  <2>3. Flush(<<>>, text) = <<>> /\ DOMAIN <<>> = {}
    BY <1>3 DEF Flush
  <2> QED BY <1>2, <2>2, <2>3 DEF Tells, Ordered
<1>4. CASE text # <<>>
  <2>1. Flush(<<>>, text) = <<text>>
    BY <1>4 DEF Flush
  <2> QED BY <1>2, <2>1
<1> QED BY <1>3, <1>4

(* The loop of str.split, character by character. *)
LEMMA ScanSteps ==
    ASSUME NEW sep, NEW text \in Text,
           NEW A, [parts |-> <<>>, from |-> 1] \in A,
           \A a \in A, i \in DOMAIN text : Scan(a, i, sep, text) \in A
    PROVE  \E p : /\ p[0] = [parts |-> <<>>, from |-> 1] /\ p[Len(text)] = Scanned(sep, text)
                  /\ \A m \in 0..(Len(text) - 1) : p[m + 1] = Scan(p[m], m + 1, sep, text)
                  /\ \A m \in 0..Len(text) : p[m] \in A
<1> DEFINE n == Len(text)
           base == [parts |-> <<>>, from |-> 1]
           st == [a \in A |-> [i \in 1..n |-> Scan(a, i, sep, text)]]
           Solves(f) == f = [s \in SUBSET (1..n) |->
                               IF s = {} THEN [parts |-> <<>>, from |-> 1]
                               ELSE Scan(f[s \ {Max(s)}], [i \in DOMAIN text |-> i][Max(s)], sep, text)]
           h == CHOOSE f : Solves(f)
           p == [m \in 0..n |-> h[1..m]]
<1>1. n \in Nat /\ DOMAIN text = 1..n
  BY DEF Text
<1>2. st \in [A -> [1..n -> A]] /\ base \in A
  BY <1>1
<1>3. Scanned(sep, text) = h[1..n]
  BY <1>1 DEF Scanned, Scan, FoldLeftDomain, FoldLeft, MapThenFoldSet
<1> HIDE DEF n, st, base
<1>4. PICK f \in [SUBSET (1..n) -> A] : FoldLeftOf(f, n, base, st)
  BY <1>1, <1>2, FoldLeftExists, Zenon
<1>5. \A s \in SUBSET (1..n) :
         s # {} => Max(s) \in 1..n /\ s \ {Max(s)} \in SUBSET (1..n)
  BY <1>1, Upto
<1>6. ASSUME NEW s \in SUBSET (1..n)
      PROVE  f[s] = IF s = {} THEN [parts |-> <<>>, from |-> 1] ELSE Scan(f[s \ {Max(s)}], [i \in DOMAIN text |-> i][Max(s)], sep, text)
  BY <1>1, <1>4, <1>5 DEF FoldLeftOf, st, base
<1>7. Solves(f)
  BY <1>4, <1>6
<1>8. Solves(h)
  BY <1>7
<1> HIDE DEF h
<1>9. \A s \in SUBSET (1..n) :
         h[s] = IF s = {} THEN [parts |-> <<>>, from |-> 1] ELSE Scan(h[s \ {Max(s)}], Max(s), sep, text)
  BY <1>8, <1>1, <1>5
<1> HIDE DEF Solves
<1>10. h[{}] = [parts |-> <<>>, from |-> 1]
  BY <1>9
<1>11. p[0] = [parts |-> <<>>, from |-> 1] /\ p[n] = h[1..n]
  <2>1. 1..0 = {} /\ 0 \in 0..n /\ n \in 0..n
    BY <1>1
  <2> QED BY <1>10, <2>1
<1>12. ASSUME NEW m \in 0..(n - 1) PROVE p[m + 1] = Scan(p[m], m + 1, sep, text)
  <2> DEFINE s == 1..(m + 1)
  <2>1. s \in SUBSET (1..n) /\ s # {} /\ Max(s) = m + 1 /\ s \ {m + 1} = 1..m
    BY <1>1, LastRound
  <2>2. p[m + 1] = h[s] /\ p[m] = h[1..m]
    BY <1>1
  <2> HIDE DEF s, p
  <2>3. h[s] = Scan(h[1..m], m + 1, sep, text)
    BY <1>9, <2>1
  <2> QED BY <2>2, <2>3
<1> HIDE DEF p
<1>13. ASSUME NEW m \in 0..(n - 1), p[m] \in A PROVE p[m + 1] \in A
  <2>1. m + 1 \in DOMAIN text
    BY <1>1
  <2>2. Scan(p[m], m + 1, sep, text) \in A
    BY <1>13, <2>1
  <2> QED BY <1>12, <2>2
<1>14. \A m \in 0..n : p[m] \in A
  BY <1>1, <1>11, <1>13, Climb
<1> QED BY <1>3, <1>11, <1>12, <1>14 DEF n

(* The loop of _recursive_split, part by part. *)
LEMMA GatherSteps ==
    ASSUME NEW parts \in Seq(Text), NEW size, NEW sep, NEW finer,
           NEW A, [out |-> <<>>, buf |-> <<>>] \in A,
           \A a \in A, i \in DOMAIN parts : Gather(a, parts[i], size, sep, finer) \in A
    PROVE  \E p : /\ p[0] = [out |-> <<>>, buf |-> <<>>] /\ p[Len(parts)] = Gathered(parts, size, sep, finer)
                  /\ \A m \in 0..(Len(parts) - 1) : p[m + 1] = Gather(p[m], parts[m + 1], size, sep, finer)
                  /\ \A m \in 0..Len(parts) : p[m] \in A
<1> DEFINE n == Len(parts)
           base == [out |-> <<>>, buf |-> <<>>]
           st == [a \in A |-> [i \in 1..n |-> Gather(a, parts[i], size, sep, finer)]]
           Solves(f) == f = [s \in SUBSET (1..n) |->
                               IF s = {} THEN [out |-> <<>>, buf |-> <<>>]
                               ELSE Gather(f[s \ {Max(s)}], parts[Max(s)], size, sep, finer)]
           h == CHOOSE f : Solves(f)
           p == [m \in 0..n |-> h[1..m]]
<1>1. n \in Nat /\ DOMAIN parts = 1..n
  OBVIOUS
<1>2. st \in [A -> [1..n -> A]] /\ base \in A
  BY <1>1
<1>3. Gathered(parts, size, sep, finer) = h[1..n]
  BY <1>1 DEF Gathered, Gather, FoldLeftDomain, FoldLeft, MapThenFoldSet
<1> HIDE DEF n, st, base
<1>4. PICK f \in [SUBSET (1..n) -> A] : FoldLeftOf(f, n, base, st)
  BY <1>1, <1>2, FoldLeftExists, Zenon
<1>5. \A s \in SUBSET (1..n) :
         s # {} => Max(s) \in 1..n /\ s \ {Max(s)} \in SUBSET (1..n)
  BY <1>1, Upto
<1>6. ASSUME NEW s \in SUBSET (1..n)
      PROVE  f[s] = IF s = {} THEN [out |-> <<>>, buf |-> <<>>] ELSE Gather(f[s \ {Max(s)}], parts[Max(s)], size, sep, finer)
  BY <1>1, <1>4, <1>5 DEF FoldLeftOf, st, base
<1>7. Solves(f)
  BY <1>4, <1>6
<1>8. Solves(h)
  BY <1>7
<1> HIDE DEF h
<1>9. \A s \in SUBSET (1..n) :
         h[s] = IF s = {} THEN [out |-> <<>>, buf |-> <<>>] ELSE Gather(h[s \ {Max(s)}], parts[Max(s)], size, sep, finer)
  BY <1>8, <1>1, <1>5
<1> HIDE DEF Solves
<1>10. h[{}] = [out |-> <<>>, buf |-> <<>>]
  BY <1>9
<1>11. p[0] = [out |-> <<>>, buf |-> <<>>] /\ p[n] = h[1..n]
  <2>1. 1..0 = {} /\ 0 \in 0..n /\ n \in 0..n
    BY <1>1
  <2> QED BY <1>10, <2>1
<1>12. ASSUME NEW m \in 0..(n - 1) PROVE p[m + 1] = Gather(p[m], parts[m + 1], size, sep, finer)
  <2> DEFINE s == 1..(m + 1)
  <2>1. s \in SUBSET (1..n) /\ s # {} /\ Max(s) = m + 1 /\ s \ {m + 1} = 1..m
    BY <1>1, LastRound
  <2>2. p[m + 1] = h[s] /\ p[m] = h[1..m]
    BY <1>1
  <2> HIDE DEF s, p
  <2>3. h[s] = Gather(h[1..m], parts[m + 1], size, sep, finer)
    BY <1>9, <2>1
  <2> QED BY <2>2, <2>3
<1> HIDE DEF p
<1>13. ASSUME NEW m \in 0..(n - 1), p[m] \in A PROVE p[m + 1] \in A
  <2>1. m + 1 \in DOMAIN parts
    BY <1>1
  <2>2. Gather(p[m], parts[m + 1], size, sep, finer) \in A
    BY <1>13, <2>1
  <2> QED BY <1>12, <2>2
<1>14. \A m \in 0..n : p[m] \in A
  BY <1>1, <1>11, <1>13, Climb
<1> QED BY <1>3, <1>11, <1>12, <1>14 DEF n

(* str.split: with the separator in between, the parts make the text again. *)
Between(m, sep) == IF m = 0 THEN <<>> ELSE sep
Joins(q, parts, sep) ==
    /\ q[0] = <<>>
    /\ \A m \in 0..(Len(parts) - 1) : q[m + 1] = q[m] \o Between(m, sep) \o parts[m + 1]
    /\ \A m \in 0..Len(parts) : q[m] \in Text

LEMMA Pasted ==
    ASSUME NEW text \in Text, NEW a \in 0..Len(text), NEW b \in a..Len(text), NEW c, c = a + 1
    PROVE  SubSeq(text, 1, a) \o SubSeq(text, c, b) = SubSeq(text, 1, b)
<1>1. 1 \in 1..(Len(text) + 1) /\ a \in (1 - 1)..Len(text) /\ Len(text) \in Nat
  BY DEF Text
<1>2. SubSeq(text, 1, a) \o SubSeq(text, a + 1, b) = SubSeq(text, 1, b)
  BY <1>1, ConcatAdjacentSubSeq DEF Text
<1> QED BY <1>2

MayJoin(q, parts, sep, part) ==
    \E r : /\ Joins(r, Append(parts, part), sep)
           /\ r[Len(parts) + 1] = q[Len(parts)] \o Between(Len(parts), sep) \o part

LEMMA JoinMore ==
    ASSUME NEW q, NEW parts \in Seq(Text), NEW sep \in Text, Joins(q, parts, sep), NEW part \in Text
    PROVE  MayJoin(q, parts, sep, part)
<1> DEFINE n == Len(parts)
           new == q[n] \o Between(n, sep) \o part
           r == [m \in 0..(n + 1) |-> IF m = n + 1 THEN new ELSE q[m]]
           more == Append(parts, part)
<1>1. /\ n \in Nat /\ Len(more) = n + 1 /\ more[n + 1] = part
      /\ \A i \in 1..n : more[i] = parts[i]
  BY AppendProperties
<1>2. new \in Text
  <2>1. q[n] \in Text
    BY <1>1 DEF Joins
  <2>2. Between(n, sep) \in Text
    BY DEF Between, Text
  <2>3. q[n] \o Between(n, sep) \in Text
    BY <2>1, <2>2, ConcatProperties DEF Text
  <2> QED BY <2>3, ConcatProperties DEF Text
<1>3. \A m \in 0..n : r[m] = q[m]
  BY <1>1
<1>4. r[n + 1] = new
  BY <1>1
<1> HIDE DEF r, more
<1>5. r[0] = <<>>
  BY <1>1, <1>3 DEF Joins
<1>6. ASSUME NEW m \in 0..n PROVE r[m + 1] = r[m] \o Between(m, sep) \o more[m + 1]
  <2>1. CASE m = n
    BY <1>1, <1>3, <1>4, <2>1
  <2>2. CASE m # n
    <3>1. m \in 0..(n - 1) /\ m + 1 \in 0..n /\ m + 1 \in 1..n
      BY <1>1, <2>2
    <3>2. q[m + 1] = q[m] \o Between(m, sep) \o parts[m + 1]
      BY <3>1 DEF Joins
    <3>3. r[m + 1] = q[m + 1] /\ r[m] = q[m] /\ more[m + 1] = parts[m + 1]
      BY <1>1, <1>3, <3>1
    <3> QED BY <3>2, <3>3
  <2> QED BY <2>1, <2>2
<1>7. ASSUME NEW m \in 0..(n + 1) PROVE r[m] \in Text
  <2>1. CASE m = n + 1
    BY <1>2, <1>4, <2>1
  <2>2. CASE m # n + 1
    BY <1>1, <1>3, <2>2 DEF Joins
  <2> QED BY <2>1, <2>2
<1> HIDE DEF new
<1>8. Joins(r, more, sep)
  <2>1. Len(more) - 1 = n
    BY <1>1
  <2> QED BY <1>1, <1>5, <1>6, <1>7, <2>1 DEF Joins
<1> QED BY <1>4, <1>8 DEF more, new, MayJoin

LEMMA SplitIs ==
    ASSUME NEW text \in Text, NEW sep \in Text, sep # <<>>
    PROVE  /\ SplitAt(sep, text) \in Seq(Text)
           /\ \E q : Joins(q, SplitAt(sep, text), sep) /\ q[Len(SplitAt(sep, text))] = text
<1> DEFINE n == Len(text)
           Fits(acc) == \E q : /\ Joins(q, acc.parts, sep)
                               /\ q[Len(acc.parts)] \o Between(Len(acc.parts), sep)
                                     = SubSeq(text, 1, acc.from - 1)
           A == {acc \in [parts : Seq(Text), from : 1..(n + 1)] : Fits(acc)}
           first == [parts |-> <<>>, from |-> 1]
<1>1. n \in Nat /\ DOMAIN text = 1..n /\ Len(sep) \in Nat \ {0}
  BY EmptySeq DEF Text
<1>2. \A a, b \in Int : 1 <= a /\ b <= n => SubSeq(text, a, b) \in Text
  <2> SUFFICES ASSUME NEW a \in Int, NEW b \in Int, 1 <= a, b <= n
               PROVE  SubSeq(text, a, b) \in Text
    OBVIOUS
  <2>1. \A i \in a..b : text[i] \in Int
    BY <1>1 DEF Text
  <2> QED BY <2>1, SubSeqProperties DEF Text
<1>3. first \in A
  <2>1. Len(first.parts) = 0 /\ first.parts = <<>> /\ first.from = 1
    OBVIOUS
  <2> DEFINE q == [m \in {0} |-> <<>>]
  <2>2. Joins(q, first.parts, sep)
    BY <2>1 DEF Joins, Text
  <2>3. q[0] \o Between(0, sep) = <<>>
    BY DEF Between
  <2>4. SubSeq(text, 1, 0) = <<>>
    BY SubSeqEmpty
  <2>5. Fits(first)
    <3> HIDE DEF q
    <3> QED BY <2>1, <2>2, <2>3, <2>4
  <2>6. first \in [parts : Seq(Text), from : 1..(n + 1)]
    BY <1>1
  <2> QED BY <2>5, <2>6
<1>4. ASSUME NEW acc \in A, NEW i \in DOMAIN text PROVE Scan(acc, i, sep, text) \in A
  <2> DEFINE end == i + Len(sep) - 1
             new == SubSeq(text, acc.from, i - 1)
             more == Append(acc.parts, new)
  <2>1. CASE ~(i >= acc.from /\ end <= Len(text) /\ SubSeq(text, i, end) = sep)
    BY <2>1 DEF Scan
  <2>2. CASE i >= acc.from /\ end <= Len(text) /\ SubSeq(text, i, end) = sep
    <3>1. acc.parts \in Seq(Text) /\ acc.from \in 1..(n + 1) /\ i \in 1..n /\ acc.from <= i
      BY <1>1, <2>2
    <3>2. PICK q : /\ Joins(q, acc.parts, sep)
                   /\ q[Len(acc.parts)] \o Between(Len(acc.parts), sep)
                         = SubSeq(text, 1, acc.from - 1)
      OBVIOUS
    <3>3. new \in Text
      BY <1>1, <1>2, <3>1
    <3>4. Scan(acc, i, sep, text) = [parts |-> more, from |-> end + 1]
      BY <2>2 DEF Scan
    <3>5. end \in i..n
      BY <1>1, <2>2, <3>1
    <3>6. SubSeq(text, 1, acc.from - 1) \o new = SubSeq(text, 1, i - 1)
      <4>1. /\ acc.from - 1 \in 0..Len(text) /\ i - 1 \in (acc.from - 1)..Len(text)
            /\ acc.from = (acc.from - 1) + 1
        BY <1>1, <3>1
      <4> QED BY <4>1, Pasted
    <3>7. SubSeq(text, 1, i - 1) \o sep = SubSeq(text, 1, end)
      <4>1. i - 1 \in 0..Len(text) /\ end \in (i - 1)..Len(text) /\ i = (i - 1) + 1
        BY <1>1, <3>1, <3>5
      <4>2. SubSeq(text, 1, i - 1) \o SubSeq(text, i, end) = SubSeq(text, 1, end)
        BY <4>1, Pasted
      <4> QED BY <2>2, <4>2
    <3> HIDE DEF new
    <3>8. PICK r : /\ Joins(r, more, sep)
                   /\ r[Len(acc.parts) + 1]
                         = q[Len(acc.parts)] \o Between(Len(acc.parts), sep) \o new
      <4>1. acc.parts \in Seq(Text) /\ Joins(q, acc.parts, sep)
        BY <3>1, <3>2
      <4>2. MayJoin(q, acc.parts, sep, new)
        BY <3>3, <4>1, JoinMore, Zenon
      <4> QED BY <4>2 DEF MayJoin
    <3>9. more \in Seq(Text) /\ Len(more) = Len(acc.parts) + 1 /\ Len(acc.parts) \in Nat
      BY <3>1, <3>3, AppendProperties
    <3> DEFINE acc2 == [parts |-> more, from |-> end + 1]
    <3>10. acc2.parts = more /\ acc2.from - 1 = end /\ acc2.from \in 1..(n + 1)
      BY <1>1, <3>1, <3>5
    <3>11. acc2 \in [parts : Seq(Text), from : 1..(n + 1)]
      BY <3>9, <3>10
    <3> HIDE DEF more, end
    <3>12. r[Len(more)] \o Between(Len(more), sep) = SubSeq(text, 1, end)
      <4>1. Between(Len(more), sep) = sep
        BY <3>9 DEF Between
      <4>2. r[Len(more)] = SubSeq(text, 1, i - 1)
        BY <3>2, <3>6, <3>8, <3>9
      <4> QED BY <3>7, <4>1, <4>2
    <3>13. Fits(acc2)
      <4> HIDE DEF acc2
      <4> QED BY <3>8, <3>10, <3>12
    <3> QED BY <3>4, <3>11, <3>13
  <2> QED BY <2>1, <2>2
<1> HIDE DEF A, first
<1>5. Scanned(sep, text) \in A
  <2>1. PICK p : p[Len(text)] = Scanned(sep, text) /\ \A m \in 0..Len(text) : p[m] \in A
    BY <1>3, <1>4, ScanSteps DEF first
  <2> QED BY <1>1, <2>1
<1> DEFINE acc == Scanned(sep, text)
           last == SubSeq(text, acc.from, n)
           parts == Append(acc.parts, last)
<1>6. acc.parts \in Seq(Text) /\ acc.from \in 1..(n + 1) /\ Fits(acc)
  BY <1>5 DEF A
<1>7. SplitAt(sep, text) = parts
  BY DEF SplitAt
<1> HIDE DEF acc
<1>8. PICK q : /\ Joins(q, acc.parts, sep)
               /\ q[Len(acc.parts)] \o Between(Len(acc.parts), sep) = SubSeq(text, 1, acc.from - 1)
  BY <1>6
<1>9. last \in Text
  BY <1>1, <1>2, <1>6
<1>10. SubSeq(text, 1, acc.from - 1) \o last = text
  <2>1. /\ acc.from - 1 \in 0..Len(text) /\ n \in (acc.from - 1)..Len(text)
        /\ acc.from = (acc.from - 1) + 1
    BY <1>1, <1>6
  <2>2. SubSeq(text, 1, acc.from - 1) \o last = SubSeq(text, 1, n)
    BY <2>1, Pasted
  <2> QED BY <2>2, SubSeqFull DEF Text
<1> HIDE DEF last
<1>11. PICK r : /\ Joins(r, parts, sep)
                /\ r[Len(acc.parts) + 1] = q[Len(acc.parts)] \o Between(Len(acc.parts), sep) \o last
  <2>1. acc.parts \in Seq(Text) /\ Joins(q, acc.parts, sep)
    BY <1>6, <1>8
  <2>2. MayJoin(q, acc.parts, sep, last)
    BY <1>9, <2>1, JoinMore, Zenon
  <2> QED BY <2>2 DEF MayJoin
<1>12. parts \in Seq(Text) /\ Len(parts) = Len(acc.parts) + 1
  BY <1>6, <1>9, AppendProperties
<1> HIDE DEF parts
<1>13. r[Len(parts)] = text
  BY <1>8, <1>10, <1>11, <1>12
<1> QED BY <1>7, <1>11, <1>12, <1>13

(* What cutting a text promises: pieces that tell it and are not too long. *)
Short(ps, bound) == \A k \in DOMAIN ps : Len(ps[k]) <= bound
Cuts(text, ps, bound) == ps \in Seq(Text) /\ Tells(text, ps) /\ Short(ps, bound)

(* The slice of a text from a place to another has the letters of the places
   in between. *)
LEMMA SliceIs ==
    ASSUME NEW text \in Text, NEW a \in Int, NEW b \in Int, 1 <= a, b <= Len(text)
    PROVE  /\ SubSeq(text, a, b) \in Text
           /\ Len(SubSeq(text, a, b)) = IF a <= b THEN b - a + 1 ELSE 0
           /\ \A x : x \in Letters(SubSeq(text, a, b)) <=> \E i \in Solid(text) : a <= i /\ i <= b /\ text[i] = x
<1> DEFINE s == SubSeq(text, a, b)
<1>1. DOMAIN text = 1..Len(text) /\ Len(text) \in Nat /\ \A i \in 1..Len(text) : text[i] \in Int
  BY DEF Text
<1>2. \A i \in a..b : text[i] \in Int
  BY <1>1
<1>3. /\ s \in Text /\ Len(s) = IF a <= b THEN b - a + 1 ELSE 0
      /\ \A i \in 1..(b - a + 1) : s[i] = text[a + i - 1]
  BY <1>2, SubSeqProperties DEF Text
<1> HIDE DEF s
<1>4. DOMAIN s = 1..Len(s) /\ Len(s) \in Nat
  BY <1>3 DEF Text
<1>5. ASSUME NEW x, x \in Letters(s)
      PROVE  \E i \in Solid(text) : a <= i /\ i <= b /\ text[i] = x
  <2>1. PICK j \in Solid(s) : s[j] = x
    BY <1>5 DEF Letters
  <2>2. j \in 1..(b - a + 1)
    BY <1>3, <1>4 DEF Solid
  <2>3. a + j - 1 \in 1..Len(text) /\ a <= a + j - 1 /\ a + j - 1 <= b
    BY <1>1, <2>2
  <2>4. text[a + j - 1] = x
    BY <1>3, <2>1, <2>2
  <2>5. a + j - 1 \in Solid(text)
    BY <1>1, <2>1, <2>3, <2>4 DEF Solid
  <2> QED BY <2>3, <2>4, <2>5
<1>6. ASSUME NEW i \in Solid(text), a <= i, i <= b PROVE text[i] \in Letters(s)
  <2>1. i \in Int
    BY <1>1 DEF Solid
  <2>2. i - a + 1 \in 1..(b - a + 1) /\ a + (i - a + 1) - 1 = i
    BY <1>6, <2>1
  <2>3. s[i - a + 1] = text[i] /\ i - a + 1 \in DOMAIN s
    BY <1>3, <1>4, <2>2
  <2>4. i - a + 1 \in Solid(s)
    BY <2>3 DEF Solid
  <2> QED BY <2>3, <2>4 DEF Letters
<1>7. \A x : x \in Letters(s) <=> \E i \in Solid(text) : a <= i /\ i <= b /\ text[i] = x
  BY <1>5, <1>6
<1> QED BY <1>3, <1>7 DEF s

(* strip takes no letter away. *)
LEMMA StripIs ==
    ASSUME NEW text \in Text
    PROVE  /\ Strip(text) \in Text /\ Len(Strip(text)) <= Len(text)
           /\ \A x : x \in Letters(Strip(text)) <=> x \in Letters(text)
<1> DEFINE solid == {i \in DOMAIN text : text[i] > 0}
<1>1. DOMAIN text = 1..Len(text) /\ Len(text) \in Nat
  BY DEF Text
<1>2. solid \in SUBSET (1..Len(text)) /\ Solid(text) \subseteq solid
  BY <1>1 DEF Solid
<1>3. CASE solid = {}
  <2>1. Strip(text) = <<>>
    BY <1>3 DEF Strip
  <2>2. Letters(text) = {}
    BY <1>2, <1>3 DEF Letters
  <2>3. Letters(<<>>) = {} /\ <<>> \in Text /\ Len(<<>>) = 0
    BY DEF Letters, Solid, Text
  <2> QED BY <1>1, <2>1, <2>2, <2>3
<1>4. CASE solid # {}
  <2> DEFINE a == Min(solid)
             b == Max(solid)
  <2>1. Strip(text) = SubSeq(text, a, b)
    BY <1>4 DEF Strip
  <2> HIDE DEF solid
  <2>2. a \in solid /\ b \in solid /\ \A i \in solid : a <= i /\ i <= b
    BY <1>1, <1>2, <1>4, Upto
  <2> HIDE DEF a, b
  <2>3. a \in Int /\ b \in Int /\ 1 <= a /\ b <= Len(text) /\ a <= b
    BY <1>1, <1>2, <2>2
  <2>4. /\ SubSeq(text, a, b) \in Text
        /\ Len(SubSeq(text, a, b)) = b - a + 1
        /\ \A x : x \in Letters(SubSeq(text, a, b)) <=> \E i \in Solid(text) : a <= i /\ i <= b /\ text[i] = x
    BY <2>3, SliceIs
  <2>5. \A x : x \in Letters(SubSeq(text, a, b)) <=> x \in Letters(text)
    BY <1>2, <2>2, <2>4 DEF Letters
  <2>6. b - a + 1 <= Len(text)
    BY <1>1, <2>3
  <2> QED BY <2>1, <2>4, <2>5, <2>6
<1> QED BY <1>3, <1>4

(* Stitching puts in front of a piece only what the piece before it has. *)
LEMMA StitchIs ==
    ASSUME NEW text \in Text, NEW out, NEW bound \in Nat, Cuts(text, out, bound),
           NEW overlap \in Nat, NEW sep \in Text, Letters(sep) = {}
    PROVE  Cuts(text, Stitch(out, overlap, sep), bound + overlap + Len(sep))
<1> DEFINE n == Len(out)
           kept(i) == Ending(Min({overlap, Len(out[i - 1])}), out[i - 1])
           ps == Stitch(out, overlap, sep)
<1>1. n \in Nat /\ DOMAIN out = 1..n /\ out \in Seq(Text) /\ \A i \in 1..n : out[i] \in Text /\ Len(out[i]) \in Nat
  BY DEF Cuts, Text
<1>2. ASSUME NEW i \in 1..n, i # 1
      PROVE  /\ kept(i) \in Text /\ Len(kept(i)) <= overlap
             /\ \A x : x \in Letters(kept(i)) => x \in Letters(out[i - 1])
  <2> DEFINE t == out[i - 1]
             m == Min({overlap, Len(t)})
  <2>1. t \in Text /\ Len(t) \in Nat
    BY <1>1, <1>2
  <2>2. m \in Nat /\ m <= overlap /\ m <= Len(t)
    <3>1. {overlap, Len(t)} \in SUBSET Nat /\ {overlap, Len(t)} # {}
      BY <2>1
    <3>2. PICK x \in {overlap, Len(t)} : \A y \in {overlap, Len(t)} : x <= y
      BY <3>1, LeastNat
    <3>3. m \in {overlap, Len(t)} /\ \A y \in {overlap, Len(t)} : m <= y
      BY <3>2 DEF Min
    <3> QED BY <2>1, <3>3
  <2> HIDE DEF m
  <2> DEFINE a == Len(t) - m + 1
  <2>3. a \in Int /\ Len(t) \in Int /\ 1 <= a /\ Len(t) <= Len(t)
    BY <2>1, <2>2
  <2>4. kept(i) = SubSeq(t, a, Len(t))
    BY DEF Ending, m
  <2> HIDE DEF t, a
  <2>5. /\ SubSeq(t, a, Len(t)) \in Text
        /\ Len(SubSeq(t, a, Len(t))) = IF a <= Len(t) THEN Len(t) - a + 1 ELSE 0
        /\ \A x : x \in Letters(SubSeq(t, a, Len(t))) =>
              \E j \in Solid(t) : a <= j /\ j <= Len(t) /\ t[j] = x
    BY <2>1, <2>3, SliceIs
  <2>6. Len(SubSeq(t, a, Len(t))) <= overlap
    BY <2>1, <2>2, <2>5 DEF a
  <2>7. \A x : x \in Letters(SubSeq(t, a, Len(t))) => x \in Letters(t)
    BY <2>5 DEF Letters
  <2> QED BY <2>4, <2>5, <2>6, <2>7 DEF t
<1>3. ps = [i \in 1..n |-> IF i = 1 \/ overlap = 0 THEN out[i] ELSE kept(i) \o sep \o out[i]]
  BY <1>1 DEF Stitch
<1> HIDE DEF kept, ps
<1>4. ASSUME NEW i \in 1..n
      PROVE  /\ ps[i] \in Text /\ Len(ps[i]) <= bound + overlap + Len(sep)
             /\ \A x : x \in Letters(out[i]) => x \in Letters(ps[i])
             /\ \A x : x \in Letters(ps[i]) =>
                   x \in Letters(out[i]) \/ (i - 1 \in 1..n /\ x \in Letters(out[i - 1]))
  <2>1. Len(out[i]) <= bound /\ Len(sep) \in Nat /\ out[i] \in Text /\ Len(out[i]) \in Nat
    <3>1. Short(out, bound) /\ i \in DOMAIN out
      BY <1>1 DEF Cuts
    <3>2. Len(sep) \in Nat
      BY DEF Text
    <3> QED BY <1>1, <3>1, <3>2 DEF Short
  <2>2. CASE i = 1 \/ overlap = 0
    <3>1. ps[i] = out[i]
      BY <1>3, <2>2
    <3>2. Len(ps[i]) <= bound + overlap + Len(sep)
      BY <2>1, <3>1
    <3> QED BY <2>1, <3>1, <3>2
  <2>3. CASE ~(i = 1 \/ overlap = 0)
    <3> DEFINE k == kept(i)
    <3>1. ps[i] = k \o sep \o out[i]
      BY <1>3, <2>3
    <3>2. /\ k \in Text /\ Len(k) <= overlap /\ Len(k) \in Nat
          /\ \A x : x \in Letters(k) => x \in Letters(out[i - 1])
      BY <1>2, <2>3 DEF Text
    <3> HIDE DEF k
    <3>3. /\ ps[i] \in Text
          /\ Letters(ps[i]) = Letters(k) \union Letters(out[i])
      BY <2>1, <3>1, <3>2, Joint
    <3>4. Len(ps[i]) = Len(k) + Len(sep) + Len(out[i])
      <4>1. k \o sep \in Text /\ Len(k \o sep) = Len(k) + Len(sep)
        BY <3>2, ConcatProperties DEF Text
      <4>2. Len((k \o sep) \o out[i]) = Len(k \o sep) + Len(out[i])
        BY <2>1, <4>1, ConcatProperties DEF Text
      <4> QED BY <3>1, <4>1, <4>2
    <3>5. Len(ps[i]) <= bound + overlap + Len(sep)
      <4> DEFINE u == Len(k)
                 v == Len(sep)
                 w == Len(out[i])
      <4>1. u \in Nat /\ v \in Nat /\ w \in Nat /\ u <= overlap /\ w <= bound
        BY <2>1, <3>2
      <4>2. Len(ps[i]) = u + v + w
        BY <3>4
      <4> HIDE DEF u, v, w
      <4>3. u + v + w <= bound + overlap + v
        BY <4>1
      <4> QED BY <4>2, <4>3 DEF v
    <3>6. i - 1 \in 1..n
      BY <1>1, <2>3
    <3> QED BY <3>2, <3>3, <3>5, <3>6
  <2> QED BY <2>2, <2>3
<1>5. ps \in Seq(Text) /\ DOMAIN ps = 1..n
  <2>1. ps \in [1..n -> Text]
    BY <1>3, <1>4
  <2> QED BY <1>1, <2>1, SeqDef
<1>6. Short(ps, bound + overlap + Len(sep))
  BY <1>4, <1>5 DEF Short
<1>7. ASSUME NEW x PROVE x \in Letters(text) <=> \E k \in DOMAIN ps : x \in Letters(ps[k])
  <2>1. x \in Letters(text) <=> \E k \in 1..n : x \in Letters(out[k])
    BY <1>1 DEF Cuts, Tells
  <2> QED BY <1>4, <1>5, <2>1
<1>8. ASSUME Apart(text), NEW x, NEW y, Before(text, x, y), NEW k \in DOMAIN ps, y \in Letters(ps[k])
      PROVE  \E h \in 1..k : x \in Letters(ps[h])
  <2>1. Ordered(text, out)
    BY <1>8 DEF Cuts, Tells
  <2>2. PICK l \in 1..n : l <= k /\ y \in Letters(out[l])
    <3>1. CASE y \in Letters(out[k])
      BY <1>1, <1>5, <3>1
    <3>2. CASE k - 1 \in 1..n /\ y \in Letters(out[k - 1])
      BY <1>1, <1>5, <3>2
    <3> QED BY <1>4, <1>5, <1>8, <3>1, <3>2
  <2>3. PICK h \in 1..l : x \in Letters(out[h])
    BY <1>1, <1>8, <2>1, <2>2 DEF Ordered
  <2>4. h \in 1..n /\ h \in 1..k
    BY <1>1, <1>5, <2>2
  <2> QED BY <1>4, <2>3, <2>4
<1>9. Tells(text, ps)
  <2>1. Apart(text) => Ordered(text, ps)
    BY <1>8 DEF Ordered
  <2> QED BY <1>7, <2>1 DEF Tells
<1> QED BY <1>5, <1>6, <1>9 DEF Cuts, ps

(* The windows overlap or touch, and reach the end of the text. *)
LEMMA StepsReach ==
    ASSUME NEW len \in Nat, NEW step \in Nat \ {0}
    PROVE  /\ (len + step - 1) \div step \in Nat
           /\ len <= ((len + step - 1) \div step) * step
<1> DEFINE a == len + step - 1
           q == a \div step
<1>1. a \in Nat
  OBVIOUS
<1>2. q \in Int /\ a = step * q + (a % step) /\ a % step \in 0..(step - 1)
  <2> HIDE DEF a
  <2> QED BY <1>1
<1>3. q \in Nat
  <2>1. CASE q < 0
    <3>1. step * q <= -step
      BY <1>2, <2>1
    <3> HIDE DEF q
    <3> QED BY <1>1, <1>2, <3>1
  <2> QED BY <1>2, <2>1
<1>4. step * q = q * step /\ step * q \in Int
  BY <1>2
<1>5. len <= q * step
  <2> DEFINE u == step * q
             r == a % step
  <2>1. u \in Int /\ r \in Int /\ len + step - 1 = u + r /\ r <= step - 1
    BY <1>2, <1>4
  <2> HIDE DEF u, r
  <2>2. len <= u
    BY <2>1
  <2> QED BY <1>4, <2>2 DEF u
<1> QED BY <1>3, <1>5

LEMMA Multiples ==
    ASSUME NEW step \in Nat, NEW h \in Int, NEW k \in Int
    PROVE  /\ h * step \in Int /\ (h + 1) * step = h * step + step
           /\ h <= k => h * step <= k * step
           /\ h \in Nat => h * step \in Nat
<1>1. h * step \in Int /\ (h + 1) * step = h * step + step
  OBVIOUS
<1>2. ASSUME h <= k PROVE h * step <= k * step
  <2>1. k - h \in Nat
    BY <1>2
  <2>2. (k - h) * step \in Nat
    BY <2>1
  <2>3. (k - h) * step = k * step - h * step
    OBVIOUS
  <2> QED BY <2>2, <2>3
<1> QED BY <1>1, <1>2

LEMMA WindowsAre ==
    ASSUME NEW text \in Text, NEW size \in Nat \ {0}, NEW overlap \in Nat
    PROVE  Cuts(text, Windows(text, size, overlap), size)
<1> DEFINE len == Len(text)
           step == Max({1, size - overlap})
           n == (len + step - 1) \div step
           start(k) == (k - 1) * step
           stop(k) == Min({start(k) + size, len})
           ps == Windows(text, size, overlap)
<1>1. len \in Nat /\ DOMAIN text = 1..len
  BY DEF Text
<1>2. step \in Nat \ {0} /\ step <= size
  <2> DEFINE S == {1, size - overlap}
  <2>1. \E x \in S : \A y \in S : x >= y
    <3>1. CASE size - overlap >= 1
      BY <3>1
    <3>2. CASE ~(size - overlap >= 1)
      BY <3>2
    <3> QED BY <3>1, <3>2
  <2>2. Max(S) \in S /\ \A y \in S : Max(S) >= y
    BY <2>1 DEF Max
  <2> DEFINE m == Max(S)
  <2> HIDE DEF m
  <2>3. m \in {1, size - overlap} /\ m >= 1
    BY <2>2 DEF m
  <2>4. m \in Nat \ {0} /\ m <= size
    BY <2>3
  <2> QED BY <2>4 DEF m
<1>3. ps = [k \in 1..n |-> SubSeq(text, start(k) + 1, stop(k))]
  BY DEF Windows
<1> HIDE DEF step
<1>4. n \in Nat /\ len <= n * step
  <2> HIDE DEF len
  <2> QED BY <1>1, <1>2, StepsReach
<1> HIDE DEF n, len
<1>5. /\ \A k \in 1..n : start(k) \in Nat /\ k * step = start(k) + step
      /\ \A h, k \in 1..n : h <= k => start(h) <= start(k)
  <2>1. ASSUME NEW k \in 1..n PROVE start(k) \in Nat /\ k * step = start(k) + step
    <3>1. k - 1 \in Nat /\ (k - 1) + 1 = k
      BY <1>4
    <3> QED BY <1>2, <3>1, Multiples
  <2>2. ASSUME NEW h \in 1..n, NEW k \in 1..n, h <= k PROVE start(h) <= start(k)
    <3>1. h - 1 \in Int /\ k - 1 \in Int /\ h - 1 <= k - 1
      BY <1>4, <2>2
    <3> QED BY <1>2, <3>1, Multiples
  <2> QED BY <2>1, <2>2
<1> HIDE DEF start
<1>6. ASSUME NEW k \in 1..n
      PROVE  /\ stop(k) \in Int /\ stop(k) <= len /\ stop(k) <= start(k) + size
             /\ \A i \in Int : i <= len /\ i <= start(k) + size => i <= stop(k)
  <2> DEFINE S == {start(k) + size, len}
  <2>1. S \in SUBSET Nat /\ S # {}
    BY <1>1, <1>5
  <2>2. PICK x \in S : \A y \in S : x <= y
    BY <2>1, LeastNat
  <2>3. Min(S) \in S /\ \A y \in S : Min(S) <= y
    BY <2>2 DEF Min
  <2> DEFINE m == Min(S)
             u == start(k) + size
  <2>4. u \in Nat /\ len \in Nat
    BY <1>1, <1>5
  <2>5. m \in {u, len} /\ m <= u /\ m <= len
    BY <2>3
  <2>6. stop(k) = m
    BY DEF stop
  <2> HIDE DEF m, u
  <2>7. m \in Int /\ \A i \in Int : i <= len /\ i <= u => i <= m
    BY <2>4, <2>5
  <2> QED BY <2>5, <2>6, <2>7 DEF u
<1> HIDE DEF stop, ps
<1>7. ASSUME NEW k \in 1..n
      PROVE  /\ ps[k] \in Text /\ Len(ps[k]) <= size
             /\ \A x : x \in Letters(ps[k]) <=>
                   \E i \in Solid(text) : start(k) + 1 <= i /\ i <= stop(k) /\ text[i] = x
  <2> DEFINE a == start(k) + 1
             b == stop(k)
  <2>1. a \in Int /\ b \in Int /\ 1 <= a /\ b <= Len(text) /\ b <= start(k) + size
    BY <1>5, <1>6 DEF len
  <2>2. ps[k] = SubSeq(text, a, b)
    BY <1>3
  <2> HIDE DEF a, b
  <2>3. /\ SubSeq(text, a, b) \in Text
        /\ Len(SubSeq(text, a, b)) = IF a <= b THEN b - a + 1 ELSE 0
        /\ \A x : x \in Letters(SubSeq(text, a, b)) <=> \E i \in Solid(text) : a <= i /\ i <= b /\ text[i] = x
    BY <2>1, SliceIs
  <2>4. Len(SubSeq(text, a, b)) <= size
    <3>1. start(k) \in Nat /\ a = start(k) + 1
      BY <1>5 DEF a
    <3> QED BY <2>1, <2>3, <3>1
  <2> QED BY <2>2, <2>3, <2>4 DEF a, b
<1>8. ps \in Seq(Text) /\ DOMAIN ps = 1..n
  <2>1. ps \in [1..n -> Text]
    BY <1>3, <1>7
  <2> QED BY <1>4, <2>1, SeqDef
<1>9. Solid(text) \subseteq 1..len
  BY <1>1 DEF Solid
<1>10. ASSUME NEW i \in Solid(text)
       PROVE  \E h \in 1..n : start(h) + 1 <= i /\ i <= stop(h)
  <2> DEFINE K == {k \in 1..n : start(k) + 1 <= i}
  <2>1. i \in 1..len
    BY <1>9
  <2>2. 1 \in K
    <3>1. n # 0
      <4>1. n = 0 => n * step = 0
        BY <1>2
      <4> QED BY <1>1, <1>4, <2>1, <4>1
    <3>2. 1 \in 1..n
      BY <1>4, <3>1
    <3>3. start(1) = 0
      BY <1>2 DEF start
    <3> QED BY <2>1, <3>2, <3>3
  <2> DEFINE h == Max(K)
  <2>3. h \in K /\ \A k \in K : k <= h
    <3>1. K \in SUBSET (1..n) /\ K # {}
      BY <2>2
    <3> HIDE DEF K
    <3> QED BY <1>4, <3>1, Upto
  <2> HIDE DEF h
  <2>4. i <= start(h) + step
    <3>1. CASE h = n
      <4>1. n * step = start(h) + step /\ start(h) \in Nat
        BY <1>5, <2>3, <3>1
      <4>2. len <= start(h) + step
        BY <1>4, <4>1
      <4> QED BY <1>1, <1>2, <2>1, <4>1, <4>2
    <3>2. CASE h # n
      <4>1. h + 1 \in 1..n /\ h + 1 \notin K
        BY <1>4, <2>3, <3>2
      <4>2. start(h + 1) = start(h) + step
        <5>1. (h + 1) - 1 = h
          BY <2>3
        <5>2. start(h + 1) = h * step
          BY <5>1 DEF start
        <5> QED BY <1>5, <2>3, <5>2
      <4>3. start(h + 1) \in Nat /\ ~(start(h + 1) + 1 <= i)
        BY <1>5, <4>1
      <4> QED BY <2>1, <4>2, <4>3
    <3> QED BY <3>1, <3>2
  <2>5. i <= start(h) + size /\ i <= len /\ i \in Int
    <3>1. start(h) \in Nat
      BY <1>5, <2>3
    <3> QED BY <1>2, <2>1, <2>4, <3>1
  <2> QED BY <1>6, <2>3, <2>5
<1>11. Short(ps, size)
  BY <1>7, <1>8 DEF Short
<1>12. ASSUME NEW x PROVE x \in Letters(text) <=> \E k \in DOMAIN ps : x \in Letters(ps[k])
  <2>1. ASSUME x \in Letters(text) PROVE \E k \in DOMAIN ps : x \in Letters(ps[k])
    <3>1. PICK i \in Solid(text) : text[i] = x
      BY <2>1 DEF Letters
    <3>2. PICK h \in 1..n : start(h) + 1 <= i /\ i <= stop(h)
      BY <1>10
    <3> QED BY <1>7, <1>8, <3>1, <3>2
  <2>2. ASSUME NEW k \in DOMAIN ps, x \in Letters(ps[k]) PROVE x \in Letters(text)
    BY <1>7, <1>8, <2>2 DEF Letters
  <2> QED BY <2>1, <2>2
<1>13. ASSUME Apart(text), NEW x, NEW y, Before(text, x, y), NEW k \in DOMAIN ps, y \in Letters(ps[k])
       PROVE  \E h \in 1..k : x \in Letters(ps[h])
  <2>1. PICK i \in Solid(text), j \in Solid(text) : i < j /\ text[i] = x /\ text[j] = y
    BY <1>13 DEF Before
  <2>2. PICK l \in Solid(text) : start(k) + 1 <= l /\ l <= stop(k) /\ text[l] = y
    BY <1>7, <1>8, <1>13
  <2>3. i \in 1..len /\ j \in 1..len /\ l \in 1..len /\ len \in Nat
    BY <1>1, <1>9
  <2>4. l = j
    <3>1. l < j \/ j < l \/ l = j
      BY <2>3
    <3>2. l < j => Before(text, y, y)
      BY <2>1, <2>2 DEF Before
    <3>3. j < l => Before(text, y, y)
      BY <2>1, <2>2 DEF Before
    <3> QED BY <1>13, <3>1, <3>2, <3>3 DEF Apart
  <2>5. k \in 1..n /\ k \in 1..k
    BY <1>4, <1>8
  <2>6. CASE start(k) + 1 <= i
    <3>1. i <= stop(k)
      BY <1>6, <2>1, <2>2, <2>3, <2>4, <2>5
    <3>2. x \in Letters(ps[k])
      BY <1>7, <2>1, <2>5, <2>6, <3>1
    <3> QED BY <2>5, <3>2
  <2>7. CASE ~(start(k) + 1 <= i)
    <3>1. PICK h \in 1..n : start(h) + 1 <= i /\ i <= stop(h)
      BY <1>10
    <3>2. h \in 1..k
      <4>1. start(h) < start(k)
        BY <1>5, <2>3, <2>5, <2>7, <3>1
      <4>2. ~(k <= h)
        BY <1>5, <2>5, <4>1
      <4> QED BY <1>4, <2>5, <4>2
    <3>3. x \in Letters(ps[h])
      BY <1>7, <2>1, <3>1
    <3> QED BY <3>2, <3>3
  <2> QED BY <2>6, <2>7
<1>14. Tells(text, ps)
  <2>1. Apart(text) => Ordered(text, ps)
    BY <1>13 DEF Ordered
  <2> QED BY <1>12, <2>1 DEF Tells
<1> QED BY <1>8, <1>11, <1>14 DEF Cuts, ps

(* Putting a buffer after pieces. *)
LEMMA FlushIs ==
    ASSUME NEW ps \in Seq(Text), NEW buf \in Text
    PROVE  /\ Flush(<<>>, buf) \in Seq(Text) /\ Flush(ps, buf) \in Seq(Text)
           /\ Flush(ps, buf) = ps \o Flush(<<>>, buf)
           /\ Flush(ps, <<>>) = ps
           /\ buf # <<>> => Flush(ps, buf) = Append(ps, buf)
           /\ \A bound \in Nat : Short(ps, bound) /\ Len(buf) <= bound => Short(Flush(ps, buf), bound)
<1>1. Flush(ps, <<>>) = ps
  BY DEF Flush
<1>2. CASE buf = <<>>
  <2>1. Flush(<<>>, buf) = <<>> /\ Flush(ps, buf) = ps
    BY <1>2 DEF Flush
  <2>2. <<>> \in Seq(Text) /\ ps \o <<>> = ps
    BY ConcatEmptySeq
  <2> QED BY <1>1, <1>2, <2>1, <2>2
<1>3. CASE buf # <<>>
  <2>1. Flush(<<>>, buf) = <<buf>> /\ Flush(ps, buf) = Append(ps, buf)
    BY <1>3 DEF Flush
  <2>2. <<buf>> \in Seq(Text) /\ Append(ps, buf) \in Seq(Text) /\ Append(ps, buf) = ps \o <<buf>>
    BY AppendProperties, AppendIsConcat
  <2>3. ASSUME NEW bound \in Nat, Short(ps, bound), Len(buf) <= bound
        PROVE  Short(Append(ps, buf), bound)
    <3> DEFINE qs == Append(ps, buf)
               n == Len(ps)
    <3>1. /\ n \in Nat /\ DOMAIN ps = 1..n /\ DOMAIN qs = 1..(n + 1) /\ qs[n + 1] = buf
          /\ \A k \in 1..n : qs[k] = ps[k]
      BY AppendProperties
    <3> HIDE DEF qs, n
    <3>2. \A k \in 1..(n + 1) : k \in 1..n \/ k = n + 1
      BY <3>1
    <3>3. Short(qs, bound)
      BY <2>3, <3>1, <3>2 DEF Short
    <3> QED BY <3>3 DEF qs
  <2> QED BY <1>1, <1>3, <2>1, <2>2, <2>3
<1> QED BY <1>2, <1>3

LEMMA ShortConcat ==
    ASSUME NEW ps \in Seq(Text), NEW qs \in Seq(Text), NEW bound, Short(ps, bound), Short(qs, bound)
    PROVE  Short(ps \o qs, bound)
<1> DEFINE n == Len(ps)
           rs == ps \o qs
<1>1. /\ n \in Nat /\ Len(qs) \in Nat /\ DOMAIN ps = 1..n /\ DOMAIN qs = 1..Len(qs)
      /\ DOMAIN rs = 1..(n + Len(qs))
      /\ \A k \in 1..n : rs[k] = ps[k]
      /\ \A k \in (n + 1)..(n + Len(qs)) : rs[k] = qs[k - n]
  BY ConcatProperties
<1> HIDE DEF n, rs
<1>2. ASSUME NEW k \in 1..(n + Len(qs)) PROVE Len(rs[k]) <= bound
  <2>1. CASE k \in 1..n
    BY <1>1, <2>1 DEF Short
  <2>2. CASE k \notin 1..n
    <3>1. k \in (n + 1)..(n + Len(qs)) /\ k - n \in 1..Len(qs)
      BY <1>1, <2>2
    <3>2. rs[k] = qs[k - n] /\ k - n \in DOMAIN qs
      BY <1>1, <3>1
    <3> QED BY <3>2 DEF Short
  <2> QED BY <2>1, <2>2
<1>3. Short(rs, bound)
  BY <1>1, <1>2 DEF Short
<1> QED BY <1>3 DEF rs

(* What the separators that follow promise of every text. *)
Level(finer, bound) ==
    finer \in [Text -> Seq(Text)] /\ \A text \in Text : Cuts(text, finer[text], bound)

(* A round of the loop: nothing of the part it takes is lost, and what it had
   gathered is still told. *)
Gathers(bound, size) ==
    {acc \in [out : Seq(Text), buf : Text] : Short(acc.out, bound) /\ Len(acc.buf) <= size}

LEMMA GatherIs ==
    ASSUME NEW size \in Nat, NEW bound \in Nat, size <= bound, NEW sep \in Text,
           NEW finer, Level(finer, bound), NEW acc \in Gathers(bound, size), NEW part \in Text
    PROVE  /\ Gather(acc, part, size, sep, finer) \in Gathers(bound, size)
           /\ \A a, s \in Text :
                Letters(s) = {} /\ (acc.buf # <<>> => s = sep) /\ Tells(a, Flush(acc.out, acc.buf)) =>
                   LET new == Gather(acc, part, size, sep, finer)
                   IN  Tells(a \o s \o part, Flush(new.out, new.buf))
<1> DEFINE candidate == IF acc.buf = <<>> THEN part ELSE acc.buf \o sep \o part
           new == Gather(acc, part, size, sep, finer)
           old == Flush(acc.out, acc.buf)
<1>1. acc.out \in Seq(Text) /\ acc.buf \in Text /\ Short(acc.out, bound) /\ Len(acc.buf) <= size
  BY DEF Gathers
<1>2. Len(acc.buf) <= bound /\ Len(acc.buf) \in Nat
  BY <1>1 DEF Text
<1>3. old \in Seq(Text) /\ Short(old, bound)
  BY <1>1, <1>2, FlushIs
<1>4. candidate \in Text
  BY <1>1, ConcatProperties DEF Text
<1>5. /\ finer[part] \in Seq(Text) /\ Short(finer[part], bound) /\ Tells(part, finer[part])
  BY DEF Level, Cuts
<1> SUFFICES /\ new \in Gathers(bound, size)
             /\ \A a, s \in Text :
                  Letters(s) = {} /\ (acc.buf # <<>> => s = sep) /\ Tells(a, old) =>
                     Tells(a \o s \o part, Flush(new.out, new.buf))
  OBVIOUS
<1> HIDE DEF new, candidate, old
<1>6. CASE Len(candidate) <= size
  <2>1. new = [out |-> acc.out, buf |-> candidate]
    BY <1>6 DEF new, Gather, candidate
  <2>2. new \in Gathers(bound, size)
    BY <1>1, <1>4, <1>6, <2>1 DEF Gathers
  <2>3. ASSUME NEW a \in Text, NEW s \in Text, Letters(s) = {}, acc.buf # <<>> => s = sep, Tells(a, old)
        PROVE  Tells(a \o s \o part, Flush(new.out, new.buf))
    <3>1. CASE acc.buf = <<>>
      <4>1. candidate = part /\ old = acc.out
        BY <1>1, <3>1, FlushIs DEF candidate, old
      <4>2. Flush(new.out, new.buf) = acc.out \o Flush(<<>>, part) /\ Flush(<<>>, part) \in Seq(Text)
        BY <1>1, <2>1, <4>1, FlushIs
      <4>3. Tells(part, Flush(<<>>, part))
        BY TellsOne
      <4>4. Tells(a \o s \o part, acc.out \o Flush(<<>>, part))
        BY <1>1, <2>3, <4>1, <4>2, <4>3, Compose
      <4> QED BY <4>2, <4>4
    <3>2. CASE acc.buf # <<>>
      <4>1. candidate = acc.buf \o s \o part
        BY <2>3, <3>2 DEF candidate
      <4>2. old = Append(acc.out, acc.buf)
        BY <1>1, <3>2, FlushIs DEF old
      <4>3. Tells(a \o s \o part, Append(acc.out, candidate))
        BY <1>1, <2>3, <4>1, <4>2, Extend
      <4>4. candidate # <<>>
        <5>1. Len(acc.buf \o s) = Len(acc.buf) + Len(s) /\ acc.buf \o s \in Text
          BY <1>1, ConcatProperties DEF Text
        <5>2. Len(candidate) = Len(acc.buf \o s) + Len(part)
          BY <4>1, <5>1, ConcatProperties DEF Text
        <5>3. Len(acc.buf) \in Nat \ {0} /\ Len(s) \in Nat /\ Len(part) \in Nat
          BY <1>1, <3>2, EmptySeq DEF Text
        <5>4. Len(<<>>) = 0
          BY EmptySeq
        <5> QED BY <5>1, <5>2, <5>3, <5>4
      <4>5. Flush(new.out, new.buf) = Append(acc.out, candidate)
        BY <1>1, <1>4, <2>1, <4>4, FlushIs
      <4> QED BY <4>3, <4>5
    <3> QED BY <3>1, <3>2
  <2> QED BY <2>2, <2>3
<1>7. CASE ~(Len(candidate) <= size) /\ Len(part) <= size
  <2>1. new = [out |-> old, buf |-> part]
    BY <1>7 DEF new, Gather, candidate, old
  <2>2. new \in Gathers(bound, size)
    BY <1>3, <1>7, <2>1 DEF Gathers
  <2>3. ASSUME NEW a \in Text, NEW s \in Text, Letters(s) = {}, Tells(a, old)
        PROVE  Tells(a \o s \o part, Flush(new.out, new.buf))
    <3>1. Flush(new.out, new.buf) = old \o Flush(<<>>, part) /\ Flush(<<>>, part) \in Seq(Text)
      BY <1>3, <2>1, FlushIs
    <3>2. Tells(part, Flush(<<>>, part))
      BY TellsOne
    <3>3. Tells(a \o s \o part, old \o Flush(<<>>, part))
      BY <1>3, <2>3, <3>1, <3>2, Compose
    <3> QED BY <3>1, <3>3
  <2> QED BY <2>2, <2>3
<1>8. CASE ~(Len(candidate) <= size) /\ ~(Len(part) <= size)
  <2>1. new = [out |-> old \o finer[part], buf |-> <<>>]
    BY <1>8 DEF new, Gather, candidate, old
  <2>2. old \o finer[part] \in Seq(Text) /\ Short(old \o finer[part], bound)
    BY <1>3, <1>5, ConcatProperties, ShortConcat
  <2>3. new \in Gathers(bound, size)
    <3>1. <<>> \in Text /\ Len(<<>>) = 0
      BY EmptySeq DEF Text
    <3>2. /\ new \in [out : Seq(Text), buf : Text]
          /\ new.out = old \o finer[part] /\ new.buf = <<>>
      BY <2>1, <2>2, <3>1
    <3>3. Short(new.out, bound) /\ Len(new.buf) <= size
      BY <2>2, <3>1, <3>2
    <3> QED BY <3>2, <3>3 DEF Gathers
  <2>4. ASSUME NEW a \in Text, NEW s \in Text, Letters(s) = {}, Tells(a, old)
        PROVE  Tells(a \o s \o part, Flush(new.out, new.buf))
    <3>1. Tells(a \o s \o part, old \o finer[part])
      BY <1>3, <1>5, <2>4, Compose
    <3>2. Flush(new.out, new.buf) = old \o finer[part]
      BY <2>1 DEF Flush
    <3> QED BY <3>1, <3>2
  <2> QED BY <2>3, <2>4
<1> QED BY <1>6, <1>7, <1>8

(* All of the rounds: the pieces tell what the parts make. *)
LEMMA GatheredAre ==
    ASSUME NEW size \in Nat, NEW bound \in Nat, size <= bound, NEW sep \in Text, Letters(sep) = {},
           NEW finer, Level(finer, bound), NEW parts \in Seq(Text), NEW q, Joins(q, parts, sep)
    PROVE  LET end == Gathered(parts, size, sep, finer)
           IN  Cuts(q[Len(parts)], Flush(end.out, end.buf), bound)
<1> DEFINE n == Len(parts)
           A == Gathers(bound, size)
           first == [out |-> <<>>, buf |-> <<>>]
           end == Gathered(parts, size, sep, finer)
<1>1. n \in Nat /\ DOMAIN parts = 1..n /\ \A i \in 1..n : parts[i] \in Text
  OBVIOUS
<1>2. first \in A
  BY EmptySeq DEF Gathers, Short, Text
<1>3. \A acc \in A, i \in DOMAIN parts : Gather(acc, parts[i], size, sep, finer) \in A
  BY <1>1, GatherIs
<1> HIDE DEF A
<1> HIDE DEF n, first, end
<1>4. PICK p : /\ p[0] = first /\ p[n] = end
               /\ \A m \in 0..(n - 1) : p[m + 1] = Gather(p[m], parts[m + 1], size, sep, finer)
               /\ \A m \in 0..n : p[m] \in A
  <2>0. PICK g : g = Gathered(parts, size, sep, finer)
    OBVIOUS
  <2>1. [out |-> <<>>, buf |-> <<>>] \in A
    BY <1>2 DEF first
  <2>2. \E p : /\ p[0] = [out |-> <<>>, buf |-> <<>>] /\ p[Len(parts)] = Gathered(parts, size, sep, finer)
               /\ \A m \in 0..(Len(parts) - 1) : p[m + 1] = Gather(p[m], parts[m + 1], size, sep, finer)
               /\ \A m \in 0..Len(parts) : p[m] \in A
    BY <1>3, <2>0, <2>1, GatherSteps
  <2> QED BY <2>2 DEF n, first, end
<1> DEFINE T == {m \in Nat : m <= n => Tells(q[m], Flush(p[m].out, p[m].buf))}
<1>5. 0 \in T
  <2>1. q[0] = <<>> /\ Flush(p[0].out, p[0].buf) = Flush(<<>>, <<>>) /\ <<>> \in Text
    BY <1>4 DEF Joins, Text, first
  <2>2. Tells(q[0], Flush(p[0].out, p[0].buf))
    BY <2>1, TellsOne
  <2> QED BY <2>2
<1>6. ASSUME NEW m \in Nat, m \in T PROVE m + 1 \in T
  <2> SUFFICES ASSUME m + 1 <= n PROVE Tells(q[m + 1], Flush(p[m + 1].out, p[m + 1].buf))
    OBVIOUS
  <2> DEFINE s == Between(m, sep)
             part == parts[m + 1]
             acc == p[m]
  <2>1. m \in 0..(n - 1) /\ m \in 0..n /\ m + 1 \in 1..n /\ m <= n
    BY <1>1
  <2>2. p[m + 1] = Gather(acc, part, size, sep, finer) /\ acc \in Gathers(bound, size) /\ part \in Text
    BY <1>1, <1>4, <2>1 DEF A
  <2>3. q[m + 1] = q[m] \o s \o part /\ q[m] \in Text
    BY <2>1 DEF Joins, n
  <2>4. s \in Text /\ Letters(s) = {}
    <3>1. <<>> \in Text /\ Letters(<<>>) = {}
      BY DEF Text, Letters, Solid
    <3> QED BY <3>1 DEF Between
  <2>5. acc.buf # <<>> => s = sep
    <3>1. CASE m = 0
      BY <1>4, <3>1 DEF first
    <3>2. CASE m # 0
      BY <3>2 DEF Between
    <3> QED BY <3>1, <3>2
  <2>6. Tells(q[m], Flush(acc.out, acc.buf))
    BY <1>6, <2>1
  <2> HIDE DEF s, part, acc, T
  <2>7. LET new == Gather(acc, part, size, sep, finer)
        IN  Tells(q[m] \o s \o part, Flush(new.out, new.buf))
    BY <2>2, <2>3, <2>4, <2>5, <2>6, GatherIs
  <2> QED BY <2>2, <2>3, <2>7
<1> HIDE DEF T
<1>7. n \in T
  BY <1>1, <1>5, <1>6, AllNat
<1>8. Tells(q[n], Flush(end.out, end.buf))
  BY <1>1, <1>4, <1>7 DEF T
<1>9. end.out \in Seq(Text) /\ end.buf \in Text /\ Short(end.out, bound) /\ Len(end.buf) <= size
  <2>1. end \in A
    BY <1>1, <1>4
  <2> QED BY <2>1 DEF A, Gathers
<1>10. Len(end.buf) <= bound
  <2>1. Len(end.buf) \in Nat
    BY <1>9 DEF Text
  <2> QED BY <1>9, <2>1
<1>11. Flush(end.out, end.buf) \in Seq(Text) /\ Short(Flush(end.out, end.buf), bound)
  BY <1>9, <1>10, FlushIs
<1> QED BY <1>8, <1>11 DEF Cuts, end, n

(* The separators, from the last one to the first. *)
LEMMA SplitSteps ==
    ASSUME NEW size, NEW overlap,
           NEW A, SplitBy(<<>>, size, overlap, <<>>) \in A,
           \A a \in A, i \in DOMAIN Separators : SplitBy(Separators[i], size, overlap, a) \in A
    PROVE  \E p : /\ p[Len(Separators) + 1] = SplitBy(<<>>, size, overlap, <<>>) /\ p[1] = Split(size, overlap)
                  /\ \A m \in 0..(Len(Separators) - 1) : p[m + 1] = SplitBy(Separators[m + 1], size, overlap, p[m + 2])
                  /\ \A m \in 1..(Len(Separators) + 1) : p[m] \in A
<1> DEFINE n == Len(Separators)
           base == SplitBy(<<>>, size, overlap, <<>>)
           st == [a \in A |-> [i \in 1..n |-> SplitBy(Separators[i], size, overlap, a)]]
           Solves(f) == f = [s \in SUBSET (1..n) |->
                               IF s = {} THEN SplitBy(<<>>, size, overlap, <<>>)
                               ELSE SplitBy(Separators[Min(s)], size, overlap, f[s \ {Min(s)}])]
           h == CHOOSE f : Solves(f)
           p == [m \in 1..(n + 1) |-> h[m..n]]
<1>1. n \in Nat /\ DOMAIN Separators = 1..n
  BY SeparatorsAssumption
<1>2. st \in [A -> [1..n -> A]] /\ base \in A
  BY <1>1
<1>3. Split(size, overlap) = h[1..n]
  BY <1>1 DEF Split, SplitBy, FoldLeftDomain, FoldRight, MapThenFoldSet
<1> HIDE DEF n, st, base
<1>4. PICK f \in [SUBSET (1..n) -> A] : FoldRightOf(f, n, base, st)
  BY <1>1, <1>2, FoldRightExists, Zenon
<1>5. \A s \in SUBSET (1..n) :
         s # {} => Min(s) \in 1..n /\ s \ {Min(s)} \in SUBSET (1..n)
  BY <1>1, Upto
<1>6. ASSUME NEW s \in SUBSET (1..n)
      PROVE  f[s] = IF s = {} THEN SplitBy(<<>>, size, overlap, <<>>) ELSE SplitBy(Separators[Min(s)], size, overlap, f[s \ {Min(s)}])
  BY <1>1, <1>4, <1>5 DEF FoldRightOf, st, base
<1>7. Solves(f)
  BY <1>4, <1>6
<1>8. Solves(h)
  BY <1>7
<1> HIDE DEF h
<1>9. \A s \in SUBSET (1..n) :
         h[s] = IF s = {} THEN SplitBy(<<>>, size, overlap, <<>>) ELSE SplitBy(Separators[Min(s)], size, overlap, h[s \ {Min(s)}])
  BY <1>8, <1>1, <1>5
<1> HIDE DEF Solves
<1>10. h[{}] = SplitBy(<<>>, size, overlap, <<>>)
  BY <1>9
<1>11. p[n + 1] = SplitBy(<<>>, size, overlap, <<>>) /\ p[1] = h[1..n]
  <2>1. (n + 1)..n = {} /\ 1 \in 1..(n + 1) /\ n + 1 \in 1..(n + 1)
    BY <1>1
  <2> QED BY <1>10, <2>1
<1>12. ASSUME NEW m \in 0..(n - 1) PROVE p[m + 1] = SplitBy(Separators[m + 1], size, overlap, p[m + 2])
  <2> DEFINE s == (m + 1)..n
  <2>1. s \in SUBSET (1..n) /\ s # {} /\ Min(s) = m + 1 /\ s \ {m + 1} = (m + 2)..n
    BY <1>1, LastRound
  <2>2. p[m + 1] = h[s] /\ p[m + 2] = h[(m + 2)..n]
    BY <1>1
  <2> HIDE DEF s, p
  <2>3. h[s] = SplitBy(Separators[m + 1], size, overlap, h[(m + 2)..n])
    BY <1>9, <2>1
  <2> QED BY <2>2, <2>3
<1> HIDE DEF p
<1>13. ASSUME NEW m \in 0..(n - 1), p[m + 2] \in A PROVE p[m + 1] \in A
  <2>1. m + 1 \in DOMAIN Separators
    BY <1>1
  <2>2. SplitBy(Separators[m + 1], size, overlap, p[m + 2]) \in A
    BY <1>13, <2>1
  <2> QED BY <1>12, <2>2
<1>14. \A m \in 1..(n + 1) : p[m] \in A
  BY <1>1, <1>11, <1>13, Descend
<1> QED BY <1>3, <1>11, <1>12, <1>14 DEF n

(* What each of them may add. *)
LEMMA AddedSteps ==
    ASSUME NEW overlap,
           NEW A, 0 \in A,
           \A a \in A, i \in DOMAIN Separators : a + AddedBy(Separators[i], overlap) \in A
    PROVE  \E p : /\ p[0] = 0 /\ p[Len(Separators)] = Added(overlap)
                  /\ \A m \in 0..(Len(Separators) - 1) : p[m + 1] = p[m] + AddedBy(Separators[m + 1], overlap)
                  /\ \A m \in 0..Len(Separators) : p[m] \in A
<1> DEFINE n == Len(Separators)
           base == 0
           st == [a \in A |-> [i \in 1..n |-> a + AddedBy(Separators[i], overlap)]]
           Solves(f) == f = [s \in SUBSET (1..n) |->
                               IF s = {} THEN 0
                               ELSE f[s \ {Max(s)}] + AddedBy(Separators[Max(s)], overlap)]
           h == CHOOSE f : Solves(f)
           p == [m \in 0..n |-> h[1..m]]
<1>1. n \in Nat /\ DOMAIN Separators = 1..n
  BY SeparatorsAssumption
<1>2. st \in [A -> [1..n -> A]] /\ base \in A
  BY <1>1
<1>3. Added(overlap) = h[1..n]
  BY <1>1 DEF Added, AddedBy, FoldLeftDomain, FoldLeft, MapThenFoldSet
<1> HIDE DEF n, st, base
<1>4. PICK f \in [SUBSET (1..n) -> A] : FoldLeftOf(f, n, base, st)
  BY <1>1, <1>2, FoldLeftExists, Zenon
<1>5. \A s \in SUBSET (1..n) :
         s # {} => Max(s) \in 1..n /\ s \ {Max(s)} \in SUBSET (1..n)
  BY <1>1, Upto
<1>6. ASSUME NEW s \in SUBSET (1..n)
      PROVE  f[s] = IF s = {} THEN 0 ELSE f[s \ {Max(s)}] + AddedBy(Separators[Max(s)], overlap)
  BY <1>1, <1>4, <1>5 DEF FoldLeftOf, st, base
<1>7. Solves(f)
  BY <1>4, <1>6
<1>8. Solves(h)
  BY <1>7
<1> HIDE DEF h
<1>9. \A s \in SUBSET (1..n) :
         h[s] = IF s = {} THEN 0 ELSE h[s \ {Max(s)}] + AddedBy(Separators[Max(s)], overlap)
  BY <1>8, <1>1, <1>5
<1> HIDE DEF Solves
<1>10. h[{}] = 0
  BY <1>9
<1>11. p[0] = 0 /\ p[n] = h[1..n]
  <2>1. 1..0 = {} /\ 0 \in 0..n /\ n \in 0..n
    BY <1>1
  <2> QED BY <1>10, <2>1
<1>12. ASSUME NEW m \in 0..(n - 1) PROVE p[m + 1] = p[m] + AddedBy(Separators[m + 1], overlap)
  <2> DEFINE s == 1..(m + 1)
  <2>1. s \in SUBSET (1..n) /\ s # {} /\ Max(s) = m + 1 /\ s \ {m + 1} = 1..m
    BY <1>1, LastRound
  <2>2. p[m + 1] = h[s] /\ p[m] = h[1..m]
    BY <1>1
  <2> HIDE DEF s, p
  <2>3. h[s] = h[1..m] + AddedBy(Separators[m + 1], overlap)
    BY <1>9, <2>1
  <2> QED BY <2>2, <2>3
<1> HIDE DEF p
<1>13. ASSUME NEW m \in 0..(n - 1), p[m] \in A PROVE p[m + 1] \in A
  <2>1. m + 1 \in DOMAIN Separators
    BY <1>1
  <2>2. p[m] + AddedBy(Separators[m + 1], overlap) \in A
    BY <1>13, <2>1
  <2> QED BY <1>12, <2>2
<1>14. \A m \in 0..n : p[m] \in A
  BY <1>1, <1>11, <1>13, Climb
<1> QED BY <1>3, <1>11, <1>12, <1>14 DEF n

LEMMA ShortMore ==
    ASSUME NEW ps \in Seq(Text), NEW a \in Nat, NEW b \in Nat, a <= b, Short(ps, a)
    PROVE  Short(ps, b)
<1> SUFFICES ASSUME NEW k \in DOMAIN ps PROVE Len(ps[k]) <= b
  BY DEF Short
<1>1. ps[k] \in Text
  OBVIOUS
<1>2. Len(ps[k]) \in Nat
  BY <1>1 DEF Text
<1>3. Len(ps[k]) <= a
  BY DEF Short
<1> HIDE DEF Short
<1> QED BY <1>2, <1>3

LEMMA AddedByIs ==
    ASSUME NEW sep \in Text, NEW overlap \in Nat
    PROVE  AddedBy(sep, overlap) \in Nat
BY DEF AddedBy, Text

(* One separator: what is too long is split, gathered and stitched. *)
LEMMA PiecesAre ==
    ASSUME NEW text \in Text, NEW size \in Nat \ {0}, NEW overlap \in Nat,
           NEW sep \in Text, Letters(sep) = {}, NEW bound \in Nat, size <= bound,
           NEW finer, sep # <<>> => Level(finer, bound)
    PROVE  Cuts(text, Pieces(text, size, overlap, sep, finer), bound + AddedBy(sep, overlap))
<1> DEFINE ps == Pieces(text, size, overlap, sep, finer)
           limit == bound + AddedBy(sep, overlap)
<1>1. limit \in Nat /\ size <= limit
  <2> DEFINE d == AddedBy(sep, overlap)
  <2>1. d \in Nat
    BY AddedByIs
  <2> HIDE DEF d
  <2>2. bound + d \in Nat /\ size <= bound + d
    BY <2>1
  <2> QED BY <2>2 DEF d
<1>2. CASE Len(text) <= size
  <2>1. ps = <<text>>
    BY <1>2 DEF Pieces
  <2>2. Tells(text, <<text>>)
    BY TellsOne
  <2>3. <<text>> \in Seq(Text) /\ DOMAIN <<text>> = {1} /\ <<text>>[1] = text
    OBVIOUS
  <2>4. Len(text) <= limit
    <3>1. Len(text) \in Nat
      BY DEF Text
    <3> HIDE DEF limit
    <3> QED BY <1>1, <1>2, <3>1
  <2> HIDE DEF ps, limit
  <2>5. Short(<<text>>, limit)
    BY <2>3, <2>4 DEF Short
  <2> QED BY <2>1, <2>2, <2>3, <2>5 DEF Cuts, ps, limit
<1>3. CASE ~(Len(text) <= size) /\ sep = <<>>
  <2>1. ps = Windows(text, size, overlap)
    BY <1>3 DEF Pieces
  <2>2. Cuts(text, Windows(text, size, overlap), size)
    BY WindowsAre
  <2> HIDE DEF ps, limit
  <2>3. ps \in Seq(Text) /\ Tells(text, ps) /\ Short(ps, size)
    BY <2>1, <2>2 DEF Cuts
  <2>4. Short(ps, limit)
    BY <1>1, <2>3, ShortMore
  <2> QED BY <2>3, <2>4 DEF Cuts, ps, limit
<1>4. CASE ~(Len(text) <= size) /\ sep # <<>>
  <2> DEFINE parts == SplitAt(sep, text)
             end == Gathered(parts, size, sep, finer)
             out == Flush(end.out, end.buf)
  <2>1. ps = Stitch(out, overlap, sep)
    BY <1>4 DEF Pieces
  <2>2. parts \in Seq(Text) /\ \E q : Joins(q, parts, sep) /\ q[Len(parts)] = text
    BY <1>4, SplitIs
  <2> HIDE DEF parts
  <2>3. PICK q : Joins(q, parts, sep) /\ q[Len(parts)] = text
    BY <2>2
  <2>4. Cuts(q[Len(parts)], out, bound)
    BY <1>4, <2>2, <2>3, GatheredAre
  <2> HIDE DEF end, out
  <2>5. Cuts(text, Stitch(out, overlap, sep), bound + overlap + Len(sep))
    BY <2>3, <2>4, StitchIs
  <2>6. bound + overlap + Len(sep) = limit
    <3>1. Len(sep) \in Nat
      BY DEF Text
    <3>2. AddedBy(sep, overlap) = overlap + Len(sep)
      BY <1>4 DEF AddedBy
    <3> QED BY <3>1, <3>2
  <2> QED BY <2>1, <2>5, <2>6
<1> QED BY <1>2, <1>3, <1>4

LEMMA SplitByIs ==
    ASSUME NEW size \in Nat \ {0}, NEW overlap \in Nat,
           NEW sep \in Text, Letters(sep) = {}, NEW bound \in Nat, size <= bound,
           NEW finer, sep # <<>> => Level(finer, bound)
    PROVE  Level(SplitBy(sep, size, overlap, finer), bound + AddedBy(sep, overlap))
<1> DEFINE limit == bound + AddedBy(sep, overlap)
<1>1. \A text \in Text : Cuts(text, Pieces(text, size, overlap, sep, finer), limit)
  BY PiecesAre
<1>2. SplitBy(sep, size, overlap, finer) = [text \in Text |-> Pieces(text, size, overlap, sep, finer)]
  BY DEF SplitBy, Text
<1> HIDE DEF limit
<1>3. \A text \in Text : Pieces(text, size, overlap, sep, finer) \in Seq(Text)
  BY <1>1 DEF Cuts
<1>4. Level(SplitBy(sep, size, overlap, finer), limit)
  BY <1>1, <1>2, <1>3 DEF Level
<1> QED BY <1>4 DEF limit

LEMMA SeparatorsAre ==
    ASSUME NEW i \in DOMAIN Separators
    PROVE  Separators[i] \in Text /\ Letters(Separators[i]) = {}
<1>1. Separators[i] \in Text /\ Separators[i] \in ToSet(Separators)
  BY SeparatorsAssumption DEF Text, ToSet
<1>2. \A x : ~(x \in Letters(Separators[i]))
  BY <1>1, LettersAre DEF IsLetter
<1> QED BY <1>1, <1>2

(* All of them: no piece is longer than chunk_size and what the separators
   may add, each of them once. *)
LEMMA SplitTexts ==
    ASSUME NEW size \in Nat \ {0}, NEW overlap \in Nat
    PROVE  Added(overlap) \in Nat /\ Level(Split(size, overlap), size + Added(overlap))
<1> DEFINE n == Len(Separators)
           A == {f \in [Text -> Seq(Text)] : \E b \in Nat : size <= b /\ Level(f, b)}
           base == SplitBy(<<>>, size, overlap, <<>>)
<1>1. n \in Nat /\ DOMAIN Separators = 1..n
  BY SeparatorsAssumption
<1>2. Level(base, size)
  <2>1. <<>> \in Text /\ Letters(<<>>) = {} /\ AddedBy(<<>>, overlap) = 0
    BY DEF Text, Letters, Solid, AddedBy
  <2>2. Level(base, size + AddedBy(<<>>, overlap))
    BY <2>1, SplitByIs
  <2>3. size + 0 = size
    OBVIOUS
  <2> QED BY <2>1, <2>2, <2>3
<1>3. ASSUME NEW f, NEW b \in Nat, size <= b, Level(f, b), NEW i \in DOMAIN Separators
      PROVE  /\ AddedBy(Separators[i], overlap) \in Nat
             /\ Level(SplitBy(Separators[i], size, overlap, f), b + AddedBy(Separators[i], overlap))
  BY <1>3, SeparatorsAre, AddedByIs, SplitByIs
<1>4. base \in A
  BY <1>2 DEF Level
<1>5. ASSUME NEW a \in A, NEW i \in DOMAIN Separators
      PROVE  SplitBy(Separators[i], size, overlap, a) \in A
  <2>1. PICK b \in Nat : size <= b /\ Level(a, b)
    OBVIOUS
  <2> DEFINE c == b + AddedBy(Separators[i], overlap)
             f == SplitBy(Separators[i], size, overlap, a)
  <2>2. AddedBy(Separators[i], overlap) \in Nat /\ Level(f, c)
    BY <1>3, <2>1
  <2>3. c \in Nat /\ size <= c
    BY <2>1, <2>2
  <2> HIDE DEF c, f
  <2>4. f \in A
    BY <2>2, <2>3 DEF Level
  <2> QED BY <2>4 DEF f
<1> HIDE DEF A
<1>6. PICK p : /\ p[n + 1] = base /\ p[1] = Split(size, overlap)
               /\ \A m \in 0..(n - 1) : p[m + 1] = SplitBy(Separators[m + 1], size, overlap, p[m + 2])
  <2>1. PICK g : g = Split(size, overlap)
    OBVIOUS
  <2> QED BY <1>4, <1>5, <2>1, SplitSteps
<1>7. PICK q : /\ q[0] = 0 /\ q[n] = Added(overlap)
               /\ \A m \in 0..(n - 1) : q[m + 1] = q[m] + AddedBy(Separators[m + 1], overlap)
               /\ \A m \in 0..n : q[m] \in Nat
  <2>1. PICK g : g = Added(overlap)
    OBVIOUS
  <2>2. 0 \in Nat /\ \A a \in Nat, i \in DOMAIN Separators : a + AddedBy(Separators[i], overlap) \in Nat
    BY SeparatorsAre, AddedByIs
  <2> QED BY <2>1, <2>2, AddedSteps
<1> HIDE DEF n, base
<1> DEFINE Good(m) == \E b \in Nat : size <= b /\ Level(p[m], b) /\ b + q[m - 1] = size + q[n]
           T == {k \in Nat : k <= n => Good(n + 1 - k)}
<1>8. 0 \in T
  <2>1. (n + 1) - 0 = n + 1 /\ (n + 1) - 1 = n
    BY <1>1
  <2>2. Good(n + 1)
    BY <1>2, <1>6, <2>1
  <2> HIDE DEF Good
  <2> QED BY <2>1, <2>2
<1>9. ASSUME NEW k \in Nat, k \in T PROVE k + 1 \in T
  <2> SUFFICES ASSUME k + 1 <= n PROVE Good(n - k)
    <3>1. n + 1 - (k + 1) = n - k
      BY <1>1
    <3> HIDE DEF Good
    <3> QED BY <3>1
  <2> DEFINE m == n - k - 1
  <2>1. /\ m \in 0..(n - 1) /\ m + 1 = n - k /\ m + 2 = n + 1 - k /\ m + 1 \in 1..n
        /\ m \in 0..n /\ m + 1 \in 0..n /\ (m + 1) - 1 = m /\ (m + 2) - 1 = m + 1
    BY <1>1
  <2>2. Good(m + 2)
    <3>1. k <= n
      BY <1>1
    <3> HIDE DEF Good
    <3>2. Good(n + 1 - k)
      BY <1>9, <3>1 DEF T
    <3> QED BY <2>1, <3>2
  <2> HIDE DEF m, T
  <2>3. PICK b \in Nat : size <= b /\ Level(p[m + 2], b) /\ b + q[m + 1] = size + q[n]
    BY <2>1, <2>2
  <2> DEFINE d == AddedBy(Separators[m + 1], overlap)
             c == b + d
  <2>4. d \in Nat /\ Level(p[m + 1], c)
    BY <1>1, <1>3, <1>6, <2>1, <2>3
  <2>5. q[m + 1] = q[m] + d /\ q[m] \in Nat /\ q[n] \in Nat
    BY <1>1, <1>7, <2>1
  <2> HIDE DEF d
  <2>6. c \in Nat /\ size <= c /\ c + q[m] = size + q[n]
    BY <2>3, <2>4, <2>5
  <2> HIDE DEF c
  <2>7. Good(m + 1)
    BY <2>1, <2>4, <2>6
  <2> HIDE DEF Good
  <2> QED BY <2>1, <2>7
<1> HIDE DEF T
<1>10. n \in T
  BY <1>1, <1>8, <1>9, AllNat
<1>11. Good(1)
  <2>1. n <= n /\ n + 1 - n = 1
    BY <1>1
  <2> HIDE DEF Good
  <2> QED BY <1>10, <2>1 DEF T
<1>12. PICK b \in Nat : Level(p[1], b) /\ b + q[1 - 1] = size + q[n]
  BY <1>11
<1>13. b = size + Added(overlap) /\ Added(overlap) \in Nat
  <2>1. 1 - 1 = 0 /\ n \in 0..n
    BY <1>1
  <2> QED BY <1>7, <1>12, <2>1
<1> QED BY <1>6, <1>12, <1>13

(* The pages, one after the other. *)
PagesKeep(A, pages, size, overlap) ==
    /\ <<>> \in A
    /\ \A a \in A, i \in DOMAIN pages : a \o ChunksOf(i, pages[i], size, overlap) \in A
PagesRun(p, A, pages, size, overlap) ==
    /\ p[0] = <<>> /\ p[Len(pages)] = ChunkPages(pages, size, overlap)
    /\ \A m \in 0..(Len(pages) - 1) : p[m + 1] = p[m] \o ChunksOf(m + 1, pages[m + 1], size, overlap)
    /\ \A m \in 0..Len(pages) : p[m] \in A

LEMMA PageSteps ==
    ASSUME NEW pages \in Seq(Text), NEW size, NEW overlap,
           NEW A, PagesKeep(A, pages, size, overlap)
    PROVE  \E p : PagesRun(p, A, pages, size, overlap)
<1> DEFINE n == Len(pages)
           base == <<>>
           st == [a \in A |-> [i \in 1..n |-> a \o ChunksOf(i, pages[i], size, overlap)]]
           Solves(f) == f = [s \in SUBSET (1..n) |->
                               IF s = {} THEN <<>>
                               ELSE f[s \ {Max(s)}] \o ChunksOf([i \in DOMAIN pages |-> i][Max(s)], pages[[i \in DOMAIN pages |-> i][Max(s)]], size, overlap)]
           h == CHOOSE f : Solves(f)
           p == [m \in 0..n |-> h[1..m]]
<1>1. n \in Nat /\ DOMAIN pages = 1..n
  OBVIOUS
<1>2. st \in [A -> [1..n -> A]] /\ base \in A
  BY <1>1 DEF PagesKeep
<1>3. ChunkPages(pages, size, overlap) = h[1..n]
  BY <1>1 DEF ChunkPages, ChunksOf, FoldLeftDomain, FoldLeft, MapThenFoldSet
<1> HIDE DEF n, st, base
<1>4. PICK f \in [SUBSET (1..n) -> A] : FoldLeftOf(f, n, base, st)
  BY <1>1, <1>2, FoldLeftExists, Zenon
<1>5. \A s \in SUBSET (1..n) :
         s # {} => Max(s) \in 1..n /\ s \ {Max(s)} \in SUBSET (1..n)
  BY <1>1, Upto
<1>6. ASSUME NEW s \in SUBSET (1..n)
      PROVE  f[s] = IF s = {} THEN <<>> ELSE f[s \ {Max(s)}] \o ChunksOf([i \in DOMAIN pages |-> i][Max(s)], pages[[i \in DOMAIN pages |-> i][Max(s)]], size, overlap)
  BY <1>1, <1>4, <1>5 DEF FoldLeftOf, st, base
<1>7. Solves(f)
  BY <1>4, <1>6
<1>8. Solves(h)
  BY <1>7
<1> HIDE DEF h
<1>9. \A s \in SUBSET (1..n) :
         h[s] = IF s = {} THEN <<>> ELSE h[s \ {Max(s)}] \o ChunksOf(Max(s), pages[Max(s)], size, overlap)
  BY <1>8, <1>1, <1>5
<1> HIDE DEF Solves
<1>10. h[{}] = <<>>
  BY <1>9
<1>11. p[0] = <<>> /\ p[n] = h[1..n]
  <2>1. 1..0 = {} /\ 0 \in 0..n /\ n \in 0..n
    BY <1>1
  <2> QED BY <1>10, <2>1
<1>12. ASSUME NEW m \in 0..(n - 1) PROVE p[m + 1] = p[m] \o ChunksOf(m + 1, pages[m + 1], size, overlap)
  <2> DEFINE s == 1..(m + 1)
  <2>1. s \in SUBSET (1..n) /\ s # {} /\ Max(s) = m + 1 /\ s \ {m + 1} = 1..m
    BY <1>1, LastRound
  <2>2. p[m + 1] = h[s] /\ p[m] = h[1..m]
    BY <1>1
  <2> HIDE DEF s, p
  <2>3. h[s] = h[1..m] \o ChunksOf(m + 1, pages[m + 1], size, overlap)
    BY <1>9, <2>1
  <2> QED BY <2>2, <2>3
<1> HIDE DEF p
<1>13. ASSUME NEW m \in 0..(n - 1), p[m] \in A PROVE p[m + 1] \in A
  <2>1. m + 1 \in DOMAIN pages
    BY <1>1
  <2>2. p[m] \o ChunksOf(m + 1, pages[m + 1], size, overlap) \in A
    BY <1>13, <2>1 DEF PagesKeep
  <2> QED BY <1>12, <2>2
<1>14. \A m \in 0..n : p[m] \in A
  <2>1. p[0] \in A
    BY <1>11 DEF PagesKeep
  <2> QED BY <1>1, <1>13, <2>1, Climb
<1> QED BY <1>3, <1>11, <1>12, <1>14 DEF n, PagesRun

(* The chunks of a document tell a page when those of the page tell its text. *)
Chunk == [page : Nat, text : Text]
PageHas(p, cs, k, x) == cs[k].page = p /\ x \in Letters(cs[k].text)
PageTells(p, text, cs) ==
    /\ \A x \in Letters(text) : \E k \in DOMAIN cs : PageHas(p, cs, k, x)
    /\ Apart(text) =>
          \A x, y : Before(text, x, y) =>
             \A k \in DOMAIN cs : PageHas(p, cs, k, y) => \E h \in 1..k : PageHas(p, cs, h, x)

LEMMA ChunksOfAre ==
    ASSUME NEW size \in Nat \ {0}, NEW overlap \in Nat, NEW p \in Nat, NEW text \in Text
    PROVE  LET cs == ChunksOf(p, text, size, overlap)
           IN  /\ cs \in Seq(Chunk) /\ PageTells(p, text, cs)
               /\ \A k \in DOMAIN cs : cs[k].page = p /\ Len(cs[k].text) <= size + Added(overlap)
<1> DEFINE cs == ChunksOf(p, text, size, overlap)
           bound == size + Added(overlap)
<1>1. CASE IsBlank(text)
  <2>1. cs = <<>>
    BY <1>1 DEF ChunksOf
  <2>2. \A x : ~(x \in Letters(text))
    BY <1>1 DEF IsBlank, Letters, Solid, Text
  <2>3. \A x, y : ~Before(text, x, y)
    BY <2>2, BeforeAre
  <2>4. DOMAIN <<>> = {} /\ <<>> \in Seq(Chunk)
    OBVIOUS
  <2>5. PageTells(p, text, <<>>)
    BY <2>2, <2>3 DEF PageTells
  <2> QED BY <2>1, <2>4, <2>5
<1>2. CASE ~IsBlank(text)
  <2> DEFINE ps == Split(size, overlap)[text]
             n == Len(ps)
  <2>1. cs = [k \in DOMAIN ps |-> [page |-> p, text |-> Strip(ps[k])]]
    BY <1>2 DEF ChunksOf
  <2>2. Cuts(text, ps, bound) /\ Added(overlap) \in Nat
    BY SplitTexts DEF Level
  <2> HIDE DEF ps, cs
  <2>3. ps \in Seq(Text) /\ n \in Nat /\ DOMAIN ps = 1..n /\ Tells(text, ps) /\ Short(ps, bound)
    BY <2>2 DEF Cuts
  <2> HIDE DEF n, bound
  <2>4. ASSUME NEW k \in 1..n
        PROVE  /\ cs[k] \in Chunk /\ cs[k].page = p /\ Len(cs[k].text) <= bound
               /\ \A x : x \in Letters(cs[k].text) <=> x \in Letters(ps[k])
    <3>1. cs[k] = [page |-> p, text |-> Strip(ps[k])]
      BY <2>1, <2>3
    <3>2. ps[k] \in Text /\ Len(ps[k]) <= bound
      BY <2>3 DEF Short
    <3>3. /\ Strip(ps[k]) \in Text /\ Len(Strip(ps[k])) <= Len(ps[k])
          /\ \A x : x \in Letters(Strip(ps[k])) <=> x \in Letters(ps[k])
      BY <3>2, StripIs
    <3>4. Len(Strip(ps[k])) <= bound
      <4>1. Len(Strip(ps[k])) \in Nat /\ Len(ps[k]) \in Nat /\ bound \in Nat
        BY <2>2, <3>2, <3>3 DEF Text, bound
      <4> QED BY <3>2, <3>3, <4>1
    <3> QED BY <3>1, <3>3, <3>4 DEF Chunk
  <2>5. cs \in Seq(Chunk) /\ DOMAIN cs = 1..n
    <3>1. DOMAIN cs = 1..n
      BY <2>1, <2>3
    <3>2. cs \in [1..n -> Chunk]
      BY <2>1, <2>3, <2>4
    <3> QED BY <2>3, <3>1, <3>2, SeqDef
  <2>6. ASSUME NEW x \in Letters(text) PROVE \E k \in DOMAIN cs : PageHas(p, cs, k, x)
    <3>1. PICK k \in 1..n : x \in Letters(ps[k])
      BY <2>3 DEF Tells
    <3> QED BY <2>4, <2>5, <3>1 DEF PageHas
  <2>7. ASSUME Apart(text), NEW x, NEW y, Before(text, x, y), NEW k \in DOMAIN cs, PageHas(p, cs, k, y)
        PROVE  \E h \in 1..k : PageHas(p, cs, h, x)
    <3>1. k \in 1..n /\ y \in Letters(ps[k])
      BY <2>4, <2>5, <2>7 DEF PageHas
    <3>2. Ordered(text, ps)
      BY <2>3, <2>7 DEF Tells
    <3>3. PICK h \in 1..k : x \in Letters(ps[h])
      BY <2>3, <2>7, <3>1, <3>2 DEF Ordered
    <3>4. h \in 1..n
      BY <2>3, <3>1
    <3> QED BY <2>4, <3>3, <3>4 DEF PageHas
  <2>8. PageTells(p, text, cs)
    BY <2>6, <2>7 DEF PageTells
  <2> QED BY <2>4, <2>5, <2>8 DEF cs, bound
<1> QED BY <1>1, <1>2

(* Chunks of other pages, in front or behind, change nothing. *)
LEMMA PagesConcat ==
    ASSUME NEW cs \in Seq(Chunk), NEW ds \in Seq(Chunk), NEW p, NEW text,
           \/ PageTells(p, text, cs) /\ \A k \in DOMAIN ds : ds[k].page # p
           \/ PageTells(p, text, ds) /\ \A k \in DOMAIN cs : cs[k].page # p
    PROVE  PageTells(p, text, cs \o ds)
<1> DEFINE n == Len(cs)
           es == cs \o ds
<1>1. /\ n \in Nat /\ Len(ds) \in Nat /\ DOMAIN cs = 1..n /\ DOMAIN ds = 1..Len(ds)
      /\ DOMAIN es = 1..(n + Len(ds))
      /\ \A k \in 1..n : es[k] = cs[k]
      /\ \A k \in (n + 1)..(n + Len(ds)) : es[k] = ds[k - n]
  BY ConcatProperties
<1> HIDE DEF n, es
<1>2. \A j \in 1..Len(ds) : n + j \in (n + 1)..(n + Len(ds)) /\ (n + j) - n = j
                            /\ n + j \in 1..(n + Len(ds))
  BY <1>1
<1>3. \A j \in 1..Len(ds) : es[n + j] = ds[j]
  BY <1>1, <1>2
<1>4. \A k \in 1..(n + Len(ds)) : k \in 1..n \/ \E j \in 1..Len(ds) : k = n + j
  <2> SUFFICES ASSUME NEW k \in 1..(n + Len(ds)), k \notin 1..n
               PROVE  \E j \in 1..Len(ds) : k = n + j
    OBVIOUS
  <2>1. k - n \in 1..Len(ds) /\ k = n + (k - n)
    BY <1>1
  <2> QED BY <2>1
<1>5. /\ \A x : \A k \in 1..n : PageHas(p, es, k, x) <=> PageHas(p, cs, k, x)
      /\ \A x : \A j \in 1..Len(ds) : PageHas(p, es, n + j, x) <=> PageHas(p, ds, j, x)
  BY <1>1, <1>3 DEF PageHas
<1>6. ASSUME PageTells(p, text, cs) /\ \A k \in DOMAIN ds : ds[k].page # p
      PROVE  PageTells(p, text, es)
  <2>1. \A x : \A k \in DOMAIN es : PageHas(p, es, k, x) => k \in 1..n
    BY <1>1, <1>4, <1>5, <1>6 DEF PageHas
  <2>2. ASSUME NEW x \in Letters(text) PROVE \E k \in DOMAIN es : PageHas(p, es, k, x)
    <3>1. PICK k \in 1..n : PageHas(p, cs, k, x)
      BY <1>1, <1>6 DEF PageTells
    <3>2. k \in DOMAIN es
      BY <1>1
    <3> QED BY <1>5, <3>1, <3>2
  <2>3. ASSUME Apart(text), NEW x, NEW y, Before(text, x, y), NEW k \in DOMAIN es, PageHas(p, es, k, y)
        PROVE  \E h \in 1..k : PageHas(p, es, h, x)
    <3>1. k \in 1..n /\ PageHas(p, cs, k, y)
      BY <1>5, <2>1, <2>3
    <3>2. PICK h \in 1..k : PageHas(p, cs, h, x)
      BY <1>1, <1>6, <2>3, <3>1 DEF PageTells
    <3>3. h \in 1..n
      BY <1>1, <3>1
    <3> QED BY <1>5, <3>2, <3>3
  <2> QED BY <2>2, <2>3 DEF PageTells
<1>7. ASSUME PageTells(p, text, ds) /\ \A k \in DOMAIN cs : cs[k].page # p
      PROVE  PageTells(p, text, es)
  <2>1. \A x : \A k \in 1..n : ~PageHas(p, es, k, x)
    BY <1>1, <1>5, <1>7 DEF PageHas
  <2>2. ASSUME NEW x \in Letters(text) PROVE \E k \in DOMAIN es : PageHas(p, es, k, x)
    <3>1. PICK j \in 1..Len(ds) : PageHas(p, ds, j, x)
      BY <1>1, <1>7 DEF PageTells
    <3>2. n + j \in DOMAIN es
      BY <1>1, <1>2
    <3> QED BY <1>5, <3>1, <3>2
  <2>3. ASSUME Apart(text), NEW x, NEW y, Before(text, x, y), NEW k \in DOMAIN es, PageHas(p, es, k, y)
        PROVE  \E h \in 1..k : PageHas(p, es, h, x)
    <3>1. PICK j \in 1..Len(ds) : k = n + j
      BY <1>1, <1>4, <2>1, <2>3
    <3>2. PageHas(p, ds, j, y)
      BY <1>5, <2>3, <3>1
    <3>3. PICK h \in 1..j : PageHas(p, ds, h, x)
      BY <1>1, <1>7, <2>3, <3>2 DEF PageTells
    <3>4. h \in 1..Len(ds) /\ n + h \in 1..k
      BY <1>1, <3>1
    <3>5. PageHas(p, es, n + h, x)
      BY <1>5, <3>3, <3>4
    <3> QED BY <3>4, <3>5
  <2> QED BY <2>2, <2>3 DEF PageTells
<1>8. PageTells(p, text, es)
  BY <1>6, <1>7
<1> QED BY <1>8 DEF es

(* The chunks of a document tell every page of it. *)
LEMMA ChunkPagesAre ==
    ASSUME NEW pages \in Seq(Text), NEW size \in Nat \ {0}, NEW overlap \in Nat
    PROVE  LET cs == ChunkPages(pages, size, overlap)
           IN  /\ cs \in Seq(Chunk) /\ \A p \in DOMAIN pages : PageTells(p, pages[p], cs)
               /\ \A k \in DOMAIN cs : Len(cs[k].text) <= size + Added(overlap)
<1> DEFINE n == Len(pages)
           A == Seq(Chunk)
           end == ChunkPages(pages, size, overlap)
           new(p) == ChunksOf(p, pages[p], size, overlap)
           bound == size + Added(overlap)
<1>1. n \in Nat /\ DOMAIN pages = 1..n /\ \A p \in 1..n : pages[p] \in Text /\ p \in Nat
  OBVIOUS
<1>2. ASSUME NEW p \in 1..n
      PROVE  /\ new(p) \in Seq(Chunk) /\ PageTells(p, pages[p], new(p))
             /\ \A k \in DOMAIN new(p) : new(p)[k].page = p /\ Len(new(p)[k].text) <= bound
  BY <1>1, ChunksOfAre
<1>3. <<>> \in A /\ \A a \in A, i \in DOMAIN pages : a \o ChunksOf(i, pages[i], size, overlap) \in A
  BY <1>1, <1>2, ConcatProperties
<1> HIDE DEF A, end, bound
<1>4. PICK q : /\ q[0] = <<>> /\ q[n] = end
               /\ \A m \in 0..(n - 1) : q[m + 1] = q[m] \o new(m + 1)
               /\ \A m \in 0..n : q[m] \in A
  <2>1. PagesKeep(A, pages, size, overlap)
    BY <1>3 DEF PagesKeep
  <2>2. \E q : PagesRun(q, A, pages, size, overlap)
    BY <2>1, PageSteps, Zenon
  <2> QED BY <2>2 DEF PagesRun, end
<1> HIDE DEF n, new
<1> DEFINE Good(m) == /\ \A k \in DOMAIN q[m] : q[m][k].page \in 1..m /\ Len(q[m][k].text) <= bound
                      /\ \A p \in 1..m : PageTells(p, pages[p], q[m])
           T == {m \in Nat : m <= n => Good(m)}
<1>5. 0 \in T
  <2>1. DOMAIN q[0] = {} /\ 1..0 = {}
    BY <1>4
  <2>2. Good(0)
    BY <2>1
  <2> HIDE DEF Good
  <2> QED BY <2>2
<1>6. ASSUME NEW m \in Nat, m \in T PROVE m + 1 \in T
  <2> SUFFICES ASSUME m + 1 <= n PROVE Good(m + 1)
    <3> HIDE DEF Good
    <3> QED OBVIOUS
  <2> DEFINE cs == q[m]
             ds == new(m + 1)
             es == q[m + 1]
  <2>1. m \in 0..(n - 1) /\ m \in 0..n /\ m + 1 \in 1..n /\ m <= n
    BY <1>1
  <2>2. Good(m)
    <3> HIDE DEF Good
    <3> QED BY <1>6, <2>1
  <2>3. es = cs \o ds /\ cs \in Seq(Chunk) /\ ds \in Seq(Chunk)
    BY <1>2, <1>4, <2>1 DEF A
  <2>4. /\ \A k \in DOMAIN cs : cs[k].page \in 1..m /\ Len(cs[k].text) <= bound
        /\ \A p \in 1..m : PageTells(p, pages[p], cs)
    BY <2>2
  <2>5. /\ \A k \in DOMAIN ds : ds[k].page = m + 1 /\ Len(ds[k].text) <= bound
        /\ PageTells(m + 1, pages[m + 1], ds)
    BY <1>2, <2>1
  <2> HIDE DEF cs, ds, T
  <2>6. \A k \in DOMAIN es : (k \in DOMAIN cs /\ es[k] = cs[k])
                             \/ (k - Len(cs) \in DOMAIN ds /\ es[k] = ds[k - Len(cs)])
    <3>1. /\ Len(cs) \in Nat /\ Len(ds) \in Nat /\ DOMAIN cs = 1..Len(cs) /\ DOMAIN ds = 1..Len(ds)
          /\ Len(cs \o ds) = Len(cs) + Len(ds) /\ cs \o ds \in Seq(Chunk)
          /\ \A k \in 1..(Len(cs) + Len(ds)) :
                (cs \o ds)[k] = IF k <= Len(cs) THEN cs[k] ELSE ds[k - Len(cs)]
      BY <2>3, ConcatProperties
    <3>2. DOMAIN es = 1..(Len(cs) + Len(ds))
      BY <2>3, <3>1
    <3> HIDE DEF es
    <3> SUFFICES ASSUME NEW k \in 1..(Len(cs) + Len(ds))
                 PROVE  (k \in DOMAIN cs /\ es[k] = cs[k])
                        \/ (k - Len(cs) \in DOMAIN ds /\ es[k] = ds[k - Len(cs)])
      BY <3>2
    <3>3. CASE k <= Len(cs)
      BY <2>3, <3>1, <3>3
    <3>4. CASE ~(k <= Len(cs))
      BY <2>3, <3>1, <3>4
    <3> QED BY <3>3, <3>4
  <2> HIDE DEF es
  <2>7. \A k \in DOMAIN es : es[k].page \in 1..(m + 1) /\ Len(es[k].text) <= bound
    <3> SUFFICES ASSUME NEW k \in DOMAIN es
                 PROVE  es[k].page \in 1..(m + 1) /\ Len(es[k].text) <= bound
      OBVIOUS
    <3>1. CASE k \in DOMAIN cs /\ es[k] = cs[k]
      BY <2>4, <3>1
    <3>2. CASE k - Len(cs) \in DOMAIN ds /\ es[k] = ds[k - Len(cs)]
      BY <2>5, <3>2
    <3> QED BY <2>6, <3>1, <3>2
  <2>8. ASSUME NEW p \in 1..(m + 1) PROVE PageTells(p, pages[p], es)
    <3>1. CASE p = m + 1
      <4>1. \A k \in DOMAIN cs : cs[k].page # p
        BY <2>4, <3>1
      <4> QED BY <2>3, <2>5, <3>1, <4>1, PagesConcat
    <3>2. CASE p # m + 1
      <4>1. p \in 1..m /\ \A k \in DOMAIN ds : ds[k].page # p
        BY <2>5, <3>2
      <4> QED BY <2>3, <2>4, <4>1, PagesConcat
    <3> QED BY <3>1, <3>2
  <2> QED BY <2>7, <2>8 DEF es
<1> HIDE DEF T
<1>7. n \in T
  BY <1>1, <1>5, <1>6, AllNat
<1>8. Good(n)
  <2>1. n <= n
    BY <1>1
  <2> HIDE DEF Good
  <2> QED BY <1>7, <2>1 DEF T
<1>9. end \in Seq(Chunk)
  <2>1. n \in 0..n
    BY <1>1
  <2> QED BY <1>4, <2>1 DEF A
<1> QED BY <1>1, <1>4, <1>8, <1>9 DEF end, bound

(* Whatever the pages, chunk_size and chunk_overlap, no chunk is longer than
   chunk_size and one overlap and one separator for each that stitches. *)
THEOREM ChunkBoundedHolds == Spec => []ChunkBounded
<1>1. ASSUME Computed, Ended("cut") PROVE ChunkBounded
  <2> DEFINE cs == ChunkPages(input.pages, input.size, input.overlap)
  <2>1. /\ output = Transcribed(input.pages, input.failures, input.size, input.overlap)
        /\ input.pages \in Seq(Text) /\ input.size \in Nat \ {0} /\ input.overlap \in Nat
    BY <1>1, DocumentsAssumption DEF Computed, Ended, Text
  <2>2. output.chunks = cs \/ output.chunks = <<>>
    BY <2>1 DEF Transcribed
  <2>3. \A k \in DOMAIN cs : Len(cs[k].text) <= input.size + Added(input.overlap)
    BY <2>1, ChunkPagesAre
  <2> HIDE DEF cs
  <2>4. ASSUME NEW c \in ToSet(output.chunks) PROVE Len(c.text) <= input.size + Added(input.overlap)
    <3>1. PICK k \in DOMAIN output.chunks : c = output.chunks[k]
      BY DEF ToSet
    <3>2. output.chunks = cs
      BY <2>2, <3>1
    <3> QED BY <2>3, <3>1, <3>2
  <2> QED BY <2>4 DEF ChunkBounded
<1>2. Computed => ChunkBounded
  BY <1>1 DEF ChunkBounded
<1> QED BY <1>2, ComputedHolds, PTL

(* And no letter of a page is lost or told out of order, whatever is gathered,
   split further, stitched, sliced or stripped. *)
THEOREM NothingLostHolds == Spec => []NothingLost
<1>1. ASSUME Computed, Ended("cut") PROVE NothingLost
  <2> DEFINE cs == ChunkPages(input.pages, input.size, input.overlap)
  <2>1. /\ output = Transcribed(input.pages, input.failures, input.size, input.overlap)
        /\ input.pages \in Seq(Text) /\ input.size \in Nat \ {0} /\ input.overlap \in Nat
        /\ input.failures \in [DOMAIN input.pages -> Nat]
    BY <1>1, DocumentsAssumption DEF Computed, Ended, Text
  <2>2. output.read = \A p \in DOMAIN input.pages : input.failures[p] <= 2
    <3>1. \A p \in DOMAIN input.pages : input.failures[p] < Attempts <=> input.failures[p] <= 2
      BY <2>1 DEF Attempts
    <3>2. output.read = Readable(input.failures)
      BY <2>1 DEF Transcribed
    <3>3. Readable(input.failures) = \A p \in DOMAIN input.pages : input.failures[p] < Attempts
      BY <2>1 DEF Readable
    <3> QED BY <3>1, <3>2, <3>3
  <2>3. cs \in Seq(Chunk) /\ \A p \in DOMAIN input.pages : PageTells(p, input.pages[p], cs)
    BY <2>1, ChunkPagesAre
  <2>4. output.read => output.chunks = cs
    BY <2>1 DEF Transcribed
  <2> HIDE DEF cs
  <2> DEFINE n == Len(cs)
  <2>5. n \in Nat /\ DOMAIN cs = 1..n /\ \A k \in 1..n : cs[k].text \in Text
    <3>1. n \in Nat /\ DOMAIN cs = 1..n
      BY <2>3
    <3>2. \A k \in 1..n : cs[k] \in Chunk
      BY <2>3, <3>1
    <3>3. \A c \in Chunk : c.text \in Text
      BY DEF Chunk
    <3> QED BY <3>1, <3>2, <3>3
  <2> HIDE DEF n
  <2>6. ASSUME output.read, NEW p \in DOMAIN input.pages
        PROVE  LET text == input.pages[p]
               IN  /\ \A i \in Solid(text) : \E c \in ToSet(output.chunks) :
                         c.page = p /\ text[i] \in ToSet(c.text)
                   /\ Distinct(text) => \A i, j \in Solid(text) : i < j =>
                         FirstChunk(p, text[i]) <= FirstChunk(p, text[j])
    <3> DEFINE text == input.pages[p]
               has(x) == {k \in 1..n : cs[k].page = p /\ x \in ToSet(cs[k].text)}
    <3>1. text \in Text /\ PageTells(p, text, cs) /\ output.chunks = cs
      BY <2>1, <2>3, <2>4, <2>6
    <3> HIDE DEF text
    <3>2. ASSUME NEW x \in Letters(text), NEW k \in 1..n
          PROVE  PageHas(p, cs, k, x) <=> k \in has(x)
      <4>1. IsLetter(x)
        BY <3>1, LettersAre
      <4>2. x \in Letters(cs[k].text) <=> x \in ToSet(cs[k].text)
        BY <2>5, <4>1, LettersAre
      <4> QED BY <4>2 DEF PageHas
    <3>3. \A x : FirstChunk(p, x) = Min(has(x))
      BY <2>5, <3>1 DEF FirstChunk
    <3> HIDE DEF has
    <3>4. ASSUME NEW x \in Letters(text)
          PROVE  /\ has(x) # {} /\ has(x) \in SUBSET (1..n)
                 /\ Min(has(x)) \in has(x) /\ \A k \in has(x) : Min(has(x)) <= k
      <4>1. PICK k \in 1..n : PageHas(p, cs, k, x)
        BY <2>5, <3>1 DEF PageTells
      <4>2. has(x) # {} /\ has(x) \in SUBSET (1..n)
        BY <3>2, <4>1 DEF has
      <4> QED BY <2>5, <4>2, Upto
    <3>5. ASSUME NEW i \in Solid(text)
          PROVE  \E c \in ToSet(output.chunks) : c.page = p /\ text[i] \in ToSet(c.text)
      <4>1. text[i] \in Letters(text)
        BY DEF Letters
      <4>2. PICK k \in 1..n : cs[k].page = p /\ text[i] \in ToSet(cs[k].text)
        BY <3>4, <4>1 DEF has
      <4>3. cs[k] \in ToSet(output.chunks)
        BY <2>5, <3>1 DEF ToSet
      <4> QED BY <4>2, <4>3
    <3>6. ASSUME Distinct(text), NEW i \in Solid(text), NEW j \in Solid(text), i < j
          PROVE  FirstChunk(p, text[i]) <= FirstChunk(p, text[j])
      <4> DEFINE x == text[i]
                 y == text[j]
                 k == Min(has(y))
      <4>1. x \in Letters(text) /\ y \in Letters(text) /\ Before(text, x, y)
        BY <3>6 DEF Letters, Before
      <4>2. Apart(text)
        <5> SUFFICES ASSUME NEW z, Before(text, z, z) PROVE FALSE
          BY DEF Apart
        <5>1. PICK a \in Solid(text), b \in Solid(text) : a < b /\ text[a] = z /\ text[b] = z
          BY DEF Before
        <5>2. a = b /\ a \in Int
          BY <3>1, <3>6, <5>1 DEF Distinct, Solid, Text
        <5> QED BY <5>1, <5>2
      <4> HIDE DEF x, y
      <4>3. k \in has(y) /\ k \in 1..n
        BY <3>4, <4>1
      <4> HIDE DEF k
      <4>4. PageHas(p, cs, k, y)
        BY <3>2, <4>1, <4>3
      <4>5. PICK h \in 1..k : PageHas(p, cs, h, x)
        BY <2>5, <3>1, <4>1, <4>2, <4>3, <4>4 DEF PageTells
      <4>6. h \in 1..n /\ h <= k
        BY <2>5, <4>3
      <4>7. Min(has(x)) <= h /\ Min(has(x)) \in 1..n
        BY <3>2, <3>4, <4>1, <4>5, <4>6
      <4>8. Min(has(x)) <= k
        BY <2>5, <4>3, <4>6, <4>7
      <4> QED BY <3>3, <4>8 DEF x, y, k
    <3> QED BY <3>5, <3>6 DEF text
  <2> QED BY <2>2, <2>6 DEF NothingLost
<1>2. Computed => NothingLost
  BY <1>1 DEF NothingLost
<1> QED BY <1>2, ComputedHolds, PTL

===============================================================================
