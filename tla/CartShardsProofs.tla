--------------------------- MODULE CartShardsProofs ---------------------------
(***************************************************************************)
(* The theorems about the slots of a shop's cart offers and the nodes that *)
(* carry them, for every catalog, every size and every bound: a plan keeps *)
(* the planner's rules, and no offer is ever in two nodes.                 *)
(*                                                                         *)
(* The planner folds over sets and lists.  What a fold computes is proved  *)
(* by induction over the number of elements folded (LeastNat).             *)
(***************************************************************************)
EXTENDS CartShards, FiniteSetTheorems, TLAPS

-----------------------------------------------------------------------------
(* Folds and orders.                                                       *)

\* A nonempty set of numbers has a least one.
LEMMA LeastNat == ASSUME NEW T \in SUBSET Nat, T # {} PROVE \E n \in T : \A m \in T : n <= m
<1>1. IsWellFoundedOn(OpToRel(<, Nat), Nat)
  BY NatLessThanWellFounded
<1>2. \E n \in T : \A m \in T : ~ (<<m, n>> \in OpToRel(<, Nat))
  BY <1>1, WFMin
<1>3. \A m, n \in Nat : m < n => <<m, n>> \in OpToRel(<, Nat)
  BY Zenon DEF OpToRel
<1>4. PICK n \in T : \A m \in T : ~ (<<m, n>> \in OpToRel(<, Nat))
  BY <1>2
<1>5. \A m \in T : ~ (m < n)
  BY <1>3, <1>4, Zenon
<1>6. QED BY <1>5

\* Induction over the subsets of a finite set, by the element that is taken away.
LEMMA SubsetInduction ==
  ASSUME NEW S, IsFiniteSet(S), NEW T, {} \in T,
         \A s \in SUBSET S : s = {} \/ s \in T \/ \E x \in s : s \ {x} \notin T
  PROVE  S \in T
<1>1. SUFFICES ASSUME S \notin T PROVE FALSE
  OBVIOUS
<1> DEFINE C == {Cardinality(s) : s \in (SUBSET S) \ T}
<1>2. \A s \in SUBSET S : IsFiniteSet(s) /\ Cardinality(s) \in Nat
  BY FS_Subset, FS_CardinalityType
<1>3. C \in SUBSET Nat /\ C # {}
  BY <1>1, <1>2
<1>4. PICK s \in (SUBSET S) \ T : \A m \in C : Cardinality(s) <= m
  <2> HIDE DEF C
  <2>1. PICK n \in C : \A m \in C : n <= m
    BY <1>3, LeastNat
  <2>2. QED BY <2>1 DEF C
<1>5. PICK x \in s : s \ {x} \notin T
  BY <1>4
<1>6. Cardinality(s \ {x}) = Cardinality(s) - 1 /\ s \ {x} \in (SUBSET S) \ T
  BY <1>2, <1>4, <1>5, FS_RemoveElement
<1>7. Cardinality(s \ {x}) \in C
  BY <1>6
<1>8. QED BY <1>2, <1>4, <1>6, <1>7

\* A way to take an element from each subset.
Picks(pick, S) == \A s \in SUBSET S : s # {} => pick[s] \in s

\* What a fold computes for each subset.
FoldsWith(f, S, pick, base, step) ==
  \A s \in SUBSET S : f[s] = IF s = {} THEN base ELSE step[<<pick[s], f[s \ {pick[s]}]>>]

\* There is a function that folds: MapThenFoldSet chooses one.
LEMMA FoldExists ==
  ASSUME NEW S, IsFiniteSet(S), NEW pick, Picks(pick, S),
         NEW V, NEW base \in V, NEW step \in [S \X V -> V]
  PROVE  \E f \in [SUBSET S -> V] : FoldsWith(f, S, pick, base, step)
<1> DEFINE Solves(f, n) ==
             \A s \in SUBSET S : Cardinality(s) <= n =>
               f[s] = IF s = {} THEN base ELSE step[<<pick[s], f[s \ {pick[s]}]>>]
           T == {n \in Nat : ~ \E f \in [SUBSET S -> V] : Solves(f, n)}
<1>1. \A s \in SUBSET S : /\ IsFiniteSet(s) /\ Cardinality(s) \in Nat
                          /\ Cardinality(s) = 0 <=> s = {}
                          /\ s # {} => Cardinality(s \ {pick[s]}) = Cardinality(s) - 1
  BY FS_Subset, FS_CardinalityType, FS_EmptySet, FS_RemoveElement DEF Picks
<1>2. 0 \notin T
  <2> DEFINE f == [s \in SUBSET S |-> base]
  <2>1. ASSUME NEW s \in SUBSET S, Cardinality(s) <= 0 PROVE s = {}
    <3>1. Cardinality(s) \in Nat /\ (Cardinality(s) = 0 => s = {})
      BY <1>1
    <3>2. QED BY <2>1, <3>1
  <2>2. f \in [SUBSET S -> V] /\ Solves(f, 0)
    BY <2>1
  <2>3. QED BY <2>2
<1>3. ASSUME NEW n \in Nat, n \notin T PROVE n + 1 \notin T
  <2>1. PICK f \in [SUBSET S -> V] : Solves(f, n)
    BY <1>3
  <2> DEFINE g == [s \in SUBSET S |-> IF s = {} THEN base ELSE step[<<pick[s], f[s \ {pick[s]}]>>]]
  <2>2. g \in [SUBSET S -> V]
    BY DEF Picks
  <2>3. ASSUME NEW s \in SUBSET S, Cardinality(s) <= n PROVE g[s] = f[s]
    BY <2>1, <2>3
  <2>4. Solves(g, n + 1)
    <3> SUFFICES ASSUME NEW s \in SUBSET S, Cardinality(s) <= n + 1, s # {}
                 PROVE  g[s] = step[<<pick[s], g[s \ {pick[s]}]>>]
      BY DEF g
    <3>1. s \ {pick[s]} \in SUBSET S /\ Cardinality(s \ {pick[s]}) <= n
      <4>1. Cardinality(s) \in Nat /\ Cardinality(s \ {pick[s]}) = Cardinality(s) - 1
        BY <1>1
      <4>2. Cardinality(s) - 1 <= n
        BY <4>1
      <4>3. QED BY <4>1, <4>2
    <3>2. g[s \ {pick[s]}] = f[s \ {pick[s]}]
      BY <2>3, <3>1
    <3>3. QED BY <3>2
  <2>5. QED BY <2>2, <2>4
<1>4. T = {}
  <2>1. SUFFICES ASSUME T # {} PROVE FALSE
    OBVIOUS
  <2>2. PICK n \in T : \A m \in T : n <= m
    <3> HIDE DEF T
    <3>1. T \in SUBSET Nat
      BY DEF T
    <3>2. QED BY <2>1, <3>1, LeastNat
  <2>3. n \in Nat /\ n # 0
    BY <1>2
  <2> HIDE DEF T
  <2>4. n - 1 \in Nat /\ n - 1 \notin T
    BY <2>2, <2>3
  <2>5. (n - 1) + 1 \notin T
    BY <1>3, <2>4
  <2>6. QED BY <2>3, <2>5
<1>5. PICK f \in [SUBSET S -> V] : Solves(f, Cardinality(S))
  <2>1. Cardinality(S) \in Nat /\ Cardinality(S) \notin T
    BY <1>4, FS_CardinalityType
  <2> HIDE DEF Solves
  <2>2. QED BY <2>1
<1>6. \A s \in SUBSET S : Cardinality(s) <= Cardinality(S)
  BY FS_Subset
<1>7. QED BY <1>5, <1>6 DEF FoldsWith

\* R orders S strictly and totally.
StrictOrder(R, S) ==
  /\ \A x \in S : <<x, x>> \notin R
  /\ \A x, y, z \in S : <<x, y>> \in R /\ <<y, z>> \in R => <<x, z>> \in R
  /\ \A x, y \in S : x = y \/ <<x, y>> \in R \/ <<y, x>> \in R

\* How many come before x.
Rank(S, R, x) == Cardinality({y \in S : <<y, x>> \in R})

\* The n-th of s has n - 1 before it (Ordered).
RankedBy(s, S, R) ==
  /\ s = [n \in 1 .. Cardinality(S) |-> s[n]]
  /\ \A n \in 1 .. Cardinality(S) :
       (\E x \in S : Rank(S, R, x) = n - 1) => s[n] \in S /\ Rank(S, R, s[n]) = n - 1

\* s lists the elements of S, each once.
Enumerates(s, S) ==
  /\ s \in [1 .. Cardinality(S) -> S]
  /\ \A x \in S : \E n \in 1 .. Cardinality(S) : s[n] = x
  /\ \A m, n \in 1 .. Cardinality(S) : s[m] = s[n] => m = n

\* A list by rank has every element once, in order: the ranks are the numbers below the size.
LEMMA RankedEnumerates ==
  ASSUME NEW S, IsFiniteSet(S), NEW R, StrictOrder(R, S), NEW s, RankedBy(s, S, R)
  PROVE  /\ Enumerates(s, S)
         /\ \A m, n \in 1 .. Cardinality(S) : m < n => <<s[m], s[n]>> \in R
<1> DEFINE N == Cardinality(S)
           Below(x) == {y \in S : <<y, x>> \in R}
           rank == [x \in S |-> Cardinality(Below(x)) + 1]
<1>1. N \in Nat /\ IsFiniteSet(1 .. N) /\ Cardinality(1 .. N) = N
  BY FS_CardinalityType, FS_Interval
<1>2. \A x \in S : IsFiniteSet(Below(x)) /\ Cardinality(Below(x)) \in Nat
  BY FS_Subset, FS_CardinalityType
<1>3. \A x \in S : Cardinality(Below(x)) < N
  <2> TAKE x \in S
  <2>1. Below(x) \in SUBSET S /\ x \notin Below(x)
    BY DEF StrictOrder
  <2> HIDE DEF Below
  <2>2. Cardinality(Below(x)) <= N /\ (Cardinality(Below(x)) = N => S = Below(x))
    BY <2>1, FS_Subset
  <2>3. QED BY <1>1, <1>2, <2>1, <2>2
<1>4. rank \in [S -> 1 .. N]
  <2> HIDE DEF Below, N
  <2>1. \A x \in S : Cardinality(Below(x)) + 1 \in 1 .. N
    BY <1>1, <1>2, <1>3
  <2>2. QED BY <2>1
<1>5. ASSUME NEW x \in S, NEW y \in S, <<x, y>> \in R PROVE rank[x] < rank[y]
  <2>1. Below(x) \in SUBSET Below(y)
    BY <1>5 DEF StrictOrder
  <2>2. x \in Below(y) /\ x \notin Below(x)
    BY <1>5 DEF StrictOrder
  <2>3. Cardinality(Below(x)) <= Cardinality(Below(y)) /\ Cardinality(Below(x)) # Cardinality(Below(y))
    <3> HIDE DEF Below
    <3> QED BY <1>2, <2>1, <2>2, FS_Subset
  <2>4. QED BY <1>2, <2>3
<1>6. \A x, y \in S : rank[x] = rank[y] => x = y
  <2> HIDE DEF rank
  <2> SUFFICES ASSUME NEW x \in S, NEW y \in S, rank[x] = rank[y], x # y PROVE FALSE
    OBVIOUS
  <2>1. rank[x] < rank[y] \/ rank[y] < rank[x]
    BY <1>5 DEF StrictOrder
  <2>2. rank[x] \in Nat /\ rank[y] \in Nat
    BY <1>4, <1>1
  <2>3. QED BY <2>1, <2>2
<1>7. \A n \in 1 .. N : \E x \in S : rank[x] = n
  <2> HIDE DEF rank
  <2>1. rank \in Injection(S, 1 .. N)
    BY <1>4, <1>6 DEF Injection, IsInjective
  <2>2. rank \in Surjection(S, 1 .. N)
    BY <1>1, <2>1, FS_Injection
  <2>3. QED BY <2>2 DEF Surjection
<1>8. \A n \in 1 .. N : s[n] \in S /\ rank[s[n]] = n
  <2> TAKE n \in 1 .. N
  <2>1. PICK x \in S : rank[x] = n
    BY <1>7
  <2>2. Rank(S, R, x) = n - 1
    <3>1. Cardinality(Below(x)) + 1 = n /\ Cardinality(Below(x)) \in Nat
      BY <1>2, <2>1
    <3>2. Rank(S, R, x) = Cardinality(Below(x))
      BY DEF Rank
    <3> HIDE DEF Below
    <3>3. QED BY <3>1, <3>2
  <2>3. s[n] \in S /\ Rank(S, R, s[n]) = n - 1
    BY <2>2 DEF RankedBy
  <2>4. rank[s[n]] = Rank(S, R, s[n]) + 1
    BY <2>3 DEF Rank
  <2> HIDE DEF rank
  <2>5. QED BY <1>1, <2>3, <2>4
<1> HIDE DEF rank
<1>9. s \in [1 .. N -> S]
  BY <1>8 DEF RankedBy
<1>10. \A x \in S : s[rank[x]] = x
  BY <1>4, <1>6, <1>8
<1>11. Enumerates(s, S)
  BY <1>4, <1>8, <1>9, <1>10 DEF Enumerates
<1>12. \A m, n \in 1 .. N : m < n => <<s[m], s[n]>> \in R
  <2> SUFFICES ASSUME NEW m \in 1 .. N, NEW n \in 1 .. N, m < n, <<s[m], s[n]>> \notin R PROVE FALSE
    OBVIOUS
  <2>1. s[m] = s[n] \/ <<s[n], s[m]>> \in R
    BY <1>8 DEF StrictOrder
  <2>2. rank[s[n]] <= rank[s[m]]
    BY <1>1, <1>4, <1>5, <1>8, <2>1
  <2>3. QED BY <1>1, <1>8, <2>2
<1>13. QED BY <1>11, <1>12

\* Some element comes first.
LEMMA FirstExists ==
  ASSUME NEW S, IsFiniteSet(S), S # {}, NEW R, StrictOrder(R, S)
  PROVE  \E x \in S : \A y \in S : x = y \/ <<x, y>> \in R
<1>1. Cardinality(S) \in Nat /\ Cardinality(S) # 0
  BY FS_CardinalityType, FS_EmptySet
<1>2. PICK s : Enumerates(s, S) /\ \A m, n \in 1 .. Cardinality(S) : m < n => <<s[m], s[n]>> \in R
  <2> DEFINE s == [n \in 1 .. Cardinality(S) |-> CHOOSE x \in S : Rank(S, R, x) = n - 1]
  <2>1. RankedBy(s, S, R)
    BY DEF RankedBy
  <2> HIDE DEF s
  <2>2. QED BY <2>1, RankedEnumerates
<1>3. s[1] \in S
  BY <1>1, <1>2 DEF Enumerates
<1>4. \A y \in S : s[1] = y \/ <<s[1], y>> \in R
  <2> TAKE y \in S
  <2>1. PICK n \in 1 .. Cardinality(S) : s[n] = y
    BY <1>2 DEF Enumerates
  <2>2. n = 1 \/ 1 < n
    BY <1>1
  <2>3. QED BY <1>1, <1>2, <2>1, <2>2
<1>5. QED BY <1>3, <1>4

-----------------------------------------------------------------------------
(* Units and their sizes.                                                  *)

\* Numbers in ascending order.
LEMMA AscendingEnumerates ==
  ASSUME NEW S \in SUBSET Int, IsFiniteSet(S)
  PROVE  /\ Enumerates(Ascending(S), S)
         /\ \A m, n \in 1 .. Cardinality(S) : m < n => Ascending(S)[m] < Ascending(S)[n]
<1> DEFINE R == {p \in S \X S : p[1] < p[2]}
<1>1. \A x, y \in S : <<x, y>> \in R <=> x < y
  OBVIOUS
<1> HIDE DEF R
<1>2. StrictOrder(R, S)
  BY <1>1 DEF StrictOrder
<1>3. \A x \in S : {y \in S : y < x} = {y \in S : <<y, x>> \in R}
  BY <1>1
<1>4. \A x \in S : Cardinality({y \in S : y < x}) = Rank(S, R, x)
  BY <1>3 DEF Rank
<1>5. Ascending(S) = [n \in 1 .. Cardinality(S) |->
                        CHOOSE x \in S : Cardinality({y \in S : y < x}) = n - 1]
  BY DEF Ascending, Ordered
<1>6. RankedBy(Ascending(S), S, R)
  BY <1>4, <1>5 DEF RankedBy
<1>7. /\ Enumerates(Ascending(S), S)
      /\ \A m, n \in 1 .. Cardinality(S) : m < n => <<Ascending(S)[m], Ascending(S)[n]>> \in R
  BY <1>2, <1>6, RankedEnumerates
<1>8. \A n \in 1 .. Cardinality(S) : Ascending(S)[n] \in S
  BY <1>7 DEF Enumerates
<1>9. QED BY <1>1, <1>7, <1>8

\* Priority, then id, orders the units of a catalog: no two have the same id.
LEMMA EarlierIsOrder ==
  ASSUME NEW us, IsCatalog(us)
  PROVE  StrictOrder({p \in us \X us : Earlier(p[1], p[2])}, us)
<1> DEFINE R == {p \in us \X us : Earlier(p[1], p[2])}
<1>1. \A x, y \in us : <<x, y>> \in R <=> Earlier(x, y)
  OBVIOUS
<1> HIDE DEF R
<1>2. \A u \in us : u.id \in Nat /\ u.priority \in Nat
  BY DEF IsCatalog
<1>3. \A x \in us : ~Earlier(x, x)
  BY <1>2 DEF Earlier
<1>4. \A x, y, z \in us : Earlier(x, y) /\ Earlier(y, z) => Earlier(x, z)
  BY <1>2 DEF Earlier
<1>5. \A x, y \in us : x = y \/ Earlier(x, y) \/ Earlier(y, x)
  BY <1>2 DEF Earlier, IsCatalog
<1>6. StrictOrder(R, us)
  BY <1>1, <1>3, <1>4, <1>5 DEF StrictOrder
<1>7. QED BY <1>6 DEF R

\* Every unit has its place among them all.
LEMMA ByPriorityEnumerates ==
  ASSUME NEW us, IsCatalog(us)
  PROVE  Enumerates(ByPriority(us), us)
<1> DEFINE R == {p \in us \X us : Earlier(p[1], p[2])}
<1>1. \A x, y \in us : <<x, y>> \in R <=> Earlier(x, y)
  OBVIOUS
<1>2. StrictOrder(R, us) /\ IsFiniteSet(us)
  BY EarlierIsOrder DEF IsCatalog
<1> HIDE DEF R
<1>3. \A x \in us : {y \in us : Earlier(y, x)} = {y \in us : <<y, x>> \in R}
  BY <1>1
<1>4. \A x \in us : Cardinality({y \in us : Earlier(y, x)}) = Rank(us, R, x)
  BY <1>3 DEF Rank
<1>5. ByPriority(us) = [n \in 1 .. Cardinality(us) |->
                          CHOOSE x \in us : Cardinality({y \in us : Earlier(y, x)}) = n - 1]
  BY DEF ByPriority, Ordered
<1>6. RankedBy(ByPriority(us), us, R)
  BY <1>4, <1>5 DEF RankedBy
<1>7. QED BY <1>2, <1>6, RankedEnumerates

\* The first unit of a group is one of its units.
LEMMA FirstOfIn ==
  ASSUME NEW us, IsCatalog(us), us # {}
  PROVE  FirstOf(us) \in us
<1> DEFINE R == {p \in us \X us : Earlier(p[1], p[2])}
<1>1. \A x, y \in us : <<x, y>> \in R <=> Earlier(x, y)
  OBVIOUS
<1>2. StrictOrder(R, us) /\ IsFiniteSet(us)
  BY EarlierIsOrder DEF IsCatalog
<1> HIDE DEF R
<1>3. \E x \in us : \A y \in us : x = y \/ <<x, y>> \in R
  BY <1>2, FirstExists
<1>4. QED BY <1>1, <1>3 DEF FirstOf

\* Units of a catalog make a catalog.
LEMMA SubCatalog ==
  ASSUME NEW us, IsCatalog(us), NEW s \in SUBSET us
  PROVE  IsCatalog(s)
BY FS_Subset DEF IsCatalog

\* The size of units is a number.
LEMMA SizeIsNat ==
  ASSUME NEW us, IsCatalog(us)
  PROVE  Size(us) \in Nat
<1> DEFINE pick == [s \in SUBSET us |-> CHOOSE x \in s : TRUE]
           step == [p \in us \X Nat |-> p[1].bytes + p[2]]
           Solves(f) == f = [s \in SUBSET us |-> IF s = {} THEN 0
                               ELSE (CHOOSE x \in s : TRUE).bytes + f[s \ {CHOOSE x \in s : TRUE}]]
           iter == CHOOSE f : Solves(f)
<1>1. Size(us) = iter[us]
  BY DEF Size, MapThenSumSet, MapThenFoldSet
<1>2. IsFiniteSet(us) /\ \A u \in us : u.bytes \in Nat
  BY DEF IsCatalog
<1>3. step \in [us \X Nat -> Nat] /\ Picks(pick, us)
  BY <1>2 DEF Picks
<1>4. PICK f \in [SUBSET us -> Nat] : FoldsWith(f, us, pick, 0, step)
  <2> HIDE DEF pick, step
  <2>1. 0 \in Nat
    OBVIOUS
  <2>2. QED BY <1>2, <1>3, <2>1, FoldExists, Zenon
<1>5. \A s \in SUBSET us : f[s] = IF s = {} THEN 0
                               ELSE (CHOOSE x \in s : TRUE).bytes + f[s \ {CHOOSE x \in s : TRUE}]
  <2> SUFFICES ASSUME NEW s \in SUBSET us, s # {}
               PROVE  f[s] = (CHOOSE x \in s : TRUE).bytes + f[s \ {CHOOSE x \in s : TRUE}]
    BY <1>4 DEF FoldsWith
  <2>1. pick[s] = (CHOOSE x \in s : TRUE) /\ pick[s] \in us /\ s \ {pick[s]} \in SUBSET us
    BY <1>3 DEF Picks
  <2>2. f[s \ {pick[s]}] \in Nat
    BY <2>1
  <2>3. step[<<pick[s], f[s \ {pick[s]}]>>] = pick[s].bytes + f[s \ {pick[s]}]
    BY <2>1, <2>2
  <2> HIDE DEF pick, step
  <2>4. QED BY <1>4, <2>1, <2>3 DEF FoldsWith
<1>6. Solves(f)
  BY <1>5
<1>7. Solves(iter)
  BY <1>6
<1> HIDE DEF iter, pick, step
<1> DEFINE T == {s \in SUBSET us : iter[s] \in Nat}
<1>8. {} \in T
  BY <1>7
<1>9. \A s \in SUBSET us : s = {} \/ s \in T \/ \E x \in s : s \ {x} \notin T
  <2> SUFFICES ASSUME NEW s \in SUBSET us, s # {}, \A x \in s : s \ {x} \in T PROVE s \in T
    OBVIOUS
  <2>1. PICK x \in s : x = CHOOSE y \in s : TRUE
    OBVIOUS
  <2>2. iter[s] = x.bytes + iter[s \ {x}]
    BY <1>7, <2>1
  <2>3. QED BY <1>2, <2>2
<1>10. us \in T
  <2> HIDE DEF T
  <2>1. QED BY <1>2, <1>8, <1>9, SubsetInduction
<1>11. QED BY <1>1, <1>10

\* What a function makes of a finite set is finite.
LEMMA ImageFinite ==
  ASSUME NEW S, IsFiniteSet(S), NEW f, DOMAIN f = S
  PROVE  IsFiniteSet({f[x] : x \in S})
<1> DEFINE T == {f[x] : x \in S}
           g == [x \in S |-> f[x]]
<1>1. g \in [S -> T] /\ \A t \in T : \E x \in S : g[x] = t
  OBVIOUS
<1>2. g \in Surjection(S, T)
  BY <1>1 DEF Surjection
<1>3. QED BY <1>2, FS_Surjection

\* So are their bytes and the counts of their names and tags.
LEMMA BytesIsInt ==
  ASSUME NEW us, IsCatalog(us)
  PROVE  /\ Bytes(us) \in Int
         /\ Cardinality(Attributes(us)) \in Nat /\ Cardinality(TagsOf(us)) \in Nat
<1>1. IsFiniteSet(us)
  BY DEF IsCatalog
<1>2. IsFiniteSet(Attributes(us))
  <2> DEFINE f == [u \in us |-> u.attributes]
  <2>1. IsFiniteSet({f[u] : u \in us}) /\ {f[u] : u \in us} = {u.attributes : u \in us}
    BY <1>1, ImageFinite
  <2>2. \A t \in {u.attributes : u \in us} : IsFiniteSet(t)
    BY DEF IsCatalog
  <2>3. QED BY <2>1, <2>2, FS_UNION DEF Attributes
<1>3. IsFiniteSet(TagsOf(us))
  <2> DEFINE f == [u \in us |-> u.tags]
  <2>1. IsFiniteSet({f[u] : u \in us}) /\ {f[u] : u \in us} = {u.tags : u \in us}
    BY <1>1, ImageFinite
  <2>2. \A t \in {u.tags : u \in us} : IsFiniteSet(t)
    BY DEF IsCatalog
  <2>3. QED BY <2>1, <2>2, FS_UNION DEF TagsOf
<1>4. Cardinality(Attributes(us)) \in Nat /\ Cardinality(TagsOf(us)) \in Nat
  BY <1>2, <1>3, FS_CardinalityType
<1>5. QED BY <1>4, SizeIsNat, PlannerAssumption DEF Bytes

\* What fits the target of compaction fits a slot.
LEMMA FitsMore ==
  ASSUME NEW us, IsCatalog(us), Fits(us, TargetBytes)
  PROVE  Fits(us, SlotBytes)
BY BytesIsInt, PlannerAssumption DEF Fits

\* An empty slot is within its limits.
LEMMA NothingFits == Fits({}, SlotBytes) /\ Fits({}, TargetBytes)
<1>1. IsCatalog({})
  BY FS_EmptySet DEF IsCatalog
<1>2. Attributes({}) = {} /\ TagsOf({}) = {}
  BY DEF Attributes, TagsOf
<1>3. Size({}) = 0
  <2> DEFINE Solves(f) == f = [s \in SUBSET {} |-> IF s = {} THEN 0
                                ELSE (CHOOSE x \in s : TRUE).bytes + f[s \ {CHOOSE x \in s : TRUE}]]
             iter == CHOOSE f : Solves(f)
  <2>1. Size({}) = iter[{}]
    BY DEF Size, MapThenSumSet, MapThenFoldSet
  <2>2. Solves([s \in SUBSET {} |-> 0])
    OBVIOUS
  <2>3. Solves(iter)
    BY <2>2
  <2> HIDE DEF iter
  <2>4. QED BY <2>1, <2>3
<1>4. QED BY <1>2, <1>3, FS_EmptySet, PlannerAssumption DEF Fits, Bytes

-----------------------------------------------------------------------------
(* Groups.                                                                 *)

\* Whoever is tied to a member of s is a member.
ClosedIn(us, s) == \A v \in s, w \in us : Tied(us, v, w) => w \in s

\* A unit's group is the least closed set around it.
LEMMA GroupMembers ==
  ASSUME NEW us, NEW u \in us
  PROVE  /\ GroupOf(us, u) \in SUBSET us /\ u \in GroupOf(us, u)
         /\ ClosedIn(us, GroupOf(us, u))
         /\ \A s \in SUBSET us : u \in s /\ ClosedIn(us, s) => GroupOf(us, u) \subseteq s
<1>1. \A w : w \in GroupOf(us, u) <=>
               w \in us /\ \A s \in SUBSET us : u \in s /\ ClosedIn(us, s) => w \in s
  BY DEF GroupOf, ClosedIn
<1>2. ASSUME NEW v \in GroupOf(us, u), NEW w \in us, Tied(us, v, w) PROVE w \in GroupOf(us, u)
  <2>1. ASSUME NEW s \in SUBSET us, u \in s, ClosedIn(us, s) PROVE w \in s
    BY <1>1, <1>2, <2>1 DEF ClosedIn
  <2>2. QED BY <1>1, <2>1
<1>3. QED BY <1>1, <1>2 DEF ClosedIn

\* Ties go both ways.
LEMMA TiedBack ==
  ASSUME NEW us, NEW u, NEW v, Tied(us, u, v)
  PROVE  Tied(us, v, u)
BY DEF Tied, Intersects

\* Membership in a group goes both ways.
LEMMA GroupBack ==
  ASSUME NEW us, NEW u \in us, NEW w \in GroupOf(us, u)
  PROVE  GroupOf(us, w) = GroupOf(us, u)
<1>1. w \in us
  BY GroupMembers
<1>2. u \in GroupOf(us, w)
  <2> DEFINE rest == GroupOf(us, u) \ GroupOf(us, w)
  <2>1. SUFFICES ASSUME u \notin GroupOf(us, w) PROVE FALSE
    OBVIOUS
  <2>2. ASSUME NEW v \in rest, NEW x \in us, Tied(us, v, x) PROVE x \in rest
    <3>1. x \in GroupOf(us, u)
      BY <2>2, GroupMembers DEF ClosedIn
    <3>2. x \notin GroupOf(us, w)
      <4>1. v \in us /\ Tied(us, x, v)
        BY <2>2, TiedBack, GroupMembers
      <4>2. x \in GroupOf(us, w) => v \in GroupOf(us, w)
        BY <1>1, <4>1, GroupMembers DEF ClosedIn
      <4>3. QED BY <4>2
    <3>3. QED BY <3>1, <3>2
  <2>3. rest \in SUBSET us /\ u \in rest /\ ClosedIn(us, rest)
    BY <2>1, <2>2, GroupMembers DEF ClosedIn
  <2>4. w \in rest
    BY <2>3, GroupMembers
  <2>5. QED BY <1>1, <2>4, GroupMembers
<1>3. GroupOf(us, w) \subseteq GroupOf(us, u)
  BY <1>1, GroupMembers
<1>4. GroupOf(us, u) \subseteq GroupOf(us, w)
  BY <1>1, <1>2, GroupMembers
<1>5. QED BY <1>3, <1>4

\* Every unit is in exactly one group.
LEMMA GroupsPartition ==
  ASSUME NEW us
  PROVE  /\ UNION Groups(us) = us
         /\ \A g \in Groups(us) : g # {} /\ g \in SUBSET us
         /\ \A g, h \in Groups(us) : g = h \/ g \cap h = {}
<1>1. \A g \in Groups(us) : \E u \in us : g = GroupOf(us, u)
  BY DEF Groups
<1>2. \A u \in us : GroupOf(us, u) \in Groups(us)
  BY DEF Groups
<1>3. \A g \in Groups(us) : g # {} /\ g \in SUBSET us
  BY <1>1, GroupMembers
<1>4. ASSUME NEW g \in Groups(us), NEW h \in Groups(us), NEW x \in g \cap h PROVE g = h
  <2>1. PICK u \in us, v \in us : g = GroupOf(us, u) /\ h = GroupOf(us, v)
    BY <1>1
  <2>2. QED BY <2>1, GroupBack
<1>5. UNION Groups(us) = us
  BY <1>2, <1>3, GroupMembers
<1>6. QED BY <1>3, <1>4, <1>5

\* Tied units are in one group.
LEMMA TiedTogether ==
  ASSUME NEW us, NEW u \in us, NEW v \in us, Tied(us, u, v), NEW g \in Groups(us), u \in g
  PROVE  v \in g
<1>1. PICK w \in us : g = GroupOf(us, w)
  BY DEF Groups
<1>2. QED BY <1>1, GroupMembers DEF ClosedIn

\* There are finitely many groups, each a catalog.
LEMMA GroupsFinite ==
  ASSUME NEW us, IsCatalog(us)
  PROVE  IsFiniteSet(Groups(us)) /\ \A g \in Groups(us) : IsCatalog(g)
<1> DEFINE f == [u \in us |-> GroupOf(us, u)]
<1>1. IsFiniteSet({f[u] : u \in us})
  <2>1. IsFiniteSet(us) /\ DOMAIN f = us
    BY DEF IsCatalog
  <2> HIDE DEF f
  <2>2. QED BY <2>1, ImageFinite
<1>2. {f[u] : u \in us} = Groups(us)
  BY DEF Groups
<1>3. QED BY <1>1, <1>2, GroupsPartition, SubCatalog

\* Size, then the first unit's id, orders the groups: no two share a unit.
LEMMA LargerIsOrder ==
  ASSUME NEW us, IsCatalog(us), NEW gs \in SUBSET Groups(us)
  PROVE  /\ IsFiniteSet(gs)
         /\ StrictOrder({p \in gs \X gs : Larger(p[1], p[2])}, gs)
<1> DEFINE R == {p \in gs \X gs : Larger(p[1], p[2])}
<1>1. \A g, h \in gs : <<g, h>> \in R <=> Larger(g, h)
  OBVIOUS
<1>2. \A g \in gs : Size(g) \in Nat /\ FirstOf(g) \in g /\ FirstOf(g).id \in Nat
  <2> TAKE g \in gs
  <2>1. IsCatalog(g) /\ g # {} /\ g \in SUBSET us
    BY GroupsPartition, GroupsFinite
  <2>2. FirstOf(g) \in g
    BY <2>1, FirstOfIn
  <2>3. FirstOf(g).id \in Nat
    BY <2>1, <2>2 DEF IsCatalog
  <2>4. QED BY <2>1, <2>2, <2>3, SizeIsNat
<1>3. ASSUME NEW g \in gs, NEW h \in gs, FirstOf(g).id = FirstOf(h).id PROVE g = h
  <2>1. FirstOf(g) \in us /\ FirstOf(h) \in us
    BY <1>2, GroupsPartition
  <2>2. FirstOf(g) = FirstOf(h)
    BY <1>3, <2>1 DEF IsCatalog
  <2>3. QED BY <1>2, <2>2, GroupsPartition
<1> HIDE DEF R
<1>4. \A g \in gs : ~Larger(g, g)
  BY <1>2 DEF Larger
<1>5. \A g, h, k \in gs : Larger(g, h) /\ Larger(h, k) => Larger(g, k)
  BY <1>2 DEF Larger
<1>6. \A g, h \in gs : g = h \/ Larger(g, h) \/ Larger(h, g)
  BY <1>2, <1>3 DEF Larger
<1>7. StrictOrder(R, gs)
  BY <1>1, <1>4, <1>5, <1>6 DEF StrictOrder
<1>8. IsFiniteSet(gs)
  BY GroupsFinite, FS_Subset
<1>9. QED BY <1>7, <1>8 DEF R

\* Every group has its place among them.
LEMMA LargestFirstEnumerates ==
  ASSUME NEW us, IsCatalog(us), NEW gs \in SUBSET Groups(us)
  PROVE  IsFiniteSet(gs) /\ Enumerates(LargestFirst(gs), gs)
<1> DEFINE R == {p \in gs \X gs : Larger(p[1], p[2])}
<1>1. \A g, h \in gs : <<g, h>> \in R <=> Larger(g, h)
  OBVIOUS
<1>2. StrictOrder(R, gs) /\ IsFiniteSet(gs)
  BY LargerIsOrder
<1> HIDE DEF R
<1>3. \A x \in gs : {y \in gs : Larger(y, x)} = {y \in gs : <<y, x>> \in R}
  BY <1>1
<1>4. \A x \in gs : Cardinality({y \in gs : Larger(y, x)}) = Rank(gs, R, x)
  BY <1>3 DEF Rank
<1>5. LargestFirst(gs) = [n \in 1 .. Cardinality(gs) |->
                            CHOOSE x \in gs : Cardinality({y \in gs : Larger(y, x)}) = n - 1]
  BY DEF LargestFirst, Ordered
<1>6. RankedBy(LargestFirst(gs), gs, R)
  BY <1>4, <1>5 DEF RankedBy
<1>7. QED BY <1>2, <1>6, RankedEnumerates

\* The least of some numbers is one of them.
LEMMA MinIn ==
  ASSUME NEW T \in SUBSET Nat, T # {}
  PROVE  Min(T) \in T /\ \A x \in T : Min(T) <= x
BY LeastNat DEF Min

\* So is the greatest.
LEMMA MaxIn ==
  ASSUME NEW n \in Nat, NEW T \in SUBSET (1 .. n), T # {}
  PROVE  Max(T) \in T /\ \A x \in T : Max(T) >= x
<1> DEFINE C == {n - x : x \in T}
<1>1. C \in SUBSET Nat /\ C # {}
  <2>1. \A x \in T : n - x \in Nat
    OBVIOUS
  <2>2. QED BY <2>1
<1>2. PICK k \in C : \A m \in C : k <= m
  <2> HIDE DEF C
  <2> QED BY <1>1, LeastNat
<1>3. PICK x \in T : k = n - x
  BY <1>2
<1>4. \A y \in T : n - x <= n - y
  BY <1>2, <1>3
<1>5. \A y \in T : x >= y
  BY <1>4
<1>6. QED BY <1>5 DEF Max

-----------------------------------------------------------------------------
(* Bins. *)

\* Bins: what is in each slot that is in use, by its number.
BinSets(us) == UNION {[D -> SUBSET Groups(us)] : D \in {d \in SUBSET Nat : IsFiniteSet(d)}}

\* How to get into BinSets,
LEMMA InBinSets ==
  ASSUME NEW us, NEW D \in SUBSET Nat, IsFiniteSet(D), NEW b \in [D -> SUBSET Groups(us)]
  PROVE  b \in BinSets(us)
BY DEF BinSets

\* and what comes of it.
LEMMA OfBinSets ==
  ASSUME NEW us, NEW b \in BinSets(us)
  PROVE  /\ DOMAIN b \in SUBSET Nat /\ IsFiniteSet(DOMAIN b)
         /\ b \in [DOMAIN b -> SUBSET Groups(us)]
BY DEF BinSets

\* The groups that are in some bin.
Content(bins) == UNION {bins[i] : i \in DOMAIN bins}

\* No bin goes, and none loses a group.
Grows(b, c) == DOMAIN b \subseteq DOMAIN c /\ \A i \in DOMAIN b : b[i] \subseteq c[i]

\* Slot 0 is there, every bin is within the limits, no group is in two.
Good(bins, us) ==
  /\ bins \in BinSets(us) /\ 0 \in DOMAIN bins
  /\ \A i \in DOMAIN bins : Fits(Load(bins, i), SlotBytes)
  /\ \A i, j \in DOMAIN bins : i # j => bins[i] \cap bins[j] = {}

\* What Put does to the bins.
LEMMA PutType ==
  ASSUME NEW us, NEW b \in BinSets(us), NEW i \in Nat, NEW g \in Groups(us)
  PROVE  /\ Put(b, i, g) \in BinSets(us)
         /\ DOMAIN Put(b, i, g) = DOMAIN b \cup {i}
         /\ \A j \in DOMAIN b \cup {i} : Put(b, i, g)[j] =
              (IF j \in DOMAIN b THEN b[j] ELSE {}) \cup (IF j = i THEN {g} ELSE {})
<1> DEFINE D == DOMAIN b \cup {i}
<1>1. DOMAIN b \in SUBSET Nat /\ IsFiniteSet(DOMAIN b) /\ b \in [DOMAIN b -> SUBSET Groups(us)]
  BY OfBinSets
<1>2. D \in SUBSET Nat /\ IsFiniteSet(D)
  BY <1>1, FS_AddElement
<1>3. /\ DOMAIN Put(b, i, g) = D
      /\ \A j \in D : Put(b, i, g)[j] =
           (IF j \in DOMAIN b THEN b[j] ELSE {}) \cup (IF j = i THEN {g} ELSE {})
      /\ Put(b, i, g) \in [D -> SUBSET Groups(us)]
  BY <1>1 DEF Put
<1>4. QED BY <1>2, <1>3, InBinSets

\* A group that is new and fits can be put.
LEMMA PutGood ==
  ASSUME NEW us, NEW b, Good(b, us), NEW i \in Nat, NEW g \in Groups(us), g \notin Content(b),
         Fits((IF i \in DOMAIN b THEN Load(b, i) ELSE {}) \cup g, SlotBytes)
  PROVE  /\ Good(Put(b, i, g), us) /\ Grows(b, Put(b, i, g))
         /\ Content(Put(b, i, g)) = Content(b) \cup {g}
<1> DEFINE c == Put(b, i, g)
<1>1. /\ c \in BinSets(us) /\ DOMAIN c = DOMAIN b \cup {i}
      /\ \A j \in DOMAIN c : c[j] = (IF j \in DOMAIN b THEN b[j] ELSE {}) \cup (IF j = i THEN {g} ELSE {})
  BY PutType DEF Good
<1> HIDE DEF c
<1>2. Grows(b, c)
  BY <1>1 DEF Grows
<1>3. Content(c) = Content(b) \cup {g}
  BY <1>1 DEF Content
<1>4. ASSUME NEW j \in DOMAIN c PROVE Fits(Load(c, j), SlotBytes)
  <2>1. CASE j = i
    <3>1. Load(c, j) = (IF i \in DOMAIN b THEN Load(b, i) ELSE {}) \cup g
      BY <1>1, <2>1 DEF Load
    <3>2. QED BY <3>1
  <2>2. CASE j # i
    <3>1. j \in DOMAIN b /\ Load(c, j) = Load(b, j)
      BY <1>1, <2>2 DEF Load
    <3>2. QED BY <3>1 DEF Good
  <2>3. QED BY <2>1, <2>2
<1>5. ASSUME NEW j \in DOMAIN c, NEW k \in DOMAIN c, j # k PROVE c[j] \cap c[k] = {}
  <2>1. \A l \in DOMAIN b : g \notin b[l]
    BY DEF Content
  <2>2. QED BY <1>1, <1>5, <2>1 DEF Good
<1>6. Good(c, us)
  BY <1>1, <1>4, <1>5 DEF Good
<1>7. QED BY <1>2, <1>3, <1>6 DEF c

\* The lowest free number is free.
LEMMA LowestFreeIs ==
  ASSUME NEW us, NEW b \in BinSets(us)
  PROVE  LowestFree(b) \in Nat \ DOMAIN b
<1> DEFINE D == DOMAIN b
           T == (0 .. Cardinality(D)) \ D
<1>1. D \in SUBSET Nat /\ IsFiniteSet(D) /\ Cardinality(D) \in Nat
  BY OfBinSets, FS_CardinalityType
<1>2. T # {}
  <2>1. SUFFICES ASSUME 0 .. Cardinality(D) \subseteq D PROVE FALSE
    OBVIOUS
  <2>2. Cardinality(0 .. Cardinality(D)) = Cardinality(D) + 1
    BY <1>1, FS_Interval
  <2>3. Cardinality(0 .. Cardinality(D)) <= Cardinality(D)
    BY <1>1, <2>1, FS_Subset
  <2>4. QED BY <1>1, <2>2, <2>3
<1>3. T \in SUBSET Nat
  BY <1>1
<1>4. LowestFree(b) = Min(T)
  BY DEF LowestFree
<1> HIDE DEF T
<1>5. Min(T) \in T
  BY <1>2, <1>3, MinIn
<1>6. QED BY <1>1, <1>4, <1>5 DEF T

\* The bins that have room are bins.
LEMMA RoomIs ==
  ASSUME NEW us, NEW b \in BinSets(us), NEW g, NEW cap
  PROVE  /\ Room(b, g, cap) \in SUBSET Nat
         /\ Room(b, g, cap) # {} =>
              /\ Min(Room(b, g, cap)) \in DOMAIN b
              /\ Fits(Load(b, Min(Room(b, g, cap))) \cup g, cap)
<1>1. Room(b, g, cap) \in SUBSET Nat
  BY OfBinSets DEF Room
<1>2. Room(b, g, cap) # {} => Min(Room(b, g, cap)) \in Room(b, g, cap)
  BY <1>1, MinIn
<1>3. QED BY <1>1, <1>2 DEF Room

\* What a bin holds is a catalog, with one more group too.
LEMMA LoadCatalog ==
  ASSUME NEW us, IsCatalog(us), NEW b \in BinSets(us), NEW i \in DOMAIN b, NEW g \in Groups(us)
  PROVE  IsCatalog(Load(b, i) \cup g) /\ IsCatalog(Load(b, i))
<1>1. b[i] \in SUBSET Groups(us)
  BY OfBinSets
<1>2. Load(b, i) \in SUBSET us /\ Load(b, i) \cup g \in SUBSET us
  BY <1>1, GroupsPartition DEF Load
<1>3. QED BY <1>2, SubCatalog

\* place puts a group into a bin that has room, the caller into one of its own.
LEMMA PlaceGood ==
  ASSUME NEW us, IsCatalog(us), NEW b \in BinSets(us), NEW g \in Groups(us), NEW max
  PROVE  /\ Place(b, g, max) \in BinSets(us)
         /\ Good(b, us) /\ g \notin Content(b) /\ Fits(g, SlotBytes) =>
              /\ Good(Place(b, g, max), us) /\ Grows(b, Place(b, g, max))
              /\ Content(Place(b, g, max)) = Content(b) \cup {g}
<1> DEFINE soft == Room(b, g, TargetBytes)
           hard == Room(b, g, SlotBytes)
           free == LowestFree(b)
<1>1. CASE soft # {}
  <2> DEFINE i == Min(soft)
  <2>1. Place(b, g, max) = Put(b, i, g)
    BY <1>1 DEF Place
  <2>2. i \in DOMAIN b /\ i \in Nat /\ Fits(Load(b, i) \cup g, TargetBytes)
    BY <1>1, RoomIs, OfBinSets
  <2> HIDE DEF i, soft
  <2>3. Fits(Load(b, i) \cup g, SlotBytes)
    BY <2>2, LoadCatalog, FitsMore
  <2>4. Put(b, i, g) \in BinSets(us)
    BY <2>2, PutType
  <2>5. QED BY <2>1, <2>2, <2>3, <2>4, PutGood
<1>2. CASE soft = {} /\ Cardinality(DOMAIN b) >= max /\ hard # {}
  <2> DEFINE i == Min(hard)
  <2>1. Place(b, g, max) = Put(b, i, g)
    BY <1>2 DEF Place
  <2>2. i \in DOMAIN b /\ i \in Nat /\ Fits(Load(b, i) \cup g, SlotBytes)
    BY <1>2, RoomIs, OfBinSets
  <2> HIDE DEF i, hard
  <2>3. Put(b, i, g) \in BinSets(us)
    BY <2>2, PutType
  <2>4. QED BY <2>1, <2>2, <2>3, PutGood
<1>3. CASE soft = {} /\ ~(Cardinality(DOMAIN b) >= max /\ hard # {})
  <2>1. Place(b, g, max) = Put(b, free, g)
    BY <1>3 DEF Place
  <2>2. free \in Nat /\ free \notin DOMAIN b
    BY LowestFreeIs
  <2>3. (IF free \in DOMAIN b THEN Load(b, free) ELSE {}) \cup g = g
    BY <2>2
  <2> HIDE DEF free
  <2>4. Put(b, free, g) \in BinSets(us)
    BY <2>2, PutType
  <2>5. QED BY <2>1, <2>2, <2>3, <2>4, PutGood
<1>4. QED BY <1>1, <1>2, <1>3

\* compactOne moves a group into a bin that has room, or leaves it out.
LEMMA MoveGood ==
  ASSUME NEW us, IsCatalog(us), NEW b \in BinSets(us), NEW g \in Groups(us)
  PROVE  /\ Move(b, g) \in BinSets(us)
         /\ Good(b, us) /\ g \notin Content(b) =>
              /\ Good(Move(b, g), us) /\ Grows(b, Move(b, g)) /\ DOMAIN Move(b, g) = DOMAIN b
              /\ Content(b) \subseteq Content(Move(b, g))
              /\ Content(Move(b, g)) \subseteq Content(b) \cup {g}
<1> DEFINE room == Room(b, g, TargetBytes)
<1>1. CASE room # {}
  <2> DEFINE i == Min(room)
  <2>1. Move(b, g) = Put(b, i, g)
    BY <1>1 DEF Move
  <2>2. i \in DOMAIN b /\ i \in Nat /\ Fits(Load(b, i) \cup g, TargetBytes)
    BY <1>1, RoomIs, OfBinSets
  <2> HIDE DEF i, room
  <2>3. Fits(Load(b, i) \cup g, SlotBytes)
    BY <2>2, LoadCatalog, FitsMore
  <2>4. DOMAIN b \cup {i} = DOMAIN b
    BY <2>2
  <2>5. DOMAIN Put(b, i, g) = DOMAIN b /\ Put(b, i, g) \in BinSets(us)
    BY <2>2, <2>4, PutType
  <2>6. Content(b) \subseteq Content(b) \cup {g}
    OBVIOUS
  <2>7. QED BY <2>1, <2>2, <2>3, <2>5, <2>6, PutGood
<1>2. CASE room = {}
  <2>1. Move(b, g) = b
    BY <1>2 DEF Move
  <2>2. QED BY <2>1 DEF Grows
<1>3. QED BY <1>1, <1>2

-----------------------------------------------------------------------------
(* Folds over lists: placing and moving groups.                            *)

\* What a fold over a list computes for each set of positions.
SeqFoldsWith(f, n, seq, base, step) == \A s \in SUBSET (1 .. n) :
  f[s] = IF s = {} THEN base ELSE step[<<seq[Max(s)], f[s \ {Max(s)}]>>]

\* There is a function that folds over a list: FoldLeft chooses one.
LEMMA SeqFoldExists ==
  ASSUME NEW n \in Nat, NEW E, NEW seq \in [1 .. n -> E],
         NEW V, NEW base \in V, NEW step \in [E \X V -> V]
  PROVE  \E f \in [SUBSET (1 .. n) -> V] : SeqFoldsWith(f, n, seq, base, step)
<1> DEFINE S == 1 .. n
           pick == [s \in SUBSET S |-> Max(s)]
           next == [p \in S \X V |-> step[<<seq[p[1]], p[2]>>]]
<1>1. IsFiniteSet(S)
  BY FS_Interval
<1>2. \A s \in SUBSET S : s # {} => Max(s) \in s
  BY MaxIn
<1>3. Picks(pick, S)
  BY <1>2 DEF Picks
<1>4. next \in [S \X V -> V]
  OBVIOUS
<1>5. PICK f \in [SUBSET S -> V] : FoldsWith(f, S, pick, base, next)
  <2> HIDE DEF pick, next, S
  <2>1. QED BY <1>1, <1>3, <1>4, FoldExists, Zenon
<1>6. ASSUME NEW s \in SUBSET S, s # {} PROVE f[s] = step[<<seq[Max(s)], f[s \ {Max(s)}]>>]
  <2>1. pick[s] = Max(s) /\ Max(s) \in S /\ s \ {Max(s)} \in SUBSET S
    BY <1>2, <1>6
  <2>2. f[s \ {Max(s)}] \in V
    BY <2>1
  <2>3. next[<<Max(s), f[s \ {Max(s)}]>>] = step[<<seq[Max(s)], f[s \ {Max(s)}]>>]
    BY <2>1, <2>2
  <2> HIDE DEF pick, next
  <2>4. QED BY <1>5, <1>6, <2>1, <2>3 DEF FoldsWith
<1>7. f[{}] = base
  <2> HIDE DEF pick, next
  <2>1. QED BY <1>5 DEF FoldsWith
<1>8. QED BY <1>6, <1>7 DEF SeqFoldsWith

\* The first members of an enumeration make up the set.
LEMMA EnumeratedAll ==
  ASSUME NEW seq, NEW S, Enumerates(seq, S)
  PROVE  DOMAIN seq = 1 .. Cardinality(S) /\ {seq[k] : k \in DOMAIN seq} = S
BY DEF Enumerates

\* Placing all groups places them all, by induction over how many are placed.
LEMMA PlaceAllGood ==
  ASSUME NEW us, IsCatalog(us), NEW b, Good(b, us), NEW max,
         NEW gs \in SUBSET Groups(us), gs \cap Content(b) = {},
         \A g \in gs : Fits(g, SlotBytes)
  PROVE  /\ Good(PlaceAll(b, gs, max), us) /\ Grows(b, PlaceAll(b, gs, max))
         /\ Content(PlaceAll(b, gs, max)) = Content(b) \cup gs
         /\ gs = {} => PlaceAll(b, gs, max) = b
<1> DEFINE seq == LargestFirst(gs)
           n == Cardinality(gs)
           V == BinSets(us)
           step == [p \in gs \X V |-> Place(p[2], p[1], max)]
           Solves(f) == f = [s \in SUBSET DOMAIN seq |->
                               IF s = {} THEN b ELSE Place(f[s \ {Max(s)}], seq[Max(s)], max)]
           iter == CHOOSE f : Solves(f)
<1>1. PlaceAll(b, gs, max) = iter[DOMAIN seq]
  BY Zenon DEF PlaceAll, FoldLeft, MapThenFoldSet
<1>2. n \in Nat /\ IsFiniteSet(gs) /\ Enumerates(seq, gs) /\ DOMAIN seq = 1 .. n /\ seq \in [1 .. n -> gs]
  BY LargestFirstEnumerates, FS_CardinalityType DEF Enumerates
<1>3. step \in [gs \X V -> V] /\ b \in V
  BY PlaceGood DEF Good
<1>4. PICK f \in [SUBSET (1 .. n) -> V] : SeqFoldsWith(f, n, seq, b, step)
  <2> HIDE DEF seq, n, V, step
  <2>1. QED BY <1>2, <1>3, SeqFoldExists, Zenon
<1>5. \A s \in SUBSET (1 .. n) : s # {} => Max(s) \in s
  BY <1>2, MaxIn
<1>6. ASSUME NEW s \in SUBSET (1 .. n), s # {} PROVE f[s] = Place(f[s \ {Max(s)}], seq[Max(s)], max)
  <2>1. Max(s) \in 1 .. n /\ seq[Max(s)] \in gs /\ f[s \ {Max(s)}] \in V
    <3>1. Max(s) \in 1 .. n /\ s \ {Max(s)} \in SUBSET (1 .. n)
      BY <1>5, <1>6
    <3> HIDE DEF seq, V, n
    <3>2. QED BY <1>2, <3>1
  <2>2. step[<<seq[Max(s)], f[s \ {Max(s)}]>>] = Place(f[s \ {Max(s)}], seq[Max(s)], max)
    BY <2>1
  <2> HIDE DEF seq, V, n, step
  <2>3. QED BY <1>4, <1>6, <2>2 DEF SeqFoldsWith
<1>7. Solves(f)
  <2> HIDE DEF seq, V, n, step
  <2>1. f[{}] = b
    BY <1>4 DEF SeqFoldsWith
  <2>2. QED BY <1>2, <1>4, <1>6, <2>1 DEF SeqFoldsWith
<1>8. Solves(iter)
  BY <1>7
<1> HIDE DEF iter, seq, n, V, step
<1> DEFINE Dealt(s) == {seq[k] : k \in s}
           Fine(s) == /\ Good(iter[s], us) /\ Grows(b, iter[s])
                      /\ Content(iter[s]) = Content(b) \cup Dealt(s)
           T == {s \in SUBSET (1 .. n) : Fine(s)}
<1>9. {} \in T
  <2>1. iter[{}] = b
    BY <1>8
  <2>2. QED BY <2>1 DEF Grows
<1>10. \A s \in SUBSET (1 .. n) : s = {} \/ s \in T \/ \E x \in s : s \ {x} \notin T
  <2> SUFFICES ASSUME NEW s \in SUBSET (1 .. n), s # {}, \A x \in s : s \ {x} \in T PROVE Fine(s)
    OBVIOUS
  <2> DEFINE m == Max(s)
             r == s \ {m}
  <2>1. m \in s /\ m \in 1 .. n
    BY <1>5
  <2>2. iter[s] = Place(iter[r], seq[m], max)
    BY <1>2, <1>8
  <2>3. Fine(r)
    BY <2>1
  <2>4. seq[m] \in gs /\ seq[m] \in Groups(us) /\ seq[m] \notin Dealt(r) /\ seq[m] \notin Content(b)
    <3> HIDE DEF m
    <3>1. seq[m] \in gs
      BY <1>2, <2>1
    <3>2. seq[m] \notin Dealt(r)
      BY <1>2, <2>1 DEF Enumerates, n
    <3>3. QED BY <3>1, <3>2
  <2>5. Dealt(s) = Dealt(r) \cup {seq[m]}
    BY <2>1
  <2> HIDE DEF m, r, Dealt
  <2>6. iter[r] \in BinSets(us) /\ seq[m] \notin Content(iter[r])
    BY <2>3, <2>4 DEF Good
  <2>7. /\ Good(iter[s], us) /\ Grows(iter[r], iter[s])
        /\ Content(iter[s]) = Content(iter[r]) \cup {seq[m]}
    BY <2>2, <2>3, <2>4, <2>6, PlaceGood
  <2>8. Grows(b, iter[s])
    BY <2>3, <2>7 DEF Grows
  <2>9. QED BY <2>3, <2>5, <2>7, <2>8
<1>11. 1 .. n \in T
  <2> DEFINE K == 1 .. n
  <2>1. IsFiniteSet(K)
    BY <1>2, FS_Interval
  <2> HIDE DEF K, T
  <2>2. \A s \in SUBSET K : s = {} \/ s \in T \/ \E x \in s : s \ {x} \notin T
    BY <1>10 DEF K
  <2>3. K \in T
    BY <1>9, <2>1, <2>2, SubsetInduction
  <2>4. QED BY <2>3 DEF K
<1>12. Dealt(1 .. n) = gs
  BY <1>2, EnumeratedAll
<1>13. gs = {} => PlaceAll(b, gs, max) = b
  <2>1. gs = {} => DOMAIN seq = {}
    BY <1>2, FS_EmptySet DEF n
  <2>2. iter[{}] = b
    BY <1>8
  <2>3. QED BY <1>1, <2>1, <2>2
<1>14. QED BY <1>1, <1>2, <1>11, <1>12, <1>13

\* Moving groups keeps the bins good, by the same induction.
LEMMA MoveAllGood ==
  ASSUME NEW us, IsCatalog(us), NEW b, Good(b, us),
         NEW gs \in SUBSET Groups(us), gs \cap Content(b) = {}
  PROVE  /\ Good(MoveAll(b, gs), us) /\ Grows(b, MoveAll(b, gs))
         /\ DOMAIN MoveAll(b, gs) = DOMAIN b
         /\ Content(MoveAll(b, gs)) \subseteq Content(b) \cup gs
<1> DEFINE seq == LargestFirst(gs)
           n == Cardinality(gs)
           V == BinSets(us)
           step == [p \in gs \X V |-> Move(p[2], p[1])]
           Solves(f) == f = [s \in SUBSET DOMAIN seq |->
                               IF s = {} THEN b ELSE Move(f[s \ {Max(s)}], seq[Max(s)])]
           iter == CHOOSE f : Solves(f)
<1>1. MoveAll(b, gs) = iter[DOMAIN seq]
  BY Zenon DEF MoveAll, FoldLeft, MapThenFoldSet
<1>2. n \in Nat /\ IsFiniteSet(gs) /\ Enumerates(seq, gs) /\ DOMAIN seq = 1 .. n /\ seq \in [1 .. n -> gs]
  BY LargestFirstEnumerates, FS_CardinalityType DEF Enumerates
<1>3. step \in [gs \X V -> V] /\ b \in V
  BY MoveGood DEF Good
<1>4. PICK f \in [SUBSET (1 .. n) -> V] : SeqFoldsWith(f, n, seq, b, step)
  <2> HIDE DEF seq, n, V, step
  <2>1. QED BY <1>2, <1>3, SeqFoldExists, Zenon
<1>5. \A s \in SUBSET (1 .. n) : s # {} => Max(s) \in s
  BY <1>2, MaxIn
<1>6. ASSUME NEW s \in SUBSET (1 .. n), s # {} PROVE f[s] = Move(f[s \ {Max(s)}], seq[Max(s)])
  <2>1. Max(s) \in 1 .. n /\ seq[Max(s)] \in gs /\ f[s \ {Max(s)}] \in V
    <3>1. Max(s) \in 1 .. n /\ s \ {Max(s)} \in SUBSET (1 .. n)
      BY <1>5, <1>6
    <3> HIDE DEF seq, V, n
    <3>2. QED BY <1>2, <3>1
  <2>2. step[<<seq[Max(s)], f[s \ {Max(s)}]>>] = Move(f[s \ {Max(s)}], seq[Max(s)])
    BY <2>1
  <2> HIDE DEF seq, V, n, step
  <2>3. QED BY <1>4, <1>6, <2>2 DEF SeqFoldsWith
<1>7. Solves(f)
  <2> HIDE DEF seq, V, n, step
  <2>1. f[{}] = b
    BY <1>4 DEF SeqFoldsWith
  <2>2. QED BY <1>2, <1>4, <1>6, <2>1 DEF SeqFoldsWith
<1>8. Solves(iter)
  BY <1>7
<1> HIDE DEF iter, seq, n, V, step
<1> DEFINE Dealt(s) == {seq[k] : k \in s}
           Fine(s) == /\ Good(iter[s], us) /\ Grows(b, iter[s]) /\ DOMAIN iter[s] = DOMAIN b
                      /\ Content(iter[s]) \subseteq Content(b) \cup Dealt(s)
           T == {s \in SUBSET (1 .. n) : Fine(s)}
<1>9. {} \in T
  <2>1. iter[{}] = b
    BY <1>8
  <2>2. QED BY <2>1 DEF Grows
<1>10. \A s \in SUBSET (1 .. n) : s = {} \/ s \in T \/ \E x \in s : s \ {x} \notin T
  <2> SUFFICES ASSUME NEW s \in SUBSET (1 .. n), s # {}, \A x \in s : s \ {x} \in T PROVE Fine(s)
    OBVIOUS
  <2> DEFINE m == Max(s)
             r == s \ {m}
  <2>1. m \in s /\ m \in 1 .. n
    BY <1>5
  <2>2. iter[s] = Move(iter[r], seq[m])
    BY <1>2, <1>8
  <2>3. Fine(r)
    BY <2>1
  <2>4. seq[m] \in gs /\ seq[m] \in Groups(us) /\ seq[m] \notin Dealt(r) /\ seq[m] \notin Content(b)
    <3> HIDE DEF m
    <3>1. seq[m] \in gs
      BY <1>2, <2>1
    <3>2. seq[m] \notin Dealt(r)
      BY <1>2, <2>1 DEF Enumerates, n
    <3>3. QED BY <3>1, <3>2
  <2>5. Dealt(s) = Dealt(r) \cup {seq[m]}
    BY <2>1
  <2> HIDE DEF m, r, Dealt
  <2>6. iter[r] \in BinSets(us) /\ seq[m] \notin Content(iter[r])
    BY <2>3, <2>4 DEF Good
  <2>7. /\ Good(iter[s], us) /\ Grows(iter[r], iter[s]) /\ DOMAIN iter[s] = DOMAIN iter[r]
        /\ Content(iter[s]) \subseteq Content(iter[r]) \cup {seq[m]}
    BY <2>2, <2>3, <2>4, <2>6, MoveGood
  <2>8. Grows(b, iter[s])
    BY <2>3, <2>7 DEF Grows
  <2>9. QED BY <2>3, <2>5, <2>7, <2>8
<1>11. 1 .. n \in T
  <2> DEFINE K == 1 .. n
  <2>1. IsFiniteSet(K)
    BY <1>2, FS_Interval
  <2> HIDE DEF K, T
  <2>2. \A s \in SUBSET K : s = {} \/ s \in T \/ \E x \in s : s \ {x} \notin T
    BY <1>10 DEF K
  <2>3. K \in T
    BY <1>9, <2>1, <2>2, SubsetInduction
  <2>4. QED BY <2>3 DEF K
<1>12. Dealt(1 .. n) = gs
  BY <1>2, EnumeratedAll
<1>13. QED BY <1>1, <1>2, <1>11, <1>12

-----------------------------------------------------------------------------
(* Overflow and eviction.                                                  *)

\* The units that fit together so far are units.
LEMMA AddType ==
  ASSUME NEW us, NEW s \in SUBSET us, NEW u \in us
  PROVE  Add(s, u) \in SUBSET us
BY DEF Add

\* If nothing is left over, all fit into one slot.
LEMMA OverflowsNot ==
  ASSUME NEW us, IsCatalog(us), ~Overflows(us)
  PROVE  Fits(us, SlotBytes)
<1> DEFINE seq == ByPriority(us)
           n == Cardinality(us)
           V == SUBSET us
           step == [p \in us \X V |-> Add(p[2], p[1])]
           Solves(f) == f = [s \in SUBSET DOMAIN seq |->
                               IF s = {} THEN {} ELSE Add(f[s \ {Max(s)}], seq[Max(s)])]
           iter == CHOOSE f : Solves(f)
<1>1. iter[DOMAIN seq] = us
  BY Zenon DEF Overflows, FoldLeft, MapThenFoldSet
<1>2. n \in Nat /\ DOMAIN seq = 1 .. n /\ seq \in [1 .. n -> us]
  BY ByPriorityEnumerates, FS_CardinalityType DEF Enumerates, IsCatalog
<1>3. step \in [us \X V -> V] /\ {} \in V
  BY AddType
<1>4. PICK f \in [SUBSET (1 .. n) -> V] : SeqFoldsWith(f, n, seq, {}, step)
  <2> HIDE DEF seq, n, V, step
  <2>1. QED BY <1>2, <1>3, SeqFoldExists
<1>5. \A s \in SUBSET (1 .. n) : s # {} => Max(s) \in s
  BY <1>2, MaxIn
<1>6. ASSUME NEW s \in SUBSET (1 .. n), s # {} PROVE f[s] = Add(f[s \ {Max(s)}], seq[Max(s)])
  <2>1. Max(s) \in 1 .. n /\ seq[Max(s)] \in us /\ f[s \ {Max(s)}] \in V
    <3>1. Max(s) \in 1 .. n /\ s \ {Max(s)} \in SUBSET (1 .. n)
      BY <1>5, <1>6
    <3> HIDE DEF seq, V, n
    <3>2. QED BY <1>2, <3>1
  <2>2. step[<<seq[Max(s)], f[s \ {Max(s)}]>>] = Add(f[s \ {Max(s)}], seq[Max(s)])
    BY <2>1
  <2> HIDE DEF seq, V, n, step
  <2>3. QED BY <1>4, <1>6, <2>2 DEF SeqFoldsWith
<1>7. Solves(f)
  <2> HIDE DEF seq, V, n, step
  <2>1. f[{}] = {}
    BY <1>4 DEF SeqFoldsWith
  <2>2. QED BY <1>2, <1>4, <1>6, <2>1 DEF SeqFoldsWith
<1>8. Solves(iter)
  BY <1>7
<1> HIDE DEF iter, seq, n, V, step
<1>9. iter[{}] = {}
  BY <1>8
<1> DEFINE T == {s \in SUBSET (1 .. n) : Fits(iter[s], SlotBytes)}
           K == 1 .. n
<1>10. {} \in T
  BY <1>9, NothingFits
<1>11. \A s \in SUBSET K : s = {} \/ s \in T \/ \E x \in s : s \ {x} \notin T
  <2> SUFFICES ASSUME NEW s \in SUBSET K, s # {}, \A x \in s : s \ {x} \in T
               PROVE  Fits(iter[s], SlotBytes)
    OBVIOUS
  <2>1. Max(s) \in s /\ Fits(iter[s \ {Max(s)}], SlotBytes)
    BY <1>5
  <2>2. iter[s] = Add(iter[s \ {Max(s)}], seq[Max(s)])
    BY <1>2, <1>8
  <2>3. QED BY <2>1, <2>2 DEF Add
<1>12. IsFiniteSet(K)
  BY <1>2, FS_Interval
<1> HIDE DEF K, T
<1>13. K \in T
  BY <1>10, <1>11, <1>12, SubsetInduction
<1>14. QED BY <1>1, <1>2, <1>13 DEF K, T

\* All that is pinned is one group.
LEMMA PinnedOne ==
  ASSUME NEW us, NEW g \in PinnedGroup(us), NEW h \in PinnedGroup(us)
  PROVE  g = h
<1>1. PICK u \in g, v \in h : u \in Pinned(us) /\ v \in Pinned(us)
  BY DEF PinnedGroup
<1>2. g \in Groups(us) /\ h \in Groups(us) /\ Pinned(us) \in SUBSET us
  BY DEF PinnedGroup, Pinned
<1>3. v \in g
  BY <1>1, <1>2, TiedTogether DEF Tied
<1>4. QED BY <1>1, <1>2, <1>3, GroupsPartition

\* A bin without what is evicted is within the limits, or holds the pinned group only.
LEMMA EvictedIs ==
  ASSUME NEW us, IsCatalog(us), NEW gs \in SUBSET Groups(us), NEW pinned
  PROVE  /\ Evicted(gs, pinned) \in SUBSET (gs \ pinned)
         /\ Fits(UNION (gs \ Evicted(gs, pinned)), SlotBytes) \/ Evicted(gs, pinned) = gs \ pinned
         /\ Fits(UNION gs, SlotBytes) => Evicted(gs, pinned) = {}
<1> DEFINE order == LargestFirst(gs \ pinned)
           N == Cardinality(gs \ pinned)
           Gone(n) == {order[k] : k \in 1 .. n}
           enough == {n \in 0 .. Len(order) : n = Len(order) \/ Fits(UNION (gs \ Gone(n)), SlotBytes)}
           m == Min(enough)
<1>1. Evicted(gs, pinned) = Gone(m)
  BY DEF Evicted
<1>2. N \in Nat /\ Enumerates(order, gs \ pinned)
  BY LargestFirstEnumerates, FS_CardinalityType
<1>3. Len(order) = N /\ DOMAIN order = 1 .. N
  BY <1>2 DEF Enumerates
<1>4. enough \in SUBSET Nat /\ N \in enough
  BY <1>2, <1>3
<1>5. m \in enough /\ \A n \in enough : m <= n
  <2> HIDE DEF enough
  <2>1. QED BY <1>4, MinIn
<1>6. Gone(N) = gs \ pinned
  BY <1>2, EnumeratedAll, <1>3
<1>7. Gone(m) \in SUBSET (gs \ pinned)
  <2>1. m \in 0 .. N
    BY <1>3, <1>5
  <2>2. \A k \in 1 .. m : k \in 1 .. N
    BY <1>2, <2>1
  <2> HIDE DEF m, order, N, enough
  <2>3. \A k \in 1 .. N : order[k] \in gs \ pinned
    BY <1>2 DEF Enumerates, N
  <2>4. QED BY <2>2, <2>3
<1>8. m = N \/ Fits(UNION (gs \ Gone(m)), SlotBytes)
  BY <1>3, <1>5
<1>9. ASSUME Fits(UNION gs, SlotBytes) PROVE Gone(m) = {}
  <2>1. 0 \in 0 .. Len(order) /\ Gone(0) = {}
    BY <1>2, <1>3
  <2>2. gs \ Gone(0) = gs
    BY <2>1
  <2>3. 0 \in enough
    BY <1>9, <2>1, <2>2
  <2>4. m <= 0 /\ m \in Nat
    BY <1>4, <1>5, <2>3
  <2> HIDE DEF m, order
  <2>5. m = 0
    BY <2>4
  <2>6. QED BY <2>1, <2>5
<1> HIDE DEF order, N, Gone, enough, m
<1>10. QED BY <1>1, <1>6, <1>7, <1>8, <1>9

-----------------------------------------------------------------------------
(* Bins, from the slots of the last publish.                               *)

\* The groups that are not tied to slot 0.
Free(us) == Groups(us) \ PinnedGroup(us)

\* Bins that may still overflow: the groups are apart, the pinned one is in the first.
Sorted(bins, us) ==
  /\ bins \in BinSets(us) /\ 0 \in DOMAIN bins
  /\ \A i, j \in DOMAIN bins : i # j => bins[i] \cap bins[j] = {}
  /\ PinnedGroup(us) \subseteq bins[0]

\* The bins from the slots of the last publish are apart, and slot 0's are in slot 0.
LEMMA StickySorted ==
  ASSUME NEW us, IsCatalog(us), NEW previous, NEW max \in Nat
  PROVE  Sorted(Sticky(Free(us), PinnedGroup(us), previous, max), us)
<1> DEFINE pinned == PinnedGroup(us)
           Slot(g) == Min(PreviousSlots(previous, g, max))
           kept == {g \in Free(us) : PreviousSlots(previous, g, max) # {}}
           D == {0} \cup {Slot(g) : g \in kept}
           b == Sticky(Free(us), pinned, previous, max)
<1>1. b = [i \in D |-> {g \in kept : Slot(g) = i} \cup (IF i = 0 THEN pinned ELSE {})]
  BY DEF Sticky
<1>2. kept \in SUBSET Groups(us) /\ pinned \in SUBSET Groups(us) /\ kept \cap pinned = {}
  BY DEF Free, PinnedGroup
<1>3. \A g \in kept : Slot(g) \in Nat
  <2> TAKE g \in kept
  <2>1. PreviousSlots(previous, g, max) \in SUBSET Nat
    BY DEF PreviousSlots
  <2>2. QED BY <2>1, MinIn
<1> HIDE DEF Slot, kept, b, pinned
<1>4. IsFiniteSet({Slot(g) : g \in kept})
  <2> DEFINE f == [g \in kept |-> Slot(g)]
  <2>1. IsFiniteSet(kept) /\ DOMAIN f = kept
    BY <1>2, GroupsFinite, FS_Subset
  <2>2. {f[g] : g \in kept} = {Slot(g) : g \in kept}
    OBVIOUS
  <2> HIDE DEF f
  <2>3. IsFiniteSet({f[g] : g \in kept})
    BY <2>1, ImageFinite
  <2>4. QED BY <2>2, <2>3
<1>5. D \in SUBSET Nat /\ IsFiniteSet(D)
  <2>1. D = {Slot(g) : g \in kept} \cup {0}
    OBVIOUS
  <2>2. IsFiniteSet(D)
    <3> DEFINE E == {Slot(g) : g \in kept}
    <3> HIDE DEF E
    <3>1. IsFiniteSet(E \cup {0})
      BY <1>4, FS_AddElement DEF E
    <3>2. QED BY <2>1, <3>1 DEF E
  <2>3. QED BY <1>3, <2>2
<1>6. b \in [D -> SUBSET Groups(us)]
  BY <1>1, <1>2
<1>7. b \in BinSets(us) /\ DOMAIN b = D
  <2> HIDE DEF D
  <2>1. QED BY <1>5, <1>6, InBinSets
<1>8. 0 \in D /\ pinned \subseteq b[0]
  BY <1>1
<1>9. \A i, j \in D : i # j => b[i] \cap b[j] = {}
  BY <1>1, <1>2
<1>10. Sorted(b, us)
  BY <1>7, <1>8, <1>9 DEF Sorted, pinned
<1>11. QED BY <1>10 DEF b, pinned

\* The sticky bins without what overflows, and without what that empties.
Cut(sticky, out) == [i \in {0} \cup {j \in DOMAIN sticky : sticky[j] # out[j]} |->
                       sticky[i] \ out[i]]

\* Without what is evicted they are good.
LEMMA CutGood ==
  ASSUME NEW us, IsCatalog(us), \A g \in Groups(us) : Fits(g, SlotBytes),
         NEW sticky, Sorted(sticky, us),
         NEW out, \A i \in DOMAIN sticky : out[i] = Evicted(sticky[i], PinnedGroup(us))
  PROVE  /\ Good(Cut(sticky, out), us) /\ PinnedGroup(us) \subseteq Cut(sticky, out)[0]
         /\ DOMAIN Cut(sticky, out) \subseteq DOMAIN sticky
         /\ Content(Cut(sticky, out)) \subseteq Content(sticky)
<1> DEFINE pinned == PinnedGroup(us)
           b == Cut(sticky, out)
           D == {0} \cup {j \in DOMAIN sticky : sticky[j] # out[j]}
<1>1. b = [i \in D |-> sticky[i] \ out[i]]
  BY DEF Cut
<1>2. /\ DOMAIN sticky \in SUBSET Nat /\ IsFiniteSet(DOMAIN sticky) /\ 0 \in DOMAIN sticky
      /\ \A i \in DOMAIN sticky : sticky[i] \in SUBSET Groups(us)
  BY OfBinSets DEF Sorted
<1>3. D \in SUBSET (DOMAIN sticky) /\ 0 \in D
  BY <1>2
<1>4. D \in SUBSET Nat /\ IsFiniteSet(D)
  BY <1>2, <1>3, FS_Subset
<1>5. \A i \in D :
        /\ out[i] \in SUBSET (sticky[i] \ pinned)
        /\ Fits(UNION (sticky[i] \ out[i]), SlotBytes) \/ out[i] = sticky[i] \ pinned
  <2> TAKE i \in D
  <2> DEFINE gs == sticky[i]
  <2>1. gs \in SUBSET Groups(us) /\ out[i] = Evicted(gs, pinned)
    BY <1>2, <1>3
  <2> HIDE DEF gs, pinned
  <2>2. /\ Evicted(gs, pinned) \in SUBSET (gs \ pinned)
        /\ Fits(UNION (gs \ Evicted(gs, pinned)), SlotBytes) \/ Evicted(gs, pinned) = gs \ pinned
    BY <2>1, EvictedIs
  <2>3. QED BY <2>1, <2>2 DEF gs
<1> HIDE DEF D, b
<1>6. b \in [D -> SUBSET Groups(us)] /\ DOMAIN b = D
  BY <1>1, <1>2, <1>3
<1>7. b \in BinSets(us)
  BY <1>4, <1>6, InBinSets
<1>8. \A i, j \in D : i # j => b[i] \cap b[j] = {}
  BY <1>1, <1>3 DEF Sorted
<1>9. ASSUME NEW i \in D PROVE Fits(Load(b, i), SlotBytes)
  <2>1. b[i] = sticky[i] \ out[i]
    BY <1>1
  <2>2. CASE Fits(UNION (sticky[i] \ out[i]), SlotBytes)
    BY <2>1, <2>2 DEF Load
  <2>3. CASE out[i] = sticky[i] \ pinned
    <3>1. b[i] \subseteq pinned
      BY <2>1, <2>3
    <3>2. b[i] = {} \/ \E g \in pinned : b[i] = {g}
      BY <3>1, PinnedOne
    <3>3. CASE b[i] = {}
      <4>1. Load(b, i) = {}
        BY <3>3 DEF Load
      <4>2. QED BY <4>1, NothingFits
    <3>4. ASSUME NEW g \in pinned, b[i] = {g} PROVE Fits(Load(b, i), SlotBytes)
      <4>1. Load(b, i) = g /\ g \in Groups(us)
        BY <3>4 DEF Load, PinnedGroup
      <4>2. QED BY <4>1
    <3>5. QED BY <3>2, <3>3, <3>4
  <2>4. QED BY <1>5, <2>2, <2>3
<1>10. pinned \subseteq b[0]
  BY <1>1, <1>3, <1>5 DEF Sorted
<1>11. Content(b) \subseteq Content(sticky)
  BY <1>1, <1>3, <1>6 DEF Content
<1>12. Good(b, us)
  BY <1>3, <1>6, <1>7, <1>8, <1>9 DEF Good
<1>13. QED BY <1>3, <1>6, <1>10, <1>11, <1>12 DEF b

\* What is in bins is groups.
LEMMA GoodContent ==
  ASSUME NEW us, NEW b \in BinSets(us)
  PROVE  Content(b) \subseteq Groups(us)
BY OfBinSets DEF Content

\* To fill is to place what is not in them yet.
LEMMA FilledIs ==
  ASSUME NEW free, NEW sticky, NEW out, NEW max
  PROVE  Filled(free, sticky, out, max) =
           PlaceAll(Cut(sticky, out), free \ Content(Cut(sticky, out)), max)
<1>1. Content(Cut(sticky, out)) =
        UNION {Cut(sticky, out)[i] : i \in DOMAIN Cut(sticky, out)}
  BY DEF Content
<1>2. QED BY <1>1 DEF Filled, Cut

\* All groups are in bins, the pinned one in the first.
Complete(bins, us) ==
  Good(bins, us) /\ Content(bins) = Groups(us) /\ PinnedGroup(us) \subseteq bins[0]

\* Filled bins hold every group.
LEMMA FilledComplete ==
  ASSUME NEW us, IsCatalog(us), \A g \in Groups(us) : Fits(g, SlotBytes),
         NEW sticky, Sorted(sticky, us), NEW max,
         NEW out, \A i \in DOMAIN sticky : out[i] = Evicted(sticky[i], PinnedGroup(us))
  PROVE  Complete(Filled(Free(us), sticky, out, max), us)
<1> DEFINE b == Cut(sticky, out)
           rest == Free(us) \ Content(b)
           c == PlaceAll(b, rest, max)
<1>1. Good(b, us) /\ PinnedGroup(us) \subseteq b[0] /\ 0 \in DOMAIN b
  BY CutGood DEF Good
<1>2. Content(b) \subseteq Groups(us) /\ rest \in SUBSET Groups(us) /\ rest \cap Content(b) = {}
  BY <1>1, GoodContent DEF Good, Free
<1> HIDE DEF b
<1>3. Good(c, us) /\ Grows(b, c) /\ Content(c) = Content(b) \cup rest
  <2> HIDE DEF rest
  <2>1. QED BY <1>1, <1>2, PlaceAllGood
<1>4. PinnedGroup(us) \subseteq Content(b)
  BY <1>1 DEF Content
<1>5. Content(c) = Groups(us)
  BY <1>2, <1>3, <1>4 DEF Free
<1>6. PinnedGroup(us) \subseteq c[0]
  BY <1>1, <1>3 DEF Grows
<1>7. Complete(c, us)
  BY <1>3, <1>5, <1>6 DEF Complete
<1>8. Filled(Free(us), sticky, out, max) = c
  BY FilledIs DEF b
<1>9. QED BY <1>7, <1>8

\* The lightest shard is one of them.
LEMMA VictimIs ==
  ASSUME NEW us, IsCatalog(us), NEW b \in BinSets(us), 0 \in DOMAIN b, DOMAIN b # {0}
  PROVE  Victim(b) \in DOMAIN b \ {0}
<1> DEFINE S == DOMAIN b \ {0}
           R == {p \in S \X S : Lighter(b, p[1], p[2])}
<1>1. S \in SUBSET Nat /\ IsFiniteSet(S) /\ S # {}
  BY OfBinSets, FS_Subset
<1>2. \A i \in S : Bytes(Load(b, i)) \in Int
  <2> TAKE i \in S
  <2>1. b[i] \in SUBSET Groups(us)
    BY OfBinSets
  <2>2. Load(b, i) \in SUBSET us
    BY <2>1, GroupsPartition DEF Load
  <2>3. QED BY <2>2, SubCatalog, BytesIsInt
<1>3. \A i, j \in S : <<i, j>> \in R <=> Lighter(b, i, j)
  OBVIOUS
<1> HIDE DEF R, S
<1>4. \A i \in S : ~Lighter(b, i, i)
  BY <1>1, <1>2 DEF Lighter
<1>5. \A i, j, k \in S : Lighter(b, i, j) /\ Lighter(b, j, k) => Lighter(b, i, k)
  BY <1>1, <1>2 DEF Lighter
<1>6. \A i, j \in S : i = j \/ Lighter(b, i, j) \/ Lighter(b, j, i)
  BY <1>1, <1>2 DEF Lighter
<1>7. StrictOrder(R, S)
  BY <1>3, <1>4, <1>5, <1>6 DEF StrictOrder
<1>8. \E i \in S : \A j \in S : i = j \/ <<i, j>> \in R
  BY <1>1, <1>7, FirstExists
<1>9. \E i \in DOMAIN b \ {0} : \A j \in DOMAIN b \ {0, i} : Lighter(b, i, j)
  BY <1>3, <1>8 DEF S
<1>10. QED BY <1>9 DEF Victim

\* Compacting keeps all groups in bins; only the lightest shard may go.
LEMMA CompactedComplete ==
  ASSUME NEW us, IsCatalog(us), NEW b, Complete(b, us), DOMAIN b # {0}
  PROVE  /\ Complete(Compacted(b), us) /\ DOMAIN Compacted(b) \subseteq DOMAIN b
         /\ \A i \in DOMAIN b \ {Victim(b)} :
              i \in DOMAIN Compacted(b) /\ b[i] \subseteq Compacted(b)[i]
<1> DEFINE v == Victim(b)
           rest == [i \in DOMAIN b \ {v} |-> b[i]]
           moved == MoveAll(rest, b[v])
<1>1. /\ b \in BinSets(us) /\ DOMAIN b \in SUBSET Nat /\ IsFiniteSet(DOMAIN b)
      /\ 0 \in DOMAIN b /\ \A i \in DOMAIN b : b[i] \in SUBSET Groups(us)
  BY OfBinSets DEF Complete, Good
<1>2. v \in DOMAIN b /\ v # 0
  BY <1>1, VictimIs
<1> HIDE DEF v
<1>3. Compacted(b) = IF \A g \in b[v] : \E i \in DOMAIN moved : g \in moved[i] THEN moved ELSE b
  BY DEF Compacted, v
<1>4. Good(rest, us)
  <2>1. DOMAIN b \ {v} \in SUBSET Nat /\ IsFiniteSet(DOMAIN b \ {v})
    BY <1>1, FS_Subset
  <2>2. rest \in [DOMAIN b \ {v} -> SUBSET Groups(us)]
    BY <1>1
  <2>3. rest \in BinSets(us)
    BY <2>1, <2>2, InBinSets
  <2>4. \A i \in DOMAIN rest : Load(rest, i) = Load(b, i)
    BY DEF Load
  <2>5. QED BY <1>1, <1>2, <2>3, <2>4 DEF Good, Complete
<1>5. b[v] \in SUBSET Groups(us) /\ b[v] \cap Content(rest) = {}
  BY <1>1, <1>2 DEF Complete, Good, Content
<1>6. Content(b) = Content(rest) \cup b[v]
  BY <1>2 DEF Content
<1>7. DOMAIN rest = DOMAIN b \ {v} /\ \A i \in DOMAIN rest : rest[i] = b[i]
  OBVIOUS
<1> HIDE DEF rest
<1>8. Good(moved, us) /\ Grows(rest, moved) /\ DOMAIN moved = DOMAIN rest
  BY <1>4, <1>5, MoveAllGood
<1> HIDE DEF moved
<1>9. CASE \A g \in b[v] : \E i \in DOMAIN moved : g \in moved[i]
  <2>1. Compacted(b) = moved
    BY <1>3, <1>9
  <2>2. b[v] \subseteq Content(moved)
    BY <1>9 DEF Content
  <2>3. Content(rest) \subseteq Content(moved)
    BY <1>8 DEF Grows, Content
  <2>4. Content(moved) = Groups(us)
    BY <1>6, <1>8, <2>2, <2>3, GoodContent DEF Complete, Good
  <2>5. PinnedGroup(us) \subseteq moved[0]
    BY <1>1, <1>2, <1>7, <1>8 DEF Grows, Complete
  <2>6. \A i \in DOMAIN b \ {v} : i \in DOMAIN moved /\ b[i] \subseteq moved[i]
    BY <1>7, <1>8 DEF Grows
  <2>7. QED BY <1>7, <1>8, <2>1, <2>4, <2>5, <2>6 DEF Complete, v
<1>10. CASE ~ \A g \in b[v] : \E i \in DOMAIN moved : g \in moved[i]
  <2>1. Compacted(b) = b
    BY <1>3, <1>10
  <2>2. QED BY <2>1
<1>11. QED BY <1>9, <1>10

-----------------------------------------------------------------------------
(* Plans.                                                                  *)

\* What is evicted from each bin,
OutOf(sticky, pinned) == [i \in DOMAIN sticky |-> Evicted(sticky[i], pinned)]

\* and the bins with the lightest one dissolved, where that pays.
MaybeCompacted(bins) == IF Wasteful(bins) THEN Compacted(bins) ELSE bins

\* To pack is to fill, then to compact.
LEMMA PackedIs ==
  ASSUME NEW free, NEW pinned, NEW previous, NEW max
  PROVE  LET sticky == Sticky(free, pinned, previous, max)
         IN Packed(free, pinned, previous, max) =
              MaybeCompacted(Filled(free, sticky, OutOf(sticky, pinned), max))
<1> DEFINE sticky == Sticky(free, pinned, previous, max)
           F(s, o) == Filled(free, s, o, max)
           A(s, o) == CHOOSE r \in {MaybeCompacted(v) : v \in {F(s, o)}} : TRUE
           B(s) == CHOOSE r \in {A(s, o) : o \in {OutOf(s, pinned)}} : TRUE
           C == CHOOSE r \in {B(s) : s \in {sticky}} : TRUE
<1>1. Packed(free, pinned, previous, max) = C
  BY Zenon DEF Packed, With, OutOf, MaybeCompacted
<1>2. \A s, o : A(s, o) = MaybeCompacted(F(s, o))
  <2> HIDE DEF F
  <2> QED OBVIOUS
<1> HIDE DEF A, F
<1>3. \A s : B(s) = A(s, OutOf(s, pinned))
  OBVIOUS
<1> HIDE DEF B
<1>4. C = B(sticky)
  <2> HIDE DEF sticky
  <2> QED OBVIOUS
<1>5. QED BY <1>1, <1>2, <1>3, <1>4 DEF F

\* Packing leaves every group in one bin, within the limits.
LEMMA PackedComplete ==
  ASSUME NEW us, IsCatalog(us), \A g \in Groups(us) : Fits(g, SlotBytes),
         NEW previous, NEW max \in Nat
  PROVE  Complete(Packed(Free(us), PinnedGroup(us), previous, max), us)
<1> DEFINE sticky == Sticky(Free(us), PinnedGroup(us), previous, max)
           out == OutOf(sticky, PinnedGroup(us))
           bins == Filled(Free(us), sticky, out, max)
<1>1. Sorted(sticky, us)
  BY StickySorted
<1>2. \A i \in DOMAIN sticky : out[i] = Evicted(sticky[i], PinnedGroup(us))
  BY DEF OutOf
<1>3. Packed(Free(us), PinnedGroup(us), previous, max) = MaybeCompacted(bins)
  BY PackedIs
<1> HIDE DEF sticky, out
<1>4. Complete(bins, us)
  BY <1>1, <1>2, FilledComplete
<1> HIDE DEF bins
<1>5. Wasteful(bins) => DOMAIN bins # {0}
  BY DEF Wasteful
<1>6. QED BY <1>3, <1>4, <1>5, CompactedComplete DEF MaybeCompacted

-----------------------------------------------------------------------------

\* Bins that share no group share no unit.
LEMMA BinsApart ==
  ASSUME NEW us, NEW b, Good(b, us), NEW i \in DOMAIN b, NEW j \in DOMAIN b, i # j
  PROVE  Load(b, i) \cap Load(b, j) = {}
<1>1. b[i] \in SUBSET Groups(us) /\ b[j] \in SUBSET Groups(us) /\ b[i] \cap b[j] = {}
  BY OfBinSets DEF Good
<1>2. SUFFICES ASSUME NEW u, u \in UNION b[i], u \in UNION b[j] PROVE FALSE
  BY DEF Load
<1>3. PICK g \in b[i], h \in b[j] : u \in g /\ u \in h
  BY <1>2
<1>4. g \in Groups(us) /\ h \in Groups(us) /\ g # h
  BY <1>1, <1>3
<1>5. QED BY <1>3, <1>4, GroupsPartition

\* A bin of a slot, slot 0's first.
Numbers(o, b) ==
  LET N == Cardinality(DOMAIN b) IN
  /\ o \in [0 .. N - 1 -> DOMAIN b] /\ o[0] = 0
  /\ \A n, k \in 0 .. N - 1 : o[n] = o[k] => n = k
  /\ \A i \in DOMAIN b : \E n \in 0 .. N - 1 : o[n] = i
  /\ \A n \in 0 .. N - 1 : Dense(b)[n] = Load(b, o[n])

\* The slots are the bins, numbered without gaps.
LEMMA DenseIs ==
  ASSUME NEW us, NEW b \in BinSets(us), 0 \in DOMAIN b
  PROVE  /\ Cardinality(DOMAIN b) \in Nat \ {0}
         /\ DOMAIN Dense(b) = 0 .. Cardinality(DOMAIN b) - 1
         /\ \E o : Numbers(o, b)
<1> DEFINE D == DOMAIN b
           N == Cardinality(D)
           order == Ascending(D)
           o == [n \in 0 .. N - 1 |-> order[n + 1]]
<1>1. D \in SUBSET Nat /\ IsFiniteSet(D)
  BY OfBinSets
<1>2. N \in Nat /\ N # 0
  BY <1>1, FS_CardinalityType, FS_EmptySet
<1>3. D \in SUBSET Int
  BY <1>1
<1>4. Dense(b) = [n \in 0 .. N - 1 |-> Load(b, order[n + 1])]
  BY DEF Dense
<1> HIDE DEF D, order, N
<1>5. /\ Enumerates(order, D)
      /\ \A m, n \in 1 .. N : m < n => order[m] < order[n]
  BY <1>1, <1>3, AscendingEnumerates DEF order, N
<1>6. o \in [0 .. N - 1 -> D]
  <2>1. \A n \in 0 .. N - 1 : n + 1 \in 1 .. N
    BY <1>2
  <2>2. \A m \in 1 .. N : order[m] \in D
    BY <1>5 DEF Enumerates, N
  <2>3. QED BY <2>1, <2>2
<1>7. \A n, k \in 0 .. N - 1 : o[n] = o[k] => n = k
  <2> TAKE n, k \in 0 .. N - 1
  <2>1. n + 1 \in 1 .. N /\ k + 1 \in 1 .. N
    BY <1>2
  <2>2. order[n + 1] = order[k + 1] => n + 1 = k + 1
    BY <1>5, <2>1 DEF Enumerates, N
  <2>3. QED BY <2>2
<1>8. \A i \in D : \E n \in 0 .. N - 1 : o[n] = i
  <2> TAKE i \in D
  <2>1. PICK m \in 1 .. N : order[m] = i
    BY <1>5 DEF Enumerates, N
  <2>2. m - 1 \in 0 .. N - 1 /\ o[m - 1] = order[m]
    BY <1>2, <2>1
  <2>3. QED BY <2>1, <2>2
<1>9. o[0] = 0
  <2>1. PICK m \in 1 .. N : order[m] = 0
    BY <1>5 DEF Enumerates, N, D
  <2>2. 1 \in 1 .. N /\ order[1] \in Nat
    <3>1. order \in [1 .. N -> D]
      BY <1>5 DEF Enumerates, N
    <3>2. 1 \in 1 .. N
      BY <1>2
    <3>3. QED BY <1>1, <3>1, <3>2
  <2>3. m = 1 \/ 1 < m
    BY <1>2
  <2>4. ~(1 < m)
    BY <1>5, <2>1, <2>2
  <2>5. order[1] = 0
    BY <2>1, <2>3, <2>4
  <2>6. 0 \in 0 .. N - 1
    BY <1>2
  <2>7. QED BY <2>5, <2>6
<1>10. \A n \in 0 .. N - 1 : Dense(b)[n] = Load(b, o[n])
  BY <1>4
<1> HIDE DEF o
<1>11. Numbers(o, b)
  BY <1>6, <1>7, <1>8, <1>9, <1>10 DEF Numbers, N, D
<1>12. QED BY <1>2, <1>4, <1>11 DEF N, D

\* Slots of complete bins keep the planner's rules.
LEMMA DenseKeeps ==
  ASSUME NEW us, IsCatalog(us), NEW b, Complete(b, us),
         NEW max, Cardinality(DOMAIN b) <= max
  PROVE  KeepsRules(us, max, Open(Dense(b)))
<1> DEFINE N == Cardinality(DOMAIN b)
           slots == Dense(b)
<1>1. b \in BinSets(us) /\ 0 \in DOMAIN b /\ \A i \in DOMAIN b : b[i] \in SUBSET Groups(us)
  BY OfBinSets DEF Complete, Good
<1>2. N \in Nat \ {0} /\ DOMAIN slots = 0 .. N - 1
  BY <1>1, DenseIs
<1>3. PICK o : Numbers(o, b)
  BY <1>1, DenseIs
<1> HIDE DEF N, slots
<1>4. /\ o \in [0 .. N - 1 -> DOMAIN b] /\ o[0] = 0
      /\ \A n, k \in 0 .. N - 1 : o[n] = o[k] => n = k
      /\ \A i \in DOMAIN b : \E n \in 0 .. N - 1 : o[n] = i
      /\ \A n \in 0 .. N - 1 : slots[n] = Load(b, o[n])
  BY <1>3 DEF Numbers, N, slots
<1>5. \A n \in 0 .. N - 1 : slots[n] \in SUBSET us
  <2> TAKE n \in 0 .. N - 1
  <2>1. slots[n] = UNION b[o[n]] /\ b[o[n]] \in SUBSET Groups(us)
    BY <1>1, <1>4 DEF Load
  <2>2. QED BY <2>1, GroupsPartition
<1>6. ASSUME NEW u \in us PROVE \E n \in 0 .. N - 1 : u \in slots[n]
  <2>1. PICK g \in Groups(us) : u \in g
    BY GroupsPartition
  <2>2. PICK i \in DOMAIN b : g \in b[i]
    BY <2>1 DEF Complete, Content
  <2>3. QED BY <1>4, <2>1, <2>2 DEF Load
<1>7. UNION {slots[n] : n \in DOMAIN slots} = us
  BY <1>2, <1>5, <1>6
<1>8. \A n, k \in DOMAIN slots : n # k => slots[n] \cap slots[k] = {}
  BY <1>2, <1>4, BinsApart DEF Complete
<1>9. \A n \in DOMAIN slots : Fits(slots[n], SlotBytes)
  BY <1>2, <1>4 DEF Complete, Good
<1>10. Cardinality(DOMAIN slots) = N
  <2>1. Cardinality(0 .. N - 1) = N
    BY <1>2, FS_Interval
  <2>2. QED BY <1>2, <2>1
<1>11. ASSUME NEW u \in Pinned(us) PROVE u \in slots[0]
  <2>1. u \in us
    BY DEF Pinned
  <2>2. PICK g \in Groups(us) : u \in g
    BY <2>1, GroupsPartition
  <2>3. g \in PinnedGroup(us)
    BY <2>2 DEF PinnedGroup
  <2>4. g \in b[0]
    BY <2>3 DEF Complete
  <2>5. 0 \in 0 .. N - 1
    BY <1>2
  <2>6. slots[0] = UNION b[0]
    BY <1>4, <2>5 DEF Load
  <2>7. QED BY <2>2, <2>4, <2>6
<1>12. ASSUME NEW u \in us, NEW v \in us, Tied(us, u, v), NEW n \in DOMAIN slots, u \in slots[n]
       PROVE  v \in slots[n]
  <2>1. slots[n] = UNION b[o[n]] /\ b[o[n]] \in SUBSET Groups(us)
    BY <1>1, <1>2, <1>4 DEF Load
  <2>2. PICK g \in b[o[n]] : u \in g
    BY <1>12, <2>1
  <2>3. v \in g
    BY <1>12, <2>1, <2>2, TiedTogether
  <2>4. QED BY <2>1, <2>3
<1>13. \A u, v \in us : u.multi /\ Intersects(u, v) => Tied(us, u, v) /\ Tied(us, v, u)
  BY DEF Tied, Intersects
<1>14. \A u \in us : u.order \/ u.stop => u \in Pinned(us)
  BY DEF Pinned
<1>15. \A s, u \in us : s.stop /\ s.priority < u.priority => u \in Pinned(us)
  BY DEF Pinned
<1>16. \A u, v \in us : u.multi /\ Intersects(u, v)
              => \A n \in DOMAIN slots : u \in slots[n] <=> v \in slots[n]
  BY <1>12, <1>13
<1>17. Open(slots).slots = slots
  BY DEF Open
<1>18. KeepsRules(us, max, Open(slots))
  BY <1>7, <1>8, <1>9, <1>10, <1>11, <1>14, <1>15, <1>16, <1>17 DEF KeepsRules, N
<1>19. QED BY <1>18 DEF slots

\* One slot with everything keeps them too.
LEMMA OneKeeps ==
  ASSUME NEW us, Fits(us, SlotBytes), NEW max
  PROVE  KeepsRules(us, max, Open([n \in {0} |-> us]))
BY DEF KeepsRules, Open

\* The ways to a plan that may be written.
AllInFirst(us, previous) == \A u \in us : u.id \in DOMAIN previous => previous[u.id] = 0

\* One slot takes all units.
InOne(us, previous, max) ==
  IF Single(us, max) THEN ~Overflows(us) ELSE AllInFirst(us, previous) /\ Fits(us, SlotBytes)

\* A plan that may be written is one slot with everything, or the packed bins.
LEMMA PlanWays ==
  ASSUME NEW us, NEW previous, NEW max
  PROVE  LET plan_ == Plan(us, previous, max)
             bins == Packed(Free(us), PinnedGroup(us), previous, max)
             each == \A u \in us : Fits({u}, SlotBytes)
             groups == \A g \in Groups(us) : Fits(g, SlotBytes)
         IN /\ each /\ InOne(us, previous, max) => plan_ = Open([n \in {0} |-> us])
            /\ each /\ ~Single(us, max) /\ ~InOne(us, previous, max) /\ groups
                 /\ ~(Cardinality(DOMAIN bins) > max)
               => plan_ = Open(Dense(bins))
            /\ plan_.blocked = "no" =>
                 each /\ (\/ InOne(us, previous, max)
                          \/ ~Single(us, max) /\ groups /\ ~(Cardinality(DOMAIN bins) > max))
<1> DEFINE p == Plan(us, previous, max)
           bins == Packed(Free(us), PinnedGroup(us), previous, max)
           each == \A u \in us : Fits({u}, SlotBytes)
           groups == \A g \in Groups(us) : Fits(g, SlotBytes)
           over == Cardinality(DOMAIN bins) > max
           last == IF over THEN BlockedBy("AUTOMATIC_DISCOUNT_LIMIT") ELSE Open(Dense(bins))
<1>1. p = IF ~each THEN BlockedBy("OFFER_TOO_LARGE")
          ELSE IF Single(us, max)
            THEN IF Overflows(us) THEN BlockedBy("SLOT_FULL") ELSE Open([n \in {0} |-> us])
          ELSE IF AllInFirst(us, previous) /\ Fits(us, SlotBytes) THEN Open([n \in {0} |-> us])
          ELSE IF \E g \in PinnedGroup(us) : ~Fits(g, SlotBytes) THEN BlockedBy("SLOT0_GROUP_TOO_LARGE")
          ELSE IF \E g \in Groups(us) : ~Fits(g, SlotBytes) THEN BlockedBy("GROUP_TOO_LARGE")
          ELSE last
  <2>1. last = CHOOSE r \in {IF Cardinality(DOMAIN v) > max THEN BlockedBy("AUTOMATIC_DISCOUNT_LIMIT")
                              ELSE Open(Dense(v)) : v \in {bins}} : TRUE
    <3> HIDE DEF bins
    <3> QED OBVIOUS
  <2>2. QED BY <2>1, Zenon DEF Plan, With, AllInFirst, Free
<1>2. /\ \A c \in {"OFFER_TOO_LARGE", "SLOT_FULL", "SLOT0_GROUP_TOO_LARGE", "GROUP_TOO_LARGE",
                   "AUTOMATIC_DISCOUNT_LIMIT"} : BlockedBy(c).blocked # "no"
      /\ PinnedGroup(us) \subseteq Groups(us)
  BY DEF BlockedBy, PinnedGroup
<1> HIDE DEF p, bins
<1>3. QED BY <1>1, <1>2 DEF InOne, p, bins

\* Every plan keeps the planner's rules.
LEMMA PlanKeeps ==
  ASSUME NEW us, IsCatalog(us), NEW previous, NEW max \in Nat
  PROVE  KeepsRules(us, max, Plan(us, previous, max))
<1> DEFINE p == Plan(us, previous, max)
           bins == Packed(Free(us), PinnedGroup(us), previous, max)
<1>1. SUFFICES ASSUME p.blocked = "no" PROVE KeepsRules(us, max, p)
  BY DEF KeepsRules
<1>2. CASE InOne(us, previous, max)
  <2>1. p = Open([n \in {0} |-> us])
    BY <1>1, <1>2, PlanWays
  <2>2. Fits(us, SlotBytes)
    BY <1>2, OverflowsNot DEF InOne
  <2>3. QED BY <2>1, <2>2, OneKeeps
<1>3. CASE ~InOne(us, previous, max)
  <2>1. /\ p = Open(Dense(bins)) /\ ~(Cardinality(DOMAIN bins) > max)
        /\ \A g \in Groups(us) : Fits(g, SlotBytes)
    BY <1>1, <1>3, PlanWays
  <2>2. Complete(bins, us)
    BY <2>1, PackedComplete
  <2>3. Cardinality(DOMAIN bins) \in Nat
    BY <2>2, DenseIs DEF Complete, Good
  <2> HIDE DEF bins, p
  <2>4. Cardinality(DOMAIN bins) <= max
    BY <2>1, <2>3
  <2>5. QED BY <2>1, <2>2, <2>4, DenseKeeps
<1>4. QED BY <1>2, <1>3

-----------------------------------------------------------------------------
(* Planning again.                                                         *)

\* Where every unit is in the slots.
Places(previous, us, slots) ==
  /\ DOMAIN previous = Ids(us)
  /\ \A u \in us : previous[u.id] \in DOMAIN slots /\ u \in slots[previous[u.id]]

\* The sticky bins are the slots with something in them.
LEMMA StickyAgain ==
  ASSUME NEW us, IsCatalog(us), NEW b, Complete(b, us), NEW max \in Nat,
         Cardinality(DOMAIN b) <= max, NEW previous, Places(previous, us, Dense(b))
  PROVE  LET s == Sticky(Free(us), PinnedGroup(us), previous, max) IN
         /\ Complete(s, us) /\ DOMAIN s \subseteq DOMAIN Dense(b)
         /\ \A i \in DOMAIN s : Load(s, i) = Dense(b)[i] /\ (i # 0 => s[i] # {})
         /\ \A i \in DOMAIN Dense(b) : i \in DOMAIN s \/ Dense(b)[i] = {}
<1> DEFINE pinned == PinnedGroup(us)
           N == Cardinality(DOMAIN b)
           slots == Dense(b)
           Where(g) == PreviousSlots(previous, g, max)
           s == Sticky(Free(us), pinned, previous, max)
<1>1. b \in BinSets(us) /\ 0 \in DOMAIN b /\ \A i \in DOMAIN b : b[i] \in SUBSET Groups(us)
  BY OfBinSets DEF Complete, Good
<1>2. N \in Nat \ {0} /\ DOMAIN slots = 0 .. N - 1
  BY <1>1, DenseIs
<1>3. PICK o : Numbers(o, b)
  BY <1>1, DenseIs
<1> HIDE DEF N, slots
<1>4. /\ o \in [0 .. N - 1 -> DOMAIN b] /\ o[0] = 0
      /\ \A n, k \in 0 .. N - 1 : o[n] = o[k] => n = k
      /\ \A i \in DOMAIN b : \E n \in 0 .. N - 1 : o[n] = i
      /\ \A n \in 0 .. N - 1 : slots[n] = Load(b, o[n])
  BY <1>3 DEF Numbers, N, slots
<1>5. ASSUME NEW g \in Groups(us), NEW n \in 0 .. N - 1, g \in b[o[n]]
      PROVE  Where(g) = {n}
  <2>1. ASSUME NEW u \in g PROVE u \in us /\ u.id \in DOMAIN previous /\ previous[u.id] = n
    <3>1. u \in us
      BY GroupsPartition
    <3>2. u.id \in DOMAIN previous /\ previous[u.id] \in 0 .. N - 1 /\ u \in slots[previous[u.id]]
      BY <1>2, <3>1 DEF Places, slots, Ids
    <3>3. u \in slots[n]
      <4>1. slots[n] = UNION b[o[n]]
        BY <1>4 DEF Load
      <4>2. QED BY <1>5, <4>1
    <3> DEFINE k == previous[u.id]
    <3> HIDE DEF k
    <3>4. k # n => o[k] # o[n]
      BY <1>4, <3>2 DEF k
    <3>5. slots[k] = Load(b, o[k]) /\ slots[n] = Load(b, o[n]) /\ o[k] \in DOMAIN b /\ o[n] \in DOMAIN b
      BY <1>4, <3>2 DEF k
    <3>6. k = n
      BY <3>2, <3>3, <3>4, <3>5, BinsApart DEF Complete, k
    <3>7. QED BY <3>1, <3>2, <3>6 DEF k
  <2>2. n \in 0 .. max - 1
    BY <1>2 DEF N
  <2>3. g # {}
    BY GroupsPartition
  <2>4. QED BY <2>1, <2>2, <2>3 DEF PreviousSlots
<1>6. ASSUME NEW g \in Groups(us) PROVE \E n \in 0 .. N - 1 : g \in b[o[n]]
  <2>1. PICK i \in DOMAIN b : g \in b[i]
    BY DEF Complete, Content
  <2>2. QED BY <1>4, <2>1
<1>7. \A n \in 0 .. N - 1 : Min({n}) = n
  <2> TAKE n \in 0 .. N - 1
  <2>1. {n} \in SUBSET Nat /\ {n} # {}
    OBVIOUS
  <2>2. QED BY <2>1, MinIn
<1>8. Free(us) = {g \in Free(us) : Where(g) # {}}
  BY <1>5, <1>6 DEF Free
<1>9. s = [i \in {0} \cup {Min(Where(g)) : g \in Free(us)} |->
             {g \in Free(us) : Min(Where(g)) = i} \cup (IF i = 0 THEN pinned ELSE {})]
  <2>1. s = [i \in {0} \cup {Min(Where(g)) : g \in {h \in Free(us) : Where(h) # {}}} |->
             {g \in {h \in Free(us) : Where(h) # {}} : Min(Where(g)) = i}
               \cup (IF i = 0 THEN pinned ELSE {})]
    BY DEF Sticky
  <2>2. QED BY <1>8, <2>1
<1>10. \A g \in Groups(us), n \in 0 .. N - 1 : g \in b[o[n]] => Min(Where(g)) = n
  BY <1>5, <1>7
<1>11. Sorted(s, us)
  BY StickySorted
<1> HIDE DEF Where, s
<1>12. \A g \in Free(us) : Min(Where(g)) \in 0 .. N - 1 /\ g \in b[o[Min(Where(g))]]
  BY <1>6, <1>10 DEF Free
<1>13. DOMAIN s \subseteq 0 .. N - 1
  <2>1. 0 \in 0 .. N - 1
    BY <1>2
  <2>2. QED BY <1>9, <1>12, <2>1
<1>14. ASSUME NEW i \in DOMAIN s PROVE s[i] = b[o[i]]
  <2>1. i \in 0 .. N - 1 /\ b[o[i]] \in SUBSET Groups(us)
    BY <1>1, <1>4, <1>13
  <2>2. s[i] = {g \in Free(us) : Min(Where(g)) = i} \cup (IF i = 0 THEN pinned ELSE {})
    BY <1>9
  <2>3. \A g \in s[i] : g \in b[o[i]]
    BY <1>4, <1>12, <2>2 DEF Complete
  <2>4. ASSUME NEW g \in b[o[i]] PROVE g \in s[i]
    <3>1. CASE g \in Free(us)
      BY <1>10, <2>1, <2>2, <3>1
    <3>2. CASE g \notin Free(us)
      <4>1. g \in pinned
        BY <2>1, <3>2 DEF Free
      <4>2. g \in b[0]
        BY <4>1 DEF Complete
      <4>3. o[i] = 0
        BY <1>1, <1>4, <2>1, <2>4, <4>2 DEF Complete, Good
      <4>4. i = 0
        BY <1>2, <1>4, <2>1, <4>3
      <4>5. QED BY <2>2, <4>1, <4>4
    <3>3. QED BY <3>1, <3>2
  <2>5. QED BY <2>3, <2>4
<1>15. \A i \in DOMAIN s : Load(s, i) = slots[i]
  BY <1>4, <1>13, <1>14 DEF Load
<1>16. \A i \in DOMAIN s : i # 0 => s[i] # {}
  BY <1>9
<1>17. ASSUME NEW i \in 0 .. N - 1, i \notin DOMAIN s PROVE slots[i] = {}
  <2>1. b[o[i]] \in SUBSET Groups(us)
    BY <1>1, <1>4
  <2>2. ASSUME NEW g \in b[o[i]] PROVE FALSE
    <3>1. g \notin Free(us)
      BY <1>9, <1>10, <1>17, <2>1, <2>2
    <3>2. g \in b[0]
      BY <2>1, <3>1 DEF Free, Complete
    <3>3. o[i] = 0
      BY <1>1, <1>4, <2>2, <3>2 DEF Complete, Good
    <3>4. i = 0
      BY <1>2, <1>4, <3>3
    <3>5. QED BY <1>9, <1>17, <3>4
  <2>3. b[o[i]] = {}
    BY <2>2
  <2>4. QED BY <1>4, <2>3 DEF Load
<1>18. Content(s) = Groups(us)
  <2>1. Content(s) \subseteq Groups(us)
    BY <1>11, GoodContent DEF Sorted
  <2>2. ASSUME NEW g \in Groups(us) PROVE g \in Content(s)
    <3>1. CASE g \in Free(us)
      <4>1. Min(Where(g)) \in DOMAIN s /\ g \in s[Min(Where(g))]
        BY <1>9, <3>1
      <4>2. QED BY <4>1 DEF Content
    <3>2. CASE g \notin Free(us)
      <4>1. g \in pinned
        BY <3>2 DEF Free
      <4>2. QED BY <1>11, <4>1 DEF Sorted, Content
    <3>3. QED BY <3>1, <3>2
  <2>3. QED BY <2>1, <2>2
<1>19. \A i \in DOMAIN s : Fits(Load(s, i), SlotBytes)
  BY <1>4, <1>13, <1>15 DEF Complete, Good
<1>20. Complete(s, us)
  BY <1>11, <1>18, <1>19 DEF Complete, Good, Sorted
<1>21. QED BY <1>2, <1>13, <1>15, <1>16, <1>17, <1>20 DEF s, slots

\* Nothing is evicted, and nothing is left to place.
LEMMA FilledAgain ==
  ASSUME NEW us, IsCatalog(us), NEW s, Complete(s, us), \A i \in DOMAIN s : i # 0 => s[i] # {},
         NEW max
  PROVE  Filled(Free(us), s, OutOf(s, PinnedGroup(us)), max) = s
<1> DEFINE out == OutOf(s, PinnedGroup(us))
           D == DOMAIN s
<1>1. 0 \in D /\ s \in [D -> SUBSET Groups(us)] /\ \A i \in D : s[i] \in SUBSET Groups(us)
  BY OfBinSets DEF Complete, Good
<1>2. ASSUME NEW i \in D PROVE out[i] = {}
  <2> DEFINE gs == s[i]
             pinned == PinnedGroup(us)
  <2>1. Fits(UNION gs, SlotBytes) /\ gs \in SUBSET Groups(us)
    BY <1>1 DEF Complete, Good, Load
  <2>2. out[i] = Evicted(gs, pinned)
    BY DEF OutOf
  <2> HIDE DEF gs, pinned
  <2>3. Evicted(gs, pinned) = {}
    BY <2>1, EvictedIs
  <2>4. QED BY <2>2, <2>3
<1> HIDE DEF out, D
<1>3. {0} \cup {j \in D : s[j] # out[j]} = D
  BY <1>1, <1>2 DEF D
<1>4. Cut(s, out) = [i \in D |-> s[i] \ out[i]]
  BY <1>3 DEF Cut, D
<1>5. Cut(s, out) = s
  BY <1>1, <1>2, <1>4
<1>6. Free(us) \ Content(s) = {}
  BY DEF Free, Complete
<1>7. Filled(Free(us), s, out, max) = PlaceAll(s, {}, max)
  BY <1>5, <1>6, FilledIs
<1>8. PlaceAll(s, {}, max) = s
  <2>1. {} \in SUBSET Groups(us) /\ {} \cap Content(s) = {} /\ Good(s, us)
    BY DEF Complete
  <2>2. QED BY <2>1, PlaceAllGood
<1>9. QED BY <1>7, <1>8 DEF out

\* A plan made from itself changes nothing but empty slots.
LEMMA PlanSettles ==
  ASSUME NEW us, IsCatalog(us), NEW previous, NEW max \in Nat,
         Plan(us, previous, max).blocked = "no",
         NEW placed, Places(placed, us, Plan(us, previous, max).slots)
  PROVE  /\ Plan(us, placed, max).blocked = "no"
         /\ Settles(Plan(us, previous, max).slots, Plan(us, placed, max).slots)
<1> DEFINE first == Plan(us, previous, max)
           again == Plan(us, placed, max)
           one == [n \in {0} |-> us]
<1>1. \A c : Open(c).blocked = "no" /\ Open(c).slots = c
  BY DEF Open
<1>2. CASE InOne(us, placed, max)
  <2>1. again = Open(one)
    BY <1>2, PlanWays
  <2>2. UNION {first.slots[n] : n \in DOMAIN first.slots} = us
    BY PlanKeeps DEF KeepsRules
  <2>3. \A n \in DOMAIN first.slots : first.slots[n] \subseteq one[0]
    BY <2>2
  <2>4. \E n \in DOMAIN first.slots : TRUE
    <3>1. CASE InOne(us, previous, max)
      BY <1>1, <3>1, PlanWays
    <3>2. CASE ~InOne(us, previous, max)
      <4> DEFINE b == Packed(Free(us), PinnedGroup(us), previous, max)
      <4>1. first = Open(Dense(b)) /\ \A g \in Groups(us) : Fits(g, SlotBytes)
        BY <3>2, PlanWays
      <4>2. b \in BinSets(us) /\ 0 \in DOMAIN b
        BY <4>1, PackedComplete DEF Complete, Good
      <4> HIDE DEF b
      <4>3. DOMAIN Dense(b) = 0 .. Cardinality(DOMAIN b) - 1 /\ Cardinality(DOMAIN b) \in Nat \ {0}
        BY <4>2, DenseIs
      <4>4. 0 \in DOMAIN Dense(b)
        BY <4>3
      <4>5. QED BY <1>1, <4>1, <4>4
    <3>3. QED BY <3>1, <3>2
  <2>5. Settles(first.slots, one)
    BY <2>3, <2>4 DEF Settles
  <2>6. QED BY <1>1, <2>1, <2>5
<1>3. CASE ~InOne(us, placed, max)
  <2> DEFINE b == Packed(Free(us), PinnedGroup(us), previous, max)
             c == Packed(Free(us), PinnedGroup(us), placed, max)
             s == Sticky(Free(us), PinnedGroup(us), placed, max)
  <2>1. ~InOne(us, previous, max)
    <3>1. SUFFICES ASSUME InOne(us, previous, max) PROVE InOne(us, placed, max)
      BY <1>3
    <3>2. CASE Single(us, max)
      BY <3>1, <3>2 DEF InOne
    <3>3. CASE ~Single(us, max)
      <4>1. first = Open(one) /\ Fits(us, SlotBytes)
        BY <3>1, <3>3, PlanWays DEF InOne
      <4>2. \A u \in us : placed[u.id] = 0
        BY <1>1, <4>1 DEF Places
      <4>3. QED BY <3>3, <4>1, <4>2 DEF InOne, AllInFirst
    <3>4. QED BY <3>2, <3>3
  <2>2. /\ first = Open(Dense(b)) /\ ~(Cardinality(DOMAIN b) > max) /\ ~Single(us, max)
        /\ \A g \in Groups(us) : Fits(g, SlotBytes)
        /\ \A u \in us : Fits({u}, SlotBytes)
    BY <2>1, PlanWays
  <2>3. Complete(b, us)
    BY <2>2, PackedComplete
  <2> HIDE DEF b
  <2>4. Cardinality(DOMAIN b) \in Nat \ {0} /\ DOMAIN Dense(b) = 0 .. Cardinality(DOMAIN b) - 1
    BY <2>3, DenseIs DEF Complete, Good
  <2>5. Cardinality(DOMAIN b) <= max /\ Places(placed, us, Dense(b))
    BY <1>1, <2>2, <2>4
  <2>6. /\ Complete(s, us) /\ DOMAIN s \subseteq DOMAIN Dense(b)
        /\ \A i \in DOMAIN s : Load(s, i) = Dense(b)[i] /\ (i # 0 => s[i] # {})
        /\ \A i \in DOMAIN Dense(b) : i \in DOMAIN s \/ Dense(b)[i] = {}
    BY <2>3, <2>5, StickyAgain
  <2>7. c = MaybeCompacted(Filled(Free(us), s, OutOf(s, PinnedGroup(us)), max))
    BY PackedIs
  <2> HIDE DEF s
  <2>8. c = MaybeCompacted(s)
    BY <2>6, <2>7, FilledAgain
  <2> DEFINE victim == IF Wasteful(s) THEN Victim(s) ELSE 0
  <2>9. /\ Complete(c, us) /\ DOMAIN c \subseteq DOMAIN s
        /\ \A i \in DOMAIN s \ {victim} : i \in DOMAIN c /\ s[i] \subseteq c[i]
    <3>1. CASE Wasteful(s)
      <4>1. DOMAIN s # {0}
        BY <3>1 DEF Wasteful
      <4>2. c = Compacted(s)
        BY <2>8, <3>1 DEF MaybeCompacted
      <4>3. QED BY <2>6, <3>1, <4>1, <4>2, CompactedComplete
    <3>2. CASE ~Wasteful(s)
      BY <2>6, <2>8, <3>2 DEF MaybeCompacted
    <3>3. QED BY <3>1, <3>2
  <2>10. victim \in DOMAIN s
    <3>1. CASE Wasteful(s)
      <4>1. DOMAIN s # {0} /\ s \in BinSets(us) /\ 0 \in DOMAIN s
        BY <2>6, <3>1 DEF Wasteful, Complete, Good
      <4>2. QED BY <3>1, <4>1, VictimIs
    <3>2. CASE ~Wasteful(s)
      BY <2>6, <3>2 DEF Complete, Good
    <3>3. QED BY <3>1, <3>2
  <2> HIDE DEF c, victim
  <2>11. ~(Cardinality(DOMAIN c) > max)
    <3>1. IsFiniteSet(0 .. Cardinality(DOMAIN b) - 1)
            /\ Cardinality(0 .. Cardinality(DOMAIN b) - 1) = Cardinality(DOMAIN b)
      BY <2>4, FS_Interval
    <3>2. DOMAIN c \in SUBSET DOMAIN Dense(b)
      BY <2>6, <2>9
    <3>3. IsFiniteSet(DOMAIN c) /\ Cardinality(DOMAIN c) <= Cardinality(DOMAIN b)
      BY <2>4, <3>1, <3>2, FS_Subset
    <3>4. Cardinality(DOMAIN c) \in Nat
      BY <3>3, FS_CardinalityType
    <3>5. QED BY <2>4, <2>5, <3>3, <3>4
  <2>12. again = Open(Dense(c))
    BY <1>3, <2>2, <2>11, PlanWays DEF c
  <2>13. PICK o : Numbers(o, c)
    BY <2>9, DenseIs DEF Complete, Good
  <2>14. DOMAIN Dense(c) = 0 .. Cardinality(DOMAIN c) - 1 /\ Cardinality(DOMAIN c) \in Nat \ {0}
    BY <2>9, DenseIs DEF Complete, Good
  <2>15. \A i \in DOMAIN c : \E k \in DOMAIN Dense(c) : Dense(c)[k] = Load(c, i)
    BY <2>13, <2>14 DEF Numbers
  <2>16. ASSUME NEW n \in DOMAIN Dense(b), n # victim
         PROVE  \E k \in DOMAIN Dense(c) : Dense(b)[n] \subseteq Dense(c)[k]
    <3>1. CASE n \in DOMAIN s
      <4>1. Dense(b)[n] = UNION s[n] /\ n \in DOMAIN c /\ s[n] \subseteq c[n]
        BY <2>6, <2>9, <2>16, <3>1 DEF Load
      <4>2. Dense(b)[n] \subseteq Load(c, n)
        BY <4>1 DEF Load
      <4>3. QED BY <2>15, <4>1, <4>2
    <3>2. CASE n \notin DOMAIN s
      <4>1. Dense(b)[n] = {} /\ 0 \in DOMAIN Dense(c)
        BY <2>6, <2>14, <3>2
      <4>2. QED BY <4>1
    <3>3. QED BY <3>1, <3>2
  <2>17. Settles(Dense(b), Dense(c))
    BY <2>6, <2>10, <2>16 DEF Settles
  <2>18. QED BY <1>1, <2>2, <2>12, <2>17
<1>4. QED BY <1>2, <1>3
-----------------------------------------------------------------------------

\* For every catalog, whatever was published before and whatever number of slots is
\* allowed: a plan has every offer in exactly one slot, tied offers together, what is
\* pinned in slot 0, every slot within its limits; and to plan again settles (planShards).
THEOREM PlansCorrect == ShardsSpec => []PlansAreSound
<1> DEFINE Fed == active \in Catalogs
<1>1. ShardsInit => Fed
  BY DEF ShardsInit
<1>2. Fed /\ [ShardsNext]_shardVars => Fed'
  <2> SUFFICES ASSUME Fed, [ShardsNext]_shardVars PROVE Fed'
    OBVIOUS
  <2> USE DEF merchant, aside, locals, stores, shopNodes
  <2>1. CASE PublishStep
    BY <2>1 DEF PublishStep, Begin, MakeOwn, StoreOwn, ReadUnits, ReadBudget, PlanSlots,
       CountShards,
       EnsureShards, MakeShard, WriteList, PushSlots, SaveSlot, DeleteShard, Done
  <2>2. CASE Abort
    BY <2>2 DEF Abort
  <2>3. CASE EditOffers
    BY <2>3 DEF EditOffers
  <2>4. CASE SetFlag
    BY <2>4 DEF SetFlag
  <2>5. CASE DeleteNode
    BY <2>5 DEF DeleteNode
  <2>6. CASE OtherDiscounts
    BY <2>6 DEF OtherDiscounts
  <2>7. CASE UNCHANGED shardVars
    BY <2>7 DEF shardVars
  <2>8. QED BY <2>1, <2>2, <2>3, <2>4, <2>5, <2>6, <2>7 DEF ShardsNext
<1>3. Fed => PlansAreSound
  <2> SUFFICES ASSUME Fed, NEW previous \in PreviousMaps, NEW max \in 1 .. MaxSlots
               PROVE  LET first == Plan(active, previous, max) IN
                      /\ KeepsRules(active, max, first)
                      /\ first.blocked = "no" =>
                           LET again == Plan(active, Placement(first.slots), max)
                           IN again.blocked = "no" /\ Settles(first.slots, again.slots)
    BY DEF PlansAreSound
  <2> DEFINE first == Plan(active, previous, max)
             placed == Placement(first.slots)
  <2>1. IsCatalog(active) /\ max \in Nat
    BY CatalogAssumption, ShardsAssumption
  <2>2. KeepsRules(active, max, first)
    BY <2>1, PlanKeeps
  <2>3. ASSUME first.blocked = "no" PROVE Places(placed, active, first.slots)
    <3> DEFINE slots == first.slots
    <3>1. UNION {slots[n] : n \in DOMAIN slots} = active
      BY <2>2, <2>3 DEF KeepsRules
    <3> HIDE DEF slots
    <3>2. placed = [u \in Ids(active) |-> CHOOSE n \in DOMAIN slots : u \in Ids(slots[n])]
      BY DEF Placement, slots
    <3>3. ASSUME NEW u \in active
          PROVE  placed[u.id] \in DOMAIN slots /\ u \in slots[placed[u.id]]
      <4>1. u.id \in Ids(active)
        BY DEF Ids
      <4>2. \E n \in DOMAIN slots : u.id \in Ids(slots[n])
        BY <3>1 DEF Ids
      <4>3. placed[u.id] \in DOMAIN slots /\ u.id \in Ids(slots[placed[u.id]])
        BY <3>2, <4>1, <4>2
      <4>4. PICK w \in slots[placed[u.id]] : w.id = u.id
        BY <4>3 DEF Ids
      <4>5. w \in active
        BY <3>1, <4>3
      <4>6. QED BY <2>1, <4>3, <4>4, <4>5 DEF IsCatalog
    <3>4. Places(placed, active, slots)
      BY <3>2, <3>3 DEF Places
    <3>5. QED BY <3>4 DEF slots
  <2> HIDE DEF placed
  <2>4. QED BY <2>1, <2>2, <2>3, PlanSettles DEF placed
<1>4. QED BY <1>1, <1>2, <1>3, PTL DEF ShardsSpec

-----------------------------------------------------------------------------
(* The inductive invariant.                                                *)

\* A row of discount_shards, as long as it is there.
Row  == [node : NodeIds, units : SUBSET Nat]

\* A node in Shopify.
Node == [title : Nat, offers : SUBSET Nat]

\* The slots above 0 that have a row.
Shards == DOMAIN rows \ {0}

\* The slots of the plan.
Numbered == 0 .. Wanted

\* The rows whose node is still there.
LiveSlots == {s \in Shards : rows[s].node \in DOMAIN nodes}

\* The rows are a list; what is remembered is finite.
Shape ==
  /\ nodes \in [DOMAIN nodes -> Node] /\ IsFiniteSet(DOMAIN nodes)
  /\ rows \in [DOMAIN rows -> Row]
  /\ \E k \in 0 .. MaxSlots - 1 : Shards = 1 .. k
  /\ IsFiniteSet(used)

\* Slot 0's node has a title of its own.
Titles ==
  /\ own \in DOMAIN nodes => nodes[own].title = 0
  /\ \A s \in Shards : rows[s].node \in DOMAIN nodes => nodes[rows[s].node].title > 0
  /\ \A j \in DOMAIN pool : pool[j] \in DOMAIN nodes => nodes[pool[j]].title > 0
  /\ phase \in {"find", "store"} => own \notin DOMAIN nodes
  /\ phase = "store" => at \in NodeIds /\ (at \in DOMAIN nodes => nodes[at].title = 0)

\* From planning on, the plan spreads the units it read over its slots.
Planned ==
  /\ phase \in {"idle", "find", "read", "budget", "plan"} => at <= MaxSlots
  /\ phase \in {"idle", "find", "store", "read", "budget", "plan"} => plan = <<>>
  /\ phase \in {"live", "ensure", "make", "list", "push", "save", "delete", "endlist", "done"} =>
       /\ DOMAIN plan = Numbered /\ Wanted \in 0 .. MaxSlots - 1
       /\ UNION {plan[n] : n \in Numbered} = taken
       /\ \A n, k \in Numbered : n # k => plan[n] \cap plan[k] = {}

\* How far the list is, and what it is longer than.
Listed ==
  /\ phase \in {"ensure", "make", "list"} => Wanted > 0 /\ needed >= Wanted
  /\ phase = "ensure" => Cardinality(LiveSlots) <= needed
  /\ phase = "make" => Len(pool) < needed
  /\ Len(pool) <= MaxSlots - 1
  /\ phase \in {"push", "save", "delete"} =>
       /\ Len(pool) >= Wanted
       /\ Wanted > 0 => Shards = DOMAIN pool /\ \A j \in DOMAIN pool : rows[j].node = pool[j]
  /\ phase \in {"list", "endlist"} =>
       /\ at \in 1 .. Len(pool) + 1
       /\ \A j \in 1 .. at - 1 : j \in Shards /\ rows[j].node = pool[j]

\* A recorded node that is still there is in the pool, no later than in the rows.
Covered ==
  phase \in {"make", "list", "push", "save", "delete", "endlist"} =>
    \A s \in Shards :
      /\ phase \in {"list", "endlist"} => s >= at
      /\ rows[s].node \in DOMAIN nodes
      => \E j \in DOMAIN pool : j <= s /\ pool[j] = rows[s].node

\* The nodes beyond the plan are empty before they are deleted.
Drained ==
  /\ phase \in {"save", "delete"} =>
       \A j \in DOMAIN pool : j > Wanted /\ pool[j] \in DOMAIN nodes => nodes[pool[j]].offers = {}
  /\ phase = "delete" => gone \cap DOMAIN nodes = {} /\ at > Wanted

\* No offer is in two nodes, and what serves is recorded.
Served ==
  /\ \A n, m \in DOMAIN nodes : n # m => nodes[n].offers \cap nodes[m].offers = {}
  /\ \A n \in DOMAIN nodes : nodes[n].offers # {} => n = own \/ \E s \in Shards : rows[s].node = n

\* No node is in two rows.
Unrepeated == \A s, t \in Shards : rows[s].node = rows[t].node => s = t

\* Undisturbed, the list has no repetition, and what is written is what was read.
Calm ==
  calm =>
    /\ phase \in {"find", "store", "read", "budget", "plan", "live", "ensure"} => Unrepeated
    /\ phase \in {"make", "list", "push"} => \A i, j \in DOMAIN pool : pool[i] = pool[j] => i = j
    /\ phase \in {"save", "delete", "endlist", "done"} =>
         UNION {nodes[n].offers : n \in DOMAIN nodes} = Ids(taken)

\* The inductive invariant.
ShardsInv == Shape /\ Titles /\ Planned /\ Listed /\ Covered /\ Drained /\ Served /\ Calm

-----------------------------------------------------------------------------
(* Lists of nodes, and new ones.                                           *)

\* The numbers up to k in ascending order.
LEMMA AscendingInterval ==
  ASSUME NEW k \in Nat
  PROVE  /\ DOMAIN Ascending(1 .. k) = 1 .. k
         /\ \A n \in 1 .. k : Ascending(1 .. k)[n] = n
<1> DEFINE S == 1 .. k
           a == Ascending(S)
<1>1. IsFiniteSet(S) /\ Cardinality(S) = k
  BY FS_Interval
<1>2. a = [n \in 1 .. k |-> CHOOSE x \in S : Cardinality({y \in S : y < x}) = n - 1]
  BY <1>1 DEF Ascending, Ordered
<1>3. ASSUME NEW x \in S PROVE Cardinality({y \in S : y < x}) = x - 1
  <2>1. {y \in S : y < x} = 1 .. x - 1
    OBVIOUS
  <2>2. Cardinality(1 .. x - 1) = x - 1
    BY FS_Interval
  <2>3. QED BY <2>1, <2>2
<1>4. ASSUME NEW n \in 1 .. k PROVE a[n] = n
  <2>1. \A x \in S : Cardinality({y \in S : y < x}) = n - 1 => x = n
    BY <1>3
  <2>2. n \in S /\ Cardinality({y \in S : y < n}) = n - 1
    BY <1>3
  <2>3. QED BY <1>2, <2>1, <2>2
<1>5. QED BY <1>2, <1>4

\* The list of nodes is the rows of the shards.
LEMMA RecordedIs ==
  ASSUME ShardsTypeOK, Shape
  PROVE  /\ Recorded \in Seq(NodeIds) /\ DOMAIN Recorded = Shards
         /\ Len(Recorded) <= MaxSlots - 1 /\ Shards = 1 .. Len(Recorded)
         /\ \A s \in Shards : Recorded[s] = rows[s].node
<1>1. PICK k \in 0 .. MaxSlots - 1 : Shards = 1 .. k
  BY DEF Shape
<1>2. RecordedSlots = 1 .. k
  <2>1. \A s \in DOMAIN rows : rows[s].node \in Nat
    BY ShardsAssumption DEF ShardsTypeOK
  <2>2. \A s \in DOMAIN rows : rows[s].node # Missing
    BY <2>1, ShardsAssumption
  <2>3. RecordedSlots = {s \in DOMAIN rows : s > 0}
    BY <2>2 DEF RecordedSlots
  <2>4. DOMAIN rows = 1 .. k \/ DOMAIN rows = {0} \cup (1 .. k)
    BY <1>1 DEF Shards
  <2>5. QED BY <2>3, <2>4
<1>3. k \in Nat /\ DOMAIN Ascending(RecordedSlots) = 1 .. k
        /\ \A n \in 1 .. k : Ascending(RecordedSlots)[n] = n
  BY <1>2, ShardsAssumption, AscendingInterval
<1>4. Recorded = [n \in 1 .. k |-> rows[n].node]
  BY <1>3 DEF Recorded
<1>5. \A n \in 1 .. k : rows[n].node \in NodeIds
  BY <1>1 DEF ShardsTypeOK, Shards
<1>6. Recorded \in Seq(NodeIds) /\ Len(Recorded) = k
  BY <1>3, <1>4, <1>5
<1>7. QED BY <1>1, <1>4, <1>6, ShardsAssumption

\* There are n numbers up to n.
LEMMA IntervalCount ==
  ASSUME NEW n \in Nat
  PROVE  IsFiniteSet(1 .. n) /\ Cardinality(1 .. n) = n
BY FS_Interval

\* Who stays on a list, and where.
LEMMA KeptIs ==
  ASSUME NEW ids \in Seq(NodeIds), NEW good
  PROVE  /\ Kept(ids, good) \in Seq(NodeIds)
         /\ Len(Kept(ids, good)) = Cardinality({n \in DOMAIN ids : ids[n] \in good})
         /\ Len(Kept(ids, good)) <= Len(ids)
         /\ Members(Kept(ids, good)) = Members(ids) \cap good
         /\ \A n \in DOMAIN ids : ids[n] \in good =>
              \E j \in DOMAIN Kept(ids, good) : j <= n /\ Kept(ids, good)[j] = ids[n]
         /\ (\A m, n \in DOMAIN ids : ids[m] = ids[n] => m = n) =>
              \A i, j \in DOMAIN Kept(ids, good) : Kept(ids, good)[i] = Kept(ids, good)[j] => i = j
<1> DEFINE S == {n \in DOMAIN ids : ids[n] \in good}
           a == Ascending(S)
           N == Cardinality(S)
           q == Kept(ids, good)
<1>1. DOMAIN ids = 1 .. Len(ids) /\ Len(ids) \in Nat /\ IsFiniteSet(1 .. Len(ids))
        /\ Cardinality(1 .. Len(ids)) = Len(ids)
  <2>1. DOMAIN ids = 1 .. Len(ids) /\ Len(ids) \in Nat
    OBVIOUS
  <2>2. QED BY <2>1, IntervalCount
<1>2. S \in SUBSET (1 .. Len(ids)) /\ S \in SUBSET Int /\ \A n \in S : ids[n] \in NodeIds
  BY <1>1
<1>3. IsFiniteSet(S) /\ N \in Nat /\ N <= Len(ids)
  BY <1>1, <1>2, FS_Subset, FS_CardinalityType
<1>4. Enumerates(a, S) /\ \A m, n \in 1 .. N : m < n => a[m] < a[n]
  <2> HIDE DEF S
  <2>1. QED BY <1>2, <1>3, AscendingEnumerates
<1>5. q = [n \in DOMAIN a |-> ids[a[n]]]
  BY DEF Kept
<1> HIDE DEF S, a, N, q
<1>6. a \in [1 .. N -> S] /\ DOMAIN a = 1 .. N
  BY <1>4 DEF Enumerates, N
<1>7. q \in Seq(NodeIds) /\ Len(q) = N /\ DOMAIN q = 1 .. N
  <2>1. \A n \in 1 .. N : ids[a[n]] \in NodeIds
    BY <1>2, <1>6
  <2>2. q = [n \in 1 .. N |-> ids[a[n]]]
    BY <1>5, <1>6
  <2>3. QED BY <1>3, <2>1, <2>2
<1>8. \A n \in S : \E j \in 1 .. N : a[j] = n
  BY <1>4 DEF Enumerates, N
<1>9. \A n \in 1 .. N : q[n] = ids[a[n]]
  BY <1>5, <1>6
<1>10. Members(q) = Members(ids) \cap good
  BY <1>1, <1>2, <1>6, <1>7, <1>8, <1>9 DEF Members, S
<1>11. ASSUME NEW j \in 1 .. N PROVE j <= a[j]
  <2> DEFINE B == {a[i] : i \in 1 .. j}
             f == [i \in 1 .. j |-> a[i]]
  <2>1. \A i \in 1 .. j : i \in 1 .. N
    BY <1>3
  <2>2. \A i \in 1 .. j : a[i] \in 1 .. Len(ids) /\ a[i] <= a[j]
    <3> TAKE i \in 1 .. j
    <3>1. i = j \/ i < j
      OBVIOUS
    <3>2. a[i] \in 1 .. Len(ids) /\ a[j] \in 1 .. Len(ids)
      BY <1>2, <1>6, <2>1
    <3>3. a[i] = a[j] \/ a[i] < a[j]
      BY <1>4, <2>1, <3>1
    <3>4. QED BY <1>1, <3>2, <3>3
  <2>3. f \in [1 .. j -> 1 .. a[j]]
    BY <2>2
  <2>4. \A i, m \in 1 .. j : f[i] = f[m] => i = m
    <3> TAKE i, m \in 1 .. j
    <3>1. i \in 1 .. N /\ m \in 1 .. N
      BY <2>1
    <3>2. QED BY <1>4, <3>1 DEF Enumerates, N
  <2>5. f \in Injection(1 .. j, 1 .. a[j])
    <3> HIDE DEF f
    <3> QED BY <2>3, <2>4 DEF Injection, IsInjective
  <2>6. a[j] \in Nat /\ j \in Nat
    BY <1>1, <2>2
  <2>7. IsFiniteSet(1 .. a[j]) /\ Cardinality(1 .. a[j]) = a[j] /\ Cardinality(1 .. j) = j
    BY <2>6, IntervalCount
  <2> HIDE DEF f
  <2>8. QED BY <2>5, <2>7, FS_Injection
<1>12. ASSUME NEW n \in DOMAIN ids, ids[n] \in good PROVE \E j \in 1 .. N : j <= n /\ q[j] = ids[n]
  <2>1. n \in S
    BY <1>12 DEF S
  <2>2. PICK j \in 1 .. N : a[j] = n
    BY <1>8, <2>1
  <2>3. QED BY <1>9, <1>11, <2>2
<1>13. ASSUME \A m, n \in DOMAIN ids : ids[m] = ids[n] => m = n, NEW i \in 1 .. N, NEW j \in 1 .. N,
              q[i] = q[j]
       PROVE  i = j
  <2>1. a[i] \in DOMAIN ids /\ a[j] \in DOMAIN ids /\ ids[a[i]] = ids[a[j]]
    BY <1>1, <1>2, <1>6, <1>9, <1>13
  <2>2. a[i] = a[j]
    BY <1>13, <2>1
  <2>3. QED BY <1>4, <2>2 DEF Enumerates, N
<1>14. Len(q) = N /\ DOMAIN q = 1 .. N /\ N <= Len(ids)
  BY <1>3, <1>7
<1>15. QED BY <1>7, <1>10, <1>12, <1>13, <1>14 DEF q, N, S

\* There is a new id for a new node.
LEMMA FreshIs ==
  ASSUME ShardsTypeOK, Shape, Listed, StoreActive < Limit
  PROVE  /\ Fresh \in NodeIds /\ Fresh \notin DOMAIN nodes /\ Fresh # own
         /\ \A j \in DOMAIN pool : Fresh # pool[j]
         /\ \A s \in DOMAIN rows : Fresh # rows[s].node
<1> DEFINE A == DOMAIN nodes
           P == Members(pool)
           R == {rows[s].node : s \in DOMAIN rows}
           X == A \cup {own} \cup P \cup R
<1>1. IsFiniteSet(A) /\ Cardinality(A) \in Nat /\ Cardinality(A) + 2 <= Limit
  <2>1. IsFiniteSet(A) /\ Cardinality(A) \in Nat
    BY FS_CardinalityType DEF Shape
  <2>2. foreign \in Nat /\ Limit \in Nat /\ foreign + 1 + Cardinality(A) < Limit
    BY ShardsAssumption DEF ShardsTypeOK, StoreActive
  <2> HIDE DEF A
  <2>3. QED BY <2>1, <2>2
<1>2. IsFiniteSet(P) /\ Cardinality(P) \in Nat /\ Cardinality(P) <= MaxSlots - 1
  <2> DEFINE f == [n \in 1 .. Len(pool) |-> pool[n]]
  <2>1. pool \in Seq(NodeIds) /\ Len(pool) \in Nat /\ Len(pool) <= MaxSlots - 1
          /\ DOMAIN pool = 1 .. Len(pool)
    BY DEF ShardsTypeOK, Listed
  <2>2. f \in Surjection(1 .. Len(pool), P)
    BY <2>1 DEF Surjection, Members
  <2>3. IsFiniteSet(1 .. Len(pool)) /\ Cardinality(1 .. Len(pool)) = Len(pool)
    BY <2>1, FS_Interval
  <2> HIDE DEF f, P
  <2>4. IsFiniteSet(P) /\ Cardinality(P) <= Len(pool)
    BY <2>2, <2>3, FS_Surjection
  <2>5. QED BY <2>1, <2>4, FS_CardinalityType, ShardsAssumption
<1>3. IsFiniteSet(R) /\ Cardinality(R) \in Nat /\ Cardinality(R) <= MaxSlots
  <2> DEFINE f == [s \in DOMAIN rows |-> rows[s].node]
  <2>1. DOMAIN rows \in SUBSET (0 .. MaxSlots - 1)
    <3>1. PICK k \in 0 .. MaxSlots - 1 : Shards = 1 .. k
      BY DEF Shape
    <3>2. QED BY <3>1, ShardsAssumption DEF Shards
  <2>2. IsFiniteSet(0 .. MaxSlots - 1) /\ Cardinality(0 .. MaxSlots - 1) = MaxSlots
    <3>1. MaxSlots \in Nat /\ MaxSlots > 0
      BY ShardsAssumption
    <3>2. QED BY <3>1, FS_Interval
  <2>3. IsFiniteSet(DOMAIN rows) /\ Cardinality(DOMAIN rows) <= MaxSlots
          /\ Cardinality(DOMAIN rows) \in Nat
    BY <2>1, <2>2, FS_Subset, FS_CardinalityType
  <2>4. f \in Surjection(DOMAIN rows, R)
    BY DEF Surjection
  <2> HIDE DEF f, R
  <2>5. IsFiniteSet(R) /\ Cardinality(R) <= Cardinality(DOMAIN rows)
    BY <2>3, <2>4, FS_Surjection
  <2>6. QED BY <2>3, <2>5, FS_CardinalityType, ShardsAssumption
<1> HIDE DEF A, P, R
<1>4. IsFiniteSet(X) /\ Cardinality(X) \in Nat /\ Cardinality(X) < Limit + 2 * MaxSlots
  <2>1. IsFiniteSet(A \cup {own}) /\ Cardinality(A \cup {own}) \in Nat
          /\ Cardinality(A \cup {own}) <= Cardinality(A) + 1
    BY <1>1, FS_AddElement
  <2>2. \A S, T : IsFiniteSet(S) /\ IsFiniteSet(T) =>
          /\ IsFiniteSet(S \cup T) /\ Cardinality(S \cup T) \in Nat
          /\ Cardinality(S \cup T) <= Cardinality(S) + Cardinality(T)
    <3> SUFFICES ASSUME NEW S, NEW T, IsFiniteSet(S), IsFiniteSet(T)
                 PROVE  /\ IsFiniteSet(S \cup T) /\ Cardinality(S \cup T) \in Nat
                        /\ Cardinality(S \cup T) <= Cardinality(S) + Cardinality(T)
      OBVIOUS
    <3>1. IsFiniteSet(S \cap T) /\ Cardinality(S \cap T) \in Nat
      BY FS_Intersection, FS_CardinalityType
    <3>2. Cardinality(S) \in Nat /\ Cardinality(T) \in Nat
      BY FS_CardinalityType
    <3>3. IsFiniteSet(S \cup T) /\ Cardinality(S \cup T) \in Nat
            /\ Cardinality(S \cup T) = Cardinality(S) + Cardinality(T) - Cardinality(S \cap T)
      BY FS_Union, FS_CardinalityType
    <3>4. QED BY <3>1, <3>2, <3>3
  <2> DEFINE A1 == A \cup {own}
             A2 == A1 \cup P
  <2> HIDE DEF A1
  <2>3. IsFiniteSet(A2) /\ Cardinality(A2) \in Nat /\ Cardinality(A2) <= Cardinality(A1) + Cardinality(P)
    BY <1>2, <2>1, <2>2 DEF A1
  <2> HIDE DEF A2
  <2>4. IsFiniteSet(A2 \cup R) /\ Cardinality(A2 \cup R) \in Nat
          /\ Cardinality(A2 \cup R) <= Cardinality(A2) + Cardinality(R)
    BY <1>3, <2>2, <2>3
  <2>5. X = A2 \cup R
    BY DEF A2, A1
  <2> HIDE DEF X
  <2>6. QED BY <1>1, <1>2, <1>3, <2>1, <2>3, <2>4, <2>5, ShardsAssumption DEF A1
<1>5. NodeIds \ X # {}
  <2>1. SUFFICES ASSUME NodeIds \in SUBSET X PROVE FALSE
    OBVIOUS
  <2> HIDE DEF X
  <2>2. IsFiniteSet(NodeIds) /\ Cardinality(NodeIds) <= Cardinality(X)
    BY <1>4, <2>1, FS_Subset
  <2>3. Cardinality(NodeIds) \in Nat
    BY <2>2, FS_CardinalityType
  <2>4. QED BY <1>4, <2>2, <2>3, IdsAssumption, ShardsAssumption
<1>6. Fresh = Min(NodeIds \ X)
  BY DEF Fresh, A, P, R
<1>7. NodeIds \ X \in SUBSET Nat
  BY ShardsAssumption
<1>8. Fresh \in NodeIds \ X
  <2> HIDE DEF X
  <2>1. QED BY <1>5, <1>6, <1>7, MinIn
<1>9. QED BY <1>8 DEF A, P, R, Members

\* The lesser of two,
LEMMA MinOfTwo ==
  ASSUME NEW x \in Int, NEW y \in Int
  PROVE  Min({x, y}) = IF x <= y THEN x ELSE y
<1> DEFINE m == IF x <= y THEN x ELSE y
<1>1. m \in {x, y} /\ \A z \in {x, y} : m <= z
  OBVIOUS
<1>2. \A w \in {x, y} : (\A z \in {x, y} : w <= z) => w = m
  OBVIOUS
<1>3. QED BY <1>1, <1>2 DEF Min

\* and the greater.
LEMMA MaxOfTwo ==
  ASSUME NEW x \in Int, NEW y \in Int
  PROVE  Max({x, y}) = IF x >= y THEN x ELSE y
<1> DEFINE m == IF x >= y THEN x ELSE y
<1>1. m \in {x, y} /\ \A z \in {x, y} : m >= z
  OBVIOUS
<1>2. \A w \in {x, y} : (\A z \in {x, y} : w >= z) => w = m
  OBVIOUS
<1>3. QED BY <1>1, <1>2 DEF Max

\* A new node serves nothing, and leaves the others as they are.
LEMMA NewNodeIs ==
  ASSUME ShardsTypeOK, Shape, NEW t \in Nat, Fresh \in NodeIds, Fresh \notin DOMAIN nodes, NewNode(t)
  PROVE  /\ nodes' \in [DOMAIN nodes' -> Node] /\ IsFiniteSet(DOMAIN nodes')
         /\ DOMAIN nodes' = DOMAIN nodes \cup {Fresh} /\ DOMAIN nodes' \subseteq NodeIds
         /\ nodes'[Fresh] = [title |-> t, offers |-> {}]
         /\ \A n \in DOMAIN nodes : nodes'[n] = nodes[n]
<1>1. IsFiniteSet(DOMAIN nodes \cup {Fresh})
  BY FS_AddElement DEF Shape
<1> DEFINE f == Fresh
<1>2. f \in NodeIds /\ f \notin DOMAIN nodes /\ IsFiniteSet(DOMAIN nodes \cup {f})
      /\ nodes' = [n \in DOMAIN nodes \cup {f} |-> IF n = f THEN [title |-> t, offers |-> {}] ELSE nodes[n]]
  BY <1>1 DEF NewNode
<1> HIDE DEF f
<1>3. [title |-> t, offers |-> {}] \in Node
  BY DEF Node
<1>4. QED BY <1>2, <1>3 DEF Shape, ShardsTypeOK, f

\* A node that is gone leaves the others as they are.
LEMMA LessNodes ==
  ASSUME ShardsTypeOK, Shape, NEW x, nodes' = [n \in DOMAIN nodes \ {x} |-> nodes[n]]
  PROVE  /\ nodes' \in [DOMAIN nodes' -> Node] /\ IsFiniteSet(DOMAIN nodes')
         /\ DOMAIN nodes' = DOMAIN nodes \ {x} /\ DOMAIN nodes' \subseteq NodeIds
         /\ \A n \in DOMAIN nodes' : nodes'[n] = nodes[n]
<1>1. IsFiniteSet(DOMAIN nodes \ {x})
  BY FS_RemoveElement DEF Shape
<1>2. QED BY <1>1 DEF Shape, ShardsTypeOK

\* The keys of units are numbers.
LEMMA IdsAre ==
  ASSUME ShardsTypeOK, NEW us \in SUBSET taken
  PROVE  Ids(us) \subseteq Nat
<1>1. taken \in Catalogs \cup {{}}
  BY DEF ShardsTypeOK
<1>2. \A u \in taken : u.id \in Nat
  BY <1>1, CatalogAssumption DEF IsCatalog
<1>3. QED BY <1>2 DEF Ids

\* What is taken is a catalog.
LEMMA TakenIs ==
  ASSUME ShardsTypeOK
  PROVE  IsCatalog(taken)
<1>1. IsCatalog({})
  BY FS_EmptySet DEF IsCatalog
<1>2. QED BY <1>1, CatalogAssumption DEF ShardsTypeOK

\* Units apart have keys apart.
LEMMA IdsApart ==
  ASSUME ShardsTypeOK, NEW us \in SUBSET taken, NEW ws \in SUBSET taken, us \cap ws = {}
  PROVE  Ids(us) \cap Ids(ws) = {}
BY TakenIs DEF IsCatalog, Ids

\* A repetition in a list shows in the number of its members.
LEMMA NoRepetition ==
  ASSUME NEW q \in Seq(NodeIds), Cardinality(Members(q)) = Len(q)
  PROVE  \A m, n \in DOMAIN q : q[m] = q[n] => m = n
<1>1. Len(q) \in Nat /\ DOMAIN q = 1 .. Len(q) /\ q \in [1 .. Len(q) -> NodeIds]
  OBVIOUS
<1>2. IsFiniteSet(DOMAIN q) /\ Cardinality(DOMAIN q) = Len(q)
  BY <1>1, IntervalCount
<1>3. q \in Surjection(DOMAIN q, Members(q))
  BY <1>1 DEF Surjection, Members
<1>4. q \in Injection(DOMAIN q, Members(q))
  BY <1>2, <1>3, FS_Surjection
<1>5. QED BY <1>4 DEF Injection, IsInjective

\* A plan has a slot 0, no gaps and no more slots than allowed, and splits the units.
LEMMA PlanShape ==
  ASSUME NEW us, IsCatalog(us), NEW previous, NEW max \in Nat, max > 0,
         Plan(us, previous, max).blocked = "no"
  PROVE  LET slots == Plan(us, previous, max).slots
             N == Cardinality(DOMAIN slots)
         IN /\ N \in 1 .. max /\ DOMAIN slots = 0 .. N - 1
            /\ UNION {slots[n] : n \in 0 .. N - 1} = us
            /\ \A n, k \in 0 .. N - 1 : n # k => slots[n] \cap slots[k] = {}
<1> DEFINE p == Plan(us, previous, max)
           slots == p.slots
           N == Cardinality(DOMAIN slots)
           b == Packed(Free(us), PinnedGroup(us), previous, max)
<1>1. \A c : Open(c).slots = c
  BY DEF Open
<1>2. N \in 1 .. max /\ DOMAIN slots = 0 .. N - 1
  <2>1. CASE InOne(us, previous, max)
    <3>1. p = Open([n \in {0} |-> us])
      BY <2>1, PlanWays
    <3> HIDE DEF p
    <3>2. slots = [n \in {0} |-> us]
      BY <1>1, <3>1
    <3>3. DOMAIN slots = {0} /\ N = 1
      BY <3>2, FS_Singleton
    <3> HIDE DEF slots, N
    <3>4. QED BY <3>3
  <2>2. CASE ~InOne(us, previous, max)
    <3>1. p = Open(Dense(b)) /\ (\A g \in Groups(us) : Fits(g, SlotBytes))
            /\ ~(Cardinality(DOMAIN b) > max)
      BY <2>2, PlanWays
    <3>2. b \in BinSets(us) /\ 0 \in DOMAIN b
      BY <3>1, PackedComplete DEF Complete, Good
    <3> HIDE DEF b
    <3> DEFINE M == Cardinality(DOMAIN b)
    <3>3. M \in Nat \ {0} /\ DOMAIN Dense(b) = 0 .. M - 1
      BY <3>2, DenseIs
    <3>4. slots = Dense(b)
      BY <1>1, <3>1
    <3>5. ~(M > max)
      BY <3>1
    <3> HIDE DEF M, p
    <3>6. Cardinality(0 .. M - 1) = M
      BY <3>3, FS_Interval
    <3>7. N = M
      BY <3>3, <3>4, <3>6
    <3>8. QED BY <3>3, <3>4, <3>5, <3>7
  <2>3. QED BY <2>1, <2>2
<1>3. KeepsRules(us, max, p) /\ p.blocked = "no"
  BY PlanKeeps
<1>4. QED BY <1>2, <1>3 DEF KeepsRules

\* The recorded nodes that are still there.
LEMMA LiveIs ==
  ASSUME ShardsTypeOK, Shape
  PROVE  LET live == Live(Recorded) IN
         /\ live \in Seq(NodeIds) /\ Len(live) = Cardinality(LiveSlots) /\ Len(live) <= MaxSlots - 1
         /\ \A j \in DOMAIN live :
              live[j] \in DOMAIN nodes /\ \E s \in Shards : live[j] = rows[s].node
         /\ \A s \in Shards : rows[s].node \in DOMAIN nodes =>
              \E j \in DOMAIN live : j <= s /\ live[j] = rows[s].node
         /\ Unrepeated => \A i, j \in DOMAIN live : live[i] = live[j] => i = j
<1> DEFINE live == Live(Recorded)
           ids == Recorded
<1>1. /\ ids \in Seq(NodeIds) /\ DOMAIN ids = Shards
      /\ Len(ids) <= MaxSlots - 1 /\ \A s \in Shards : ids[s] = rows[s].node
  BY RecordedIs
<1>2. live = Kept(ids, DOMAIN nodes)
  BY DEF Live
<1> HIDE DEF live, ids
<1>3. /\ live \in Seq(NodeIds) /\ Len(live) = Cardinality({n \in DOMAIN ids : ids[n] \in DOMAIN nodes})
      /\ Len(live) <= Len(ids) /\ Members(live) = Members(ids) \cap DOMAIN nodes
      /\ \A n \in DOMAIN ids : ids[n] \in DOMAIN nodes =>
           \E j \in DOMAIN live : j <= n /\ live[j] = ids[n]
      /\ (\A m, n \in DOMAIN ids : ids[m] = ids[n] => m = n) =>
           \A i, j \in DOMAIN live : live[i] = live[j] => i = j
  <2>1. ids \in Seq(NodeIds)
    BY <1>1
  <2>2. /\ Kept(ids, DOMAIN nodes) \in Seq(NodeIds)
        /\ Len(Kept(ids, DOMAIN nodes)) = Cardinality({n \in DOMAIN ids : ids[n] \in DOMAIN nodes})
        /\ Len(Kept(ids, DOMAIN nodes)) <= Len(ids)
        /\ Members(Kept(ids, DOMAIN nodes)) = Members(ids) \cap DOMAIN nodes
        /\ \A n \in DOMAIN ids : ids[n] \in DOMAIN nodes =>
             \E j \in DOMAIN Kept(ids, DOMAIN nodes) : j <= n /\ Kept(ids, DOMAIN nodes)[j] = ids[n]
        /\ (\A m, n \in DOMAIN ids : ids[m] = ids[n] => m = n) =>
             \A i, j \in DOMAIN Kept(ids, DOMAIN nodes) :
               Kept(ids, DOMAIN nodes)[i] = Kept(ids, DOMAIN nodes)[j] => i = j
    BY <2>1, KeptIs
  <2>3. QED BY <1>2, <2>2
<1>4. {n \in DOMAIN ids : ids[n] \in DOMAIN nodes} = LiveSlots
  BY <1>1 DEF LiveSlots
<1>5. Len(live) <= MaxSlots - 1
  BY <1>1, <1>3, ShardsAssumption
<1>6. ASSUME NEW j \in DOMAIN live
      PROVE  live[j] \in DOMAIN nodes /\ \E s \in Shards : live[j] = rows[s].node
  <2>1. live[j] \in Members(ids) \cap DOMAIN nodes
    BY <1>3 DEF Members
  <2>2. PICK s \in DOMAIN ids : live[j] = ids[s]
    BY <2>1 DEF Members
  <2>3. s \in Shards /\ live[j] = rows[s].node
    BY <1>1, <2>2
  <2>4. QED BY <2>1, <2>3
<1>7. ASSUME Unrepeated PROVE \A i, j \in DOMAIN live : live[i] = live[j] => i = j
  <2>1. \A m, n \in DOMAIN ids : ids[m] = ids[n] => m = n
    BY <1>1, <1>7 DEF Unrepeated
  <2>2. QED BY <1>3, <2>1
<1>8. \A s \in Shards : rows[s].node \in DOMAIN nodes =>
        \E j \in DOMAIN live : j <= s /\ live[j] = rows[s].node
  <2> TAKE s \in Shards
  <2>1. s \in DOMAIN ids /\ ids[s] = rows[s].node
    BY <1>1
  <2>2. QED BY <1>3, <2>1
<1>9. Len(live) = Cardinality(LiveSlots) /\ live \in Seq(NodeIds)
  BY <1>3, <1>4
<1>10. QED BY <1>5, <1>6, <1>7, <1>8, <1>9 DEF live, ids

-----------------------------------------------------------------------------
(* The steps of a publish, and of the merchant.                            *)

\* Nothing is deleted before the drained shards are.
Spared == phase \notin {"delete", "endlist", "done"} => gone = {}

\* A publish that begins: a list with no more members than entries repeats none.
LEMMA InvBegin ==
  ASSUME ShardsTypeOK, ShardsInv, Begin
  PROVE  ShardsTypeOK' /\ ShardsInv'
<1>1. ShardsTypeOK'
  BY DEF ShardsTypeOK, Begin, stores, shopNodes, locals, merchant
<1>2. Shape'
  BY DEF Shape, Begin, ShardsInv, stores, shopNodes, locals, Shards
<1>3. Titles'
  BY DEF Titles, Begin, ShardsInv, stores, shopNodes, locals, Shards
<1>4. Planned'
  BY DEF Planned, Begin, ShardsInv, locals
<1>5. Listed'
  BY DEF Listed, Begin, ShardsInv, locals
<1>6. Covered'
  BY DEF Covered, Begin
<1>7. Drained'
  BY DEF Drained, Begin
<1>8. Served'
  BY DEF Served, Begin, ShardsInv, stores, shopNodes, Shards
<1>9. Calm'
  <2>1. ASSUME calm' PROVE Unrepeated
    <3>1. Cardinality(Members(Recorded)) = Len(Recorded)
      BY <2>1 DEF Begin
    <3>2. Recorded \in Seq(NodeIds) /\ DOMAIN Recorded = Shards
            /\ \A s \in Shards : Recorded[s] = rows[s].node
      BY RecordedIs DEF ShardsInv
    <3>3. \A m, n \in Shards : Recorded[m] = Recorded[n] => m = n
      BY <3>1, <3>2, NoRepetition
    <3>4. QED BY <3>2, <3>3 DEF Unrepeated
  <2>2. phase' \in {"find", "read"} /\ UNCHANGED rows
    BY DEF Begin, stores
  <2>3. QED BY <2>1, <2>2 DEF Calm, Unrepeated, Shards
<1>10. QED BY <1>1, <1>2, <1>3, <1>4, <1>5, <1>6, <1>7, <1>8, <1>9 DEF ShardsInv

\* Slot 0's node is found by its title, which no shard has, or made with a new id.
LEMMA InvMakeOwn ==
  ASSUME ShardsTypeOK, ShardsInv, MakeOwn
  PROVE  ShardsTypeOK' /\ ShardsInv'
<1>a. /\ phase = "find" /\ phase' = "store" /\ at' \in DOMAIN nodes' /\ nodes'[at'].title = 0
      /\ nodes' \in [DOMAIN nodes' -> Node] /\ IsFiniteSet(DOMAIN nodes')
      /\ DOMAIN nodes' \subseteq NodeIds /\ DOMAIN nodes \subseteq DOMAIN nodes'
      /\ \A n \in DOMAIN nodes : nodes'[n] = nodes[n]
      /\ \A n \in DOMAIN nodes' \ DOMAIN nodes :
           /\ nodes'[n].offers = {} /\ n # own
           /\ (\A s \in DOMAIN rows : n # rows[s].node) /\ \A j \in DOMAIN pool : n # pool[j]
  <2>1. CASE at' \in Titled(0) /\ nodes' = nodes
    BY <2>1 DEF MakeOwn, Titled, ShardsInv, Shape, ShardsTypeOK
  <2>2. CASE StoreActive < Limit /\ at' = Fresh /\ NewNode(0)
    <3>1. /\ Fresh \in NodeIds /\ Fresh \notin DOMAIN nodes /\ Fresh # own
          /\ (\A s \in DOMAIN rows : Fresh # rows[s].node) /\ \A j \in DOMAIN pool : Fresh # pool[j]
      BY <2>2, FreshIs DEF ShardsInv
    <3>2. /\ nodes' \in [DOMAIN nodes' -> Node] /\ IsFiniteSet(DOMAIN nodes')
          /\ DOMAIN nodes' = DOMAIN nodes \cup {Fresh} /\ DOMAIN nodes' \subseteq NodeIds
          /\ nodes'[Fresh] = [title |-> 0, offers |-> {}]
          /\ \A n \in DOMAIN nodes : nodes'[n] = nodes[n]
      BY <2>2, <3>1, NewNodeIs DEF ShardsInv
    <3>3. phase = "find" /\ phase' = "store" /\ at' = Fresh
      BY <2>2 DEF MakeOwn
    <3> DEFINE f == Fresh
    <3> HIDE DEF f
    <3>4. QED BY <3>1, <3>2, <3>3 DEF f
  <2>3. QED BY <2>1, <2>2 DEF MakeOwn
<1>b. UNCHANGED <<stores, foreign, taken, plan, pool, needed, used, gone, aside>>
  BY DEF MakeOwn
<1>1. ShardsTypeOK'
  <2>1. at' \in Nat /\ \A n \in DOMAIN nodes' : nodes'[n].title \in Nat /\ nodes'[n].offers \subseteq Nat
    BY <1>a, ShardsAssumption DEF Node
  <2>2. QED BY <1>a, <1>b, <2>1 DEF ShardsTypeOK, stores, aside, merchant
<1>2. Shape'
  BY <1>a, <1>b DEF Shape, ShardsInv, Shards, stores
<1>3. Titles'
  <2>1. own \notin DOMAIN nodes' /\ UNCHANGED <<own, rows, pool>>
    BY <1>a, <1>b DEF ShardsInv, Titles, stores
  <2>2. \A s \in Shards : rows[s].node \in DOMAIN nodes' =>
          rows[s].node \in DOMAIN nodes /\ nodes'[rows[s].node] = nodes[rows[s].node]
    BY <1>a DEF Shards
  <2>3. \A j \in DOMAIN pool : pool[j] \in DOMAIN nodes' =>
          pool[j] \in DOMAIN nodes /\ nodes'[pool[j]] = nodes[pool[j]]
    BY <1>a
  <2>4. phase' = "store" /\ at' \in NodeIds /\ nodes'[at'].title = 0
    BY <1>a
  <2>5. QED BY <2>1, <2>2, <2>3, <2>4 DEF ShardsInv, Titles, Shards
<1>4. Planned'
  BY <1>a, <1>b DEF Planned, ShardsInv, Numbered, Wanted
<1>5. Listed'
  BY <1>a, <1>b DEF Listed, ShardsInv
<1>6. Covered'
  BY <1>a DEF Covered
<1>7. Drained'
  BY <1>a DEF Drained
<1>8. Served'
  BY <1>a, <1>b DEF Served, ShardsInv, Shards, stores
<1>9. Calm'
  BY <1>a, <1>b DEF Calm, ShardsInv, Unrepeated, Shards, stores, aside
<1>10. QED BY <1>1, <1>2, <1>3, <1>4, <1>5, <1>6, <1>7, <1>8, <1>9 DEF ShardsInv

\* The old node of slot 0 is gone when a new one is stored: nothing that serves is forgotten.
LEMMA InvStoreOwn ==
  ASSUME ShardsTypeOK, ShardsInv, StoreOwn
  PROVE  ShardsTypeOK' /\ ShardsInv'
<1>1. ShardsTypeOK'
  <2>1. at \in NodeIds
    BY DEF StoreOwn, ShardsInv, Titles
  <2>2. QED BY <2>1, ShardsAssumption DEF ShardsTypeOK, StoreOwn, shopNodes, aside, merchant
<1>2. Shape'
  BY DEF Shape, StoreOwn, ShardsInv, shopNodes, Shards
<1>3. Titles'
  BY DEF Titles, StoreOwn, ShardsInv, shopNodes, Shards
<1>4. Planned'
  BY ShardsAssumption DEF Planned, StoreOwn, ShardsInv
<1>5. Listed'
  BY DEF Listed, StoreOwn, ShardsInv
<1>6. Covered'
  BY DEF Covered, StoreOwn
<1>7. Drained'
  BY DEF Drained, StoreOwn
<1>8. Served'
  <2>1. own \notin DOMAIN nodes
    BY DEF StoreOwn, ShardsInv, Titles
  <2>2. QED BY <2>1 DEF Served, ShardsInv, StoreOwn, shopNodes, Shards
<1>9. Calm'
  BY DEF Calm, StoreOwn, ShardsInv, aside, Unrepeated, Shards
<1>10. QED BY <1>1, <1>2, <1>3, <1>4, <1>5, <1>6, <1>7, <1>8, <1>9 DEF ShardsInv

\* What is read is a catalog.
LEMMA InvReadUnits ==
  ASSUME ShardsTypeOK, ShardsInv, ReadUnits
  PROVE  ShardsTypeOK' /\ ShardsInv'
<1>1. ShardsTypeOK'
  <2>1. plan = <<>> /\ taken' = active /\ active \in Catalogs
    BY DEF ReadUnits, ShardsInv, Planned, ShardsTypeOK
  <2>2. DOMAIN plan = {}
    BY <2>1
  <2>3. phase' \in {"budget", "plan"}
    BY DEF ReadUnits
  <2>4. QED BY <2>1, <2>2, <2>3 DEF ShardsTypeOK, ReadUnits, stores, shopNodes, aside, merchant
<1>2. Shape'
  BY DEF Shape, ReadUnits, ShardsInv, stores, shopNodes, Shards
<1>3. Titles'
  BY DEF Titles, ReadUnits, ShardsInv, stores, shopNodes, Shards
<1>4. Planned'
  BY DEF Planned, ReadUnits, ShardsInv
<1>5. Listed'
  BY DEF Listed, ReadUnits, ShardsInv
<1>6. Covered'
  BY DEF Covered, ReadUnits
<1>7. Drained'
  BY DEF Drained, ReadUnits
<1>8. Served'
  BY DEF Served, ReadUnits, ShardsInv, stores, shopNodes, Shards
<1>9. Calm'
  BY DEF Calm, ReadUnits, ShardsInv, stores, aside, Unrepeated, Shards
<1>10. QED BY <1>1, <1>2, <1>3, <1>4, <1>5, <1>6, <1>7, <1>8, <1>9 DEF ShardsInv

\* The number of slots is at least one and at most MaxSlots.
LEMMA InvReadBudget ==
  ASSUME ShardsTypeOK, ShardsInv, ReadBudget
  PROVE  ShardsTypeOK' /\ ShardsInv'
<1>a. others' \in Nat \cup {Missing} /\ at' \in 1 .. MaxSlots /\ phase = "budget" /\ phase' = "plan"
  <2>1. StoreActive - Ours \in Nat
    <3> DEFINE A == DOMAIN nodes
               B == A \cap (Members(Recorded) \cup {own})
    <3>1. IsFiniteSet(A) /\ B \in SUBSET A /\ foreign \in Nat
      BY ShardsAssumption DEF ShardsInv, Shape, ShardsTypeOK
    <3>2. StoreActive = foreign + 1 + Cardinality(A) /\ Ours = 1 + Cardinality(B)
      BY DEF StoreActive, Ours
    <3> HIDE DEF A, B
    <3>3. Cardinality(A) \in Nat /\ Cardinality(B) \in Nat /\ Cardinality(B) <= Cardinality(A)
      BY <3>1, FS_CardinalityType, FS_Subset
    <3>4. QED BY <3>1, <3>2, <3>3
  <2>2. others' \in Nat \cup {Missing}
    BY <2>1 DEF ReadBudget, ShardsTypeOK
  <2>3. LiveShards \in Nat
    <3>1. IsFiniteSet(DOMAIN nodes)
      BY DEF ShardsInv, Shape
    <3>2. DOMAIN nodes \cap Members(Recorded) \in SUBSET DOMAIN nodes
      OBVIOUS
    <3>3. QED BY <3>1, <3>2, FS_Subset, FS_CardinalityType DEF LiveShards
  <2>4. ASSUME NEW x \in Int PROVE AtLeastOne(Min({MaxSlots, x})) \in 1 .. MaxSlots
    BY ShardsAssumption, MinOfTwo DEF AtLeastOne
  <2>5. Budget(others') \in 1 .. MaxSlots
    <3>1. CASE others' = Missing
      BY <2>3, <2>4, <3>1 DEF Budget
    <3>2. CASE others' # Missing
      <4>1. Limit - others' - 1 - Reserve \in Int
        BY <2>2, <3>2, ShardsAssumption
      <4>2. QED BY <2>4, <3>2, <4>1 DEF Budget
    <3>3. QED BY <3>1, <3>2
  <2>6. QED BY <2>2, <2>5 DEF ReadBudget
<1>1. ShardsTypeOK'
  <2>1. at' \in Nat
    BY <1>a, ShardsAssumption
  <2>2. QED BY <1>a, <2>1 DEF ShardsTypeOK, ReadBudget, shopNodes, aside, merchant
<1>2. Shape'
  BY DEF Shape, ReadBudget, ShardsInv, shopNodes, Shards
<1>3. Titles'
  BY DEF Titles, ReadBudget, ShardsInv, shopNodes, Shards
<1>4. Planned'
  BY <1>a DEF Planned, ReadBudget, ShardsInv
<1>5. Listed'
  BY DEF Listed, ReadBudget, ShardsInv
<1>6. Covered'
  BY DEF Covered, ReadBudget
<1>7. Drained'
  BY DEF Drained, ReadBudget
<1>8. Served'
  BY DEF Served, ReadBudget, ShardsInv, shopNodes, Shards
<1>9. Calm'
  BY DEF Calm, ReadBudget, ShardsInv, aside, Unrepeated, Shards
<1>10. QED BY <1>1, <1>2, <1>3, <1>4, <1>5, <1>6, <1>7, <1>8, <1>9 DEF ShardsInv

\* A plan that is blocked ends the publish, any other splits the units over its slots.
LEMMA InvPlanSlots ==
  ASSUME ShardsTypeOK, ShardsInv, PlanSlots
  PROVE  ShardsTypeOK' /\ ShardsInv'
<1>a. \/ Idle
      \/ /\ phase' = "live" /\ at' = 0 /\ UNCHANGED <<taken, pool, needed, used, gone, calm>>
         /\ DOMAIN plan' = Numbered' /\ Wanted' \in 0 .. MaxSlots - 1
         /\ UNION {plan'[n] : n \in Numbered'} = taken
         /\ \A n, k \in Numbered' : n # k => plan'[n] \cap plan'[k] = {}
  <2> SUFFICES ASSUME ~Idle
               PROVE /\ phase' = "live" /\ at' = 0 /\ UNCHANGED <<taken, pool, needed, used, gone, calm>>
                     /\ DOMAIN plan' = Numbered' /\ Wanted' \in 0 .. MaxSlots - 1
                     /\ UNION {plan'[n] : n \in Numbered'} = taken
                     /\ \A n, k \in Numbered' : n # k => plan'[n] \cap plan'[k] = {}
    OBVIOUS
  <2> DEFINE max == AtLeastOne(at)
  <2>1. PICK previous : LET slots == IF taken = {} THEN Open([n \in {0} |-> {}])
                                     ELSE Plan(taken, previous, max)
                        IN /\ slots.blocked = "no" /\ plan' = slots.slots
                           /\ phase' = "live" /\ at' = 0
                           /\ UNCHANGED <<taken, pool, needed, used, gone, calm>>
    BY DEF PlanSlots
  <2>2. max \in 1 .. MaxSlots
    BY ShardsAssumption DEF PlanSlots, AtLeastOne, ShardsInv, Planned, ShardsTypeOK
  <2>3. Wanted' = Cardinality(DOMAIN plan') - 1 /\ Numbered' = 0 .. Cardinality(DOMAIN plan') - 1
    BY DEF Wanted, Numbered
  <2> HIDE DEF max
  <2>4. CASE taken = {}
    <3>1. plan' = [n \in {0} |-> {}]
      BY <2>1, <2>4 DEF Open
    <3>2. DOMAIN plan' = {0} /\ Cardinality(DOMAIN plan') = 1
      BY <3>1, FS_Singleton
    <3>3. Numbered' = {0} /\ Wanted' = 0
      BY <2>3, <3>2
    <3>4. QED BY <2>1, <2>4, <3>1, <3>2, <3>3, ShardsAssumption
  <2>5. CASE taken # {}
    <3>1. /\ Plan(taken, previous, max).blocked = "no" /\ plan' = Plan(taken, previous, max).slots
      BY <2>1, <2>5
    <3>2. IsCatalog(taken) /\ max \in Nat /\ max > 0
      BY <2>2, TakenIs, ShardsAssumption
    <3> DEFINE N == Cardinality(DOMAIN plan')
    <3>3. /\ N \in 1 .. max /\ DOMAIN plan' = 0 .. N - 1
          /\ UNION {plan'[n] : n \in 0 .. N - 1} = taken
          /\ \A n, k \in 0 .. N - 1 : n # k => plan'[n] \cap plan'[k] = {}
      BY <3>1, <3>2, PlanShape
    <3>4. Wanted' = N - 1 /\ Numbered' = 0 .. N - 1
      BY <2>3
    <3> HIDE DEF N
    <3>5. Wanted' \in 0 .. MaxSlots - 1
      BY <2>2, <3>3, <3>4, ShardsAssumption
    <3>6. QED BY <2>1, <3>3, <3>4, <3>5
  <2>6. QED BY <2>4, <2>5
<1>b. UNCHANGED <<stores, shopNodes, merchant, mishaps>> /\ phase = "plan"
  BY DEF PlanSlots
<1>1. ShardsTypeOK'
  <2>1. CASE Idle
    BY <1>b, <2>1, ShardsAssumption DEF ShardsTypeOK, stores, shopNodes, merchant, Idle
  <2>2. CASE ~Idle
    <3>1. DOMAIN plan' \subseteq 0 .. MaxSlots - 1 /\ \A n \in DOMAIN plan' : plan'[n] \subseteq taken
      <4>1. DOMAIN plan' = 0 .. Wanted' /\ Wanted' \in 0 .. MaxSlots - 1
        BY <1>a, <2>2 DEF Numbered
      <4>2. \A n \in 0 .. Wanted' : n \in 0 .. MaxSlots - 1
        BY <4>1, ShardsAssumption
      <4>3. UNION {plan'[n] : n \in DOMAIN plan'} = taken
        BY <1>a, <2>2
      <4>4. QED BY <4>1, <4>2, <4>3
    <3>2. phase' = "live" /\ at' = 0 /\ UNCHANGED <<taken, pool, needed, used, gone, calm>>
      BY <1>a, <2>2
    <3>3. QED BY <1>b, <3>1, <3>2 DEF ShardsTypeOK, stores, shopNodes, merchant
  <2>3. QED BY <2>1, <2>2
<1>2. Shape'
  BY <1>a, <1>b, FS_EmptySet DEF Shape, ShardsInv, Shards, stores, shopNodes, Idle
<1>3. Titles'
  BY <1>a, <1>b DEF Titles, ShardsInv, Shards, stores, shopNodes, Idle
<1>4. Planned'
  <2>1. CASE Idle
    BY <2>1, ShardsAssumption DEF Planned, Idle
  <2>2. CASE ~Idle
    BY <1>a, <2>2 DEF Planned
  <2>3. QED BY <2>1, <2>2
<1>5. Listed'
  BY <1>a, <1>b, ShardsAssumption DEF Listed, ShardsInv, Idle
<1>6. Covered'
  BY <1>a DEF Covered, Idle
<1>7. Drained'
  BY <1>a DEF Drained, Idle
<1>8. Served'
  BY <1>b DEF Served, ShardsInv, Shards, stores, shopNodes
<1>9. Calm'
  BY <1>a, <1>b DEF Calm, ShardsInv, Unrepeated, Shards, stores, shopNodes, Idle
<1>10. QED BY <1>1, <1>2, <1>3, <1>4, <1>5, <1>6, <1>7, <1>8, <1>9 DEF ShardsInv

\* The end of a publish.
LEMMA InvDone ==
  ASSUME ShardsTypeOK, ShardsInv, Done
  PROVE  ShardsTypeOK' /\ ShardsInv'
<1>1. ShardsTypeOK'
  BY ShardsAssumption DEF ShardsTypeOK, Done, stores, shopNodes, merchant, Idle
<1>2. Shape'
  BY FS_EmptySet DEF Shape, ShardsInv, Shards, stores, shopNodes, Idle, Done
<1>3. Titles'
  BY DEF Titles, Done, ShardsInv, stores, shopNodes, Idle, Shards
<1>4. Planned'
  BY ShardsAssumption DEF Planned, Done, Idle
<1>5. Listed'
  BY ShardsAssumption DEF Listed, Done, Idle
<1>6. Covered'
  BY DEF Covered, Done, Idle
<1>7. Drained'
  BY DEF Drained, Done, Idle
<1>8. Served'
  BY DEF Served, Done, ShardsInv, stores, shopNodes, Shards
<1>9. Calm'
  BY DEF Calm, Done, Idle
<1>10. QED BY <1>1, <1>2, <1>3, <1>4, <1>5, <1>6, <1>7, <1>8, <1>9 DEF ShardsInv

\* A publish that fails or dies leaves what Shopify and the database hold.
LEMMA InvAbort ==
  ASSUME ShardsTypeOK, ShardsInv, Abort
  PROVE  ShardsTypeOK' /\ ShardsInv'
<1>1. ShardsTypeOK'
  BY ShardsAssumption DEF ShardsTypeOK, Abort, stores, shopNodes, merchant, Idle
<1>2. Shape'
  BY FS_EmptySet DEF Shape, ShardsInv, Shards, stores, shopNodes, Idle, Abort
<1>3. Titles'
  BY DEF Titles, Abort, ShardsInv, stores, shopNodes, Idle, Shards
<1>4. Planned'
  BY ShardsAssumption DEF Planned, Abort, Idle
<1>5. Listed'
  BY ShardsAssumption DEF Listed, Abort, Idle
<1>6. Covered'
  BY DEF Covered, Abort, Idle
<1>7. Drained'
  BY DEF Drained, Abort, Idle
<1>8. Served'
  BY DEF Served, Abort, ShardsInv, stores, shopNodes, Shards
<1>9. Calm'
  BY DEF Calm, Abort, Idle
<1>10. QED BY <1>1, <1>2, <1>3, <1>4, <1>5, <1>6, <1>7, <1>8, <1>9 DEF ShardsInv

\* Editing offers touches neither.
LEMMA InvEditOffers ==
  ASSUME ShardsTypeOK, ShardsInv, EditOffers
  PROVE  ShardsTypeOK' /\ ShardsInv'
<1>1. ShardsTypeOK'
  BY DEF ShardsTypeOK, EditOffers, stores, shopNodes, locals
<1>2. Shape'
  BY DEF Shape, EditOffers, ShardsInv, stores, shopNodes, locals, Shards
<1>3. Titles'
  BY DEF Titles, EditOffers, ShardsInv, stores, shopNodes, locals, Shards
<1>4. Planned'
  BY DEF Planned, EditOffers, ShardsInv, locals
<1>5. Listed'
  BY DEF Listed, EditOffers, ShardsInv, locals
<1>6. Covered'
  BY DEF Covered, EditOffers
<1>7. Drained'
  BY DEF Drained, EditOffers
<1>8. Served'
  BY DEF Served, EditOffers, ShardsInv, stores, shopNodes, Shards
<1>9. Calm'
  BY DEF Calm, EditOffers
<1>10. QED BY <1>1, <1>2, <1>3, <1>4, <1>5, <1>6, <1>7, <1>8, <1>9 DEF ShardsInv

\* Nor does the flag.
LEMMA InvSetFlag ==
  ASSUME ShardsTypeOK, ShardsInv, SetFlag
  PROVE  ShardsTypeOK' /\ ShardsInv'
<1>1. ShardsTypeOK'
  <2>1. enabled' \in BOOLEAN
    BY DEF SetFlag
  <2>2. meddles' \in 0 .. MaxMeddles
    BY ShardsAssumption DEF SetFlag, Meddle, ShardsTypeOK
  <2>3. QED BY <2>1, <2>2 DEF ShardsTypeOK, SetFlag, stores, shopNodes, locals
<1>2. Shape'
  BY DEF Shape, SetFlag, ShardsInv, stores, shopNodes, locals, Shards
<1>3. Titles'
  BY DEF Titles, SetFlag, ShardsInv, stores, shopNodes, locals, Shards
<1>4. Planned'
  BY DEF Planned, SetFlag, ShardsInv, locals
<1>5. Listed'
  BY DEF Listed, SetFlag, ShardsInv, locals
<1>6. Covered'
  BY DEF Covered, SetFlag
<1>7. Drained'
  BY DEF Drained, SetFlag
<1>8. Served'
  BY DEF Served, SetFlag, ShardsInv, stores, shopNodes, Shards
<1>9. Calm'
  BY DEF Calm, SetFlag
<1>10. QED BY <1>1, <1>2, <1>3, <1>4, <1>5, <1>6, <1>7, <1>8, <1>9 DEF ShardsInv

\* Discounts of others are not the shop's.
LEMMA InvOtherDiscounts ==
  ASSUME ShardsTypeOK, ShardsInv, OtherDiscounts
  PROVE  ShardsTypeOK' /\ ShardsInv'
<1>1. ShardsTypeOK'
  <2>1. meddles' \in 0 .. MaxMeddles
    BY ShardsAssumption DEF OtherDiscounts, Meddle, ShardsTypeOK
  <2>2. QED BY <2>1 DEF ShardsTypeOK, OtherDiscounts, stores, locals
<1>2. Shape'
  BY DEF Shape, OtherDiscounts, ShardsInv, stores, locals, Shards
<1>3. Titles'
  BY DEF Titles, OtherDiscounts, ShardsInv, stores, locals, Shards
<1>4. Planned'
  BY DEF Planned, OtherDiscounts, ShardsInv, stores, locals, Numbered, Wanted
<1>5. Listed'
  BY DEF Listed, OtherDiscounts, ShardsInv, stores, locals, Wanted, Shards, LiveSlots
<1>6. Covered'
  BY DEF Covered, OtherDiscounts, ShardsInv, stores, locals, Shards
<1>7. Drained'
  BY DEF Drained, OtherDiscounts, ShardsInv, locals, Wanted
<1>8. Served'
  BY DEF Served, OtherDiscounts, ShardsInv, stores, Shards
<1>9. Calm'
  BY DEF Calm, OtherDiscounts, ShardsInv, stores, locals, Unrepeated, Shards
<1>10. QED BY <1>1, <1>2, <1>3, <1>4, <1>5, <1>6, <1>7, <1>8, <1>9 DEF ShardsInv

\* A node the merchant deletes takes its offers along; the list may be shorter from now on.
LEMMA InvDeleteNode ==
  ASSUME ShardsTypeOK, ShardsInv, DeleteNode
  PROVE  ShardsTypeOK' /\ ShardsInv'
<1>a. /\ nodes' \in [DOMAIN nodes' -> Node] /\ IsFiniteSet(DOMAIN nodes')
      /\ DOMAIN nodes' \subseteq DOMAIN nodes /\ \A n \in DOMAIN nodes' : nodes'[n] = nodes[n]
  <2>1. PICK x \in DOMAIN nodes : nodes' = [n \in DOMAIN nodes \ {x} |-> nodes[n]]
    BY DEF DeleteNode
  <2>2. QED BY <2>1, LessNodes DEF ShardsInv
<1>b. UNCHANGED <<active, enabled, stores, foreign, locals, phase, mishaps>>
        /\ meddles < MaxMeddles /\ meddles' = meddles + 1 /\ calm' = (phase = "idle")
  BY DEF DeleteNode, Meddle
<1>1. ShardsTypeOK'
  <2>1. meddles' \in 0 .. MaxMeddles /\ calm' \in BOOLEAN
    BY <1>b, ShardsAssumption DEF ShardsTypeOK
  <2>2. QED BY <1>a, <1>b, <2>1 DEF ShardsTypeOK, stores, locals
<1>2. Shape'
  BY <1>a, <1>b DEF Shape, ShardsInv, Shards, stores, locals
<1>3. Titles'
  BY <1>a, <1>b DEF Titles, ShardsInv, Shards, stores, locals
<1>4. Planned'
  BY <1>b DEF Planned, ShardsInv, Numbered, Wanted, locals
<1>5. Listed'
  <2>1. Cardinality(LiveSlots') <= Cardinality(LiveSlots) /\ Cardinality(LiveSlots) \in Nat
          /\ Cardinality(LiveSlots') \in Nat
    <3>1. LiveSlots' \in SUBSET LiveSlots
      BY <1>a, <1>b DEF LiveSlots, Shards, stores
    <3>2. IsFiniteSet(LiveSlots)
      <4>1. PICK k \in 0 .. MaxSlots - 1 : Shards = 1 .. k
        BY DEF ShardsInv, Shape
      <4>2. IsFiniteSet(1 .. k) /\ LiveSlots \in SUBSET (1 .. k)
        BY <4>1, FS_Interval DEF LiveSlots
      <4>3. QED BY <4>2, FS_Subset
    <3>3. QED BY <3>1, <3>2, FS_Subset, FS_CardinalityType
  <2>2. phase = "ensure" => Cardinality(LiveSlots) <= needed
    BY DEF ShardsInv, Listed
  <2>3. UNCHANGED <<phase, pool, needed, at, plan, rows>> /\ needed \in Nat
    BY <1>b, ShardsAssumption DEF stores, locals, ShardsTypeOK
  <2>4. phase' = "ensure" => Cardinality(LiveSlots') <= needed'
    BY <2>1, <2>2, <2>3
  <2>5. QED BY <2>3, <2>4 DEF Listed, ShardsInv, Wanted, Shards
<1>6. Covered'
  BY <1>a, <1>b DEF Covered, ShardsInv, Shards, stores, locals
<1>7. Drained'
  BY <1>a, <1>b DEF Drained, ShardsInv, Wanted, locals
<1>8. Served'
  BY <1>a, <1>b DEF Served, ShardsInv, Shards, stores
<1>9. Calm'
  BY <1>b DEF Calm
<1>10. QED BY <1>1, <1>2, <1>3, <1>4, <1>5, <1>6, <1>7, <1>8, <1>9 DEF ShardsInv

\* The pool asked for is as long as the plan and as what is live.
LEMMA InvCountShards ==
  ASSUME ShardsTypeOK, ShardsInv, CountShards
  PROVE  ShardsTypeOK' /\ ShardsInv'
<1> DEFINE live == Live(Recorded)
<1>a. /\ live \in Seq(NodeIds) /\ Len(live) = Cardinality(LiveSlots) /\ Len(live) <= MaxSlots - 1
      /\ \A j \in DOMAIN live :
           live[j] \in DOMAIN nodes /\ \E s \in Shards : live[j] = rows[s].node
      /\ \A s \in Shards : rows[s].node \in DOMAIN nodes =>
           \E j \in DOMAIN live : j <= s /\ live[j] = rows[s].node
      /\ Unrepeated => \A i, j \in DOMAIN live : live[i] = live[j] => i = j
  BY LiveIs DEF ShardsInv
<1>b. Wanted \in 0 .. MaxSlots - 1 /\ phase = "live"
  BY DEF ShardsInv, Planned, CountShards
<1>c. UNCHANGED <<stores, shopNodes, taken, plan, used, gone, aside>>
  BY DEF CountShards
<1>d. \/ /\ phase' = "ensure" /\ UNCHANGED <<pool, at>> /\ Wanted > 0
         /\ needed' \in 0 .. MaxSlots - 1 /\ needed' >= Wanted /\ needed' >= Len(live)
      \/ Wanted = 0 /\ pool' = live /\ phase' = "push" /\ at' = 1 /\ UNCHANGED needed
  <2>1. CASE Wanted > 0
    <3>1. needed' = Max({Wanted, Len(live)}) /\ phase' = "ensure" /\ UNCHANGED <<pool, at>>
      BY <2>1 DEF CountShards
    <3> DEFINE w == Wanted
               l == Len(live)
    <3>2. w \in Int /\ l \in Nat /\ l <= MaxSlots - 1 /\ w \in 0 .. MaxSlots - 1
      BY <1>a, <1>b, ShardsAssumption
    <3> HIDE DEF w, l
    <3>3. Max({w, l}) = IF w >= l THEN w ELSE l
      BY <3>2, MaxOfTwo
    <3>4. Max({w, l}) \in 0 .. MaxSlots - 1 /\ Max({w, l}) >= w /\ Max({w, l}) >= l
      BY <3>2, <3>3, ShardsAssumption
    <3>5. QED BY <2>1, <3>1, <3>4 DEF w, l
  <2>2. CASE ~(Wanted > 0)
    BY <1>b, <2>2, ShardsAssumption DEF CountShards
  <2>3. QED BY <2>1, <2>2
<1> HIDE DEF live
<1>1. ShardsTypeOK'
  <2>1. pool' \in Seq(NodeIds) /\ needed' \in 0 .. MaxSlots - 1 /\ at' \in Nat
          /\ phase' \in {"ensure", "push"}
    BY <1>a, <1>d DEF ShardsTypeOK
  <2>2. QED BY <1>c, <2>1 DEF ShardsTypeOK, stores, shopNodes, aside, merchant
<1>2. Shape'
  BY <1>c DEF Shape, ShardsInv, Shards, stores, shopNodes
<1>3. Titles'
  BY <1>a, <1>c, <1>d DEF Titles, ShardsInv, Shards, stores, shopNodes
<1>4. Planned'
  <2>1. phase' \in {"ensure", "push"} /\ UNCHANGED <<plan, taken>>
    BY <1>c, <1>d
  <2>2. QED BY <1>b, <2>1 DEF Planned, ShardsInv, Numbered, Wanted
<1>5. Listed'
  <2>1. Wanted' = Wanted /\ LiveSlots' = LiveSlots
    BY <1>c DEF Wanted, LiveSlots, Shards, stores, shopNodes
  <2>2. CASE phase' = "ensure"
    BY <1>a, <1>d, <2>1, <2>2 DEF Listed, ShardsInv
  <2>3. CASE phase' = "push"
    <3>1. Wanted' = 0 /\ pool' = live /\ Len(live) <= MaxSlots - 1 /\ Len(live) >= 0
      BY <1>a, <1>d, <2>1, <2>3
    <3>2. QED BY <2>3, <3>1 DEF Listed
  <2>4. QED BY <1>d, <2>2, <2>3
<1>6. Covered'
  BY <1>a, <1>c, <1>d DEF Covered, Shards, stores, shopNodes
<1>7. Drained'
  BY <1>d DEF Drained
<1>8. Served'
  BY <1>c DEF Served, ShardsInv, Shards, stores, shopNodes
<1>9. Calm'
  BY <1>a, <1>b, <1>c, <1>d DEF Calm, ShardsInv, Unrepeated, Shards, stores, aside
<1>10. QED BY <1>1, <1>2, <1>3, <1>4, <1>5, <1>6, <1>7, <1>8, <1>9 DEF ShardsInv

\* The pool begins with the recorded nodes that are still there.
LEMMA InvEnsureShards ==
  ASSUME ShardsTypeOK, ShardsInv, EnsureShards
  PROVE  ShardsTypeOK' /\ ShardsInv'
<1> DEFINE live == Live(Recorded)
<1>a. /\ live \in Seq(NodeIds) /\ Len(live) = Cardinality(LiveSlots) /\ Len(live) <= MaxSlots - 1
      /\ \A j \in DOMAIN live :
           live[j] \in DOMAIN nodes /\ \E s \in Shards : live[j] = rows[s].node
      /\ \A s \in Shards : rows[s].node \in DOMAIN nodes =>
           \E j \in DOMAIN live : j <= s /\ live[j] = rows[s].node
      /\ Unrepeated => \A i, j \in DOMAIN live : live[i] = live[j] => i = j
  BY LiveIs DEF ShardsInv
<1>b. phase = "ensure" /\ Wanted > 0 /\ needed >= Wanted /\ Len(live) <= needed
  BY <1>a DEF ShardsInv, Listed, EnsureShards
<1>c. UNCHANGED <<stores, shopNodes, taken, plan, needed, gone, aside>>
        /\ pool' = live /\ used' = {nodes[n].title : n \in Members(live)} /\ at' = 1
  BY DEF EnsureShards
<1>d. \/ phase' = "make" /\ Len(live) < needed
      \/ phase' = "list" /\ Len(live) >= needed
      \/ /\ phase' = "push" /\ Len(live) >= needed
         /\ Shards = DOMAIN live /\ \A j \in DOMAIN live : rows[j].node = live[j]
  <2>1. phase' = IF Len(live) < needed THEN "make" ELSE IF live # Recorded THEN "list" ELSE "push"
    BY DEF EnsureShards
  <2>2. Len(live) < needed \/ Len(live) >= needed
    BY <1>a DEF ShardsTypeOK
  <2>3. DOMAIN Recorded = Shards /\ \A s \in Shards : Recorded[s] = rows[s].node
    BY RecordedIs DEF ShardsInv
  <2>4. QED BY <2>1, <2>2, <2>3
<1> HIDE DEF live
<1>1. ShardsTypeOK'
  <2>1. pool' \in Seq(NodeIds) /\ phase' \in {"make", "list", "push"}
    BY <1>a, <1>c, <1>d
  <2>2. used' \subseteq Nat
    BY <1>a, <1>c DEF ShardsTypeOK, Members
  <2>3. QED BY <1>c, <2>1, <2>2 DEF ShardsTypeOK, stores, shopNodes, aside, merchant
<1>2. Shape'
  <2>1. IsFiniteSet(used')
    <3> DEFINE f == [j \in 1 .. Len(live) |-> nodes[live[j]].title]
    <3>1. Len(live) \in Nat /\ DOMAIN live = 1 .. Len(live)
      BY <1>a
    <3>2. IsFiniteSet(1 .. Len(live)) /\ DOMAIN f = 1 .. Len(live)
      BY <3>1, IntervalCount
    <3>3. {f[j] : j \in 1 .. Len(live)} = used'
      BY <1>c, <3>1 DEF Members
    <3> HIDE DEF f
    <3>4. IsFiniteSet({f[j] : j \in 1 .. Len(live)})
      BY <3>2, ImageFinite
    <3>5. QED BY <3>3, <3>4
  <2>2. QED BY <1>c, <2>1 DEF Shape, ShardsInv, Shards, stores, shopNodes
<1>3. Titles'
  BY <1>a, <1>c, <1>d DEF Titles, ShardsInv, Shards, stores, shopNodes
<1>4. Planned'
  <2>1. phase' \in {"make", "list", "push"} /\ UNCHANGED <<plan, taken>>
    BY <1>c, <1>d
  <2>2. QED BY <1>b, <2>1 DEF Planned, ShardsInv, Numbered, Wanted
<1>5. Listed'
  <2>1. Wanted' = Wanted /\ Shards' = Shards /\ UNCHANGED <<rows, needed>>
    BY <1>c DEF Wanted, Shards, stores
  <2>2. CASE phase' = "make"
    BY <1>a, <1>b, <1>c, <1>d, <2>1, <2>2 DEF Listed
  <2>3. CASE phase' = "list"
    <3>1. Len(live) \in Nat /\ \A j \in 1 .. 1 - 1 : FALSE
      BY <1>a
    <3>2. QED BY <1>a, <1>b, <1>c, <1>d, <2>1, <2>3, <3>1 DEF Listed
  <2>4. CASE phase' = "push"
    <3>1. Len(live) >= Wanted
      <4>1. Wanted \in Nat /\ needed \in Nat /\ Len(live) \in Nat
        BY <1>a, <1>b, ShardsAssumption DEF ShardsInv, Planned, ShardsTypeOK
      <4>2. QED BY <1>b, <1>d, <2>4, <4>1
    <3>2. QED BY <1>a, <1>c, <1>d, <2>1, <2>4, <3>1 DEF Listed
  <2>5. QED BY <1>d, <2>2, <2>3, <2>4
<1>6. Covered'
  BY <1>a, <1>c, <1>d DEF Covered, Shards, stores, shopNodes
<1>7. Drained'
  BY <1>d DEF Drained
<1>8. Served'
  BY <1>c DEF Served, ShardsInv, Shards, stores, shopNodes
<1>9. Calm'
  BY <1>a, <1>b, <1>c, <1>d DEF Calm, ShardsInv, aside
<1>10. QED BY <1>1, <1>2, <1>3, <1>4, <1>5, <1>6, <1>7, <1>8, <1>9 DEF ShardsInv

\* A new shard is in no list and serves nothing.
LEMMA InvMakeShard ==
  ASSUME ShardsTypeOK, ShardsInv, MakeShard
  PROVE  ShardsTypeOK' /\ ShardsInv'
<1> DEFINE bound == MaxSlots + Cardinality(used)
           title == Min({k \in 1 .. bound : k \notin used})
<1>a. title \in Nat /\ title > 0
  <2> DEFINE T == {k \in 1 .. bound : k \notin used}
  <2>1. IsFiniteSet(used) /\ Cardinality(used) \in Nat
    BY FS_CardinalityType DEF ShardsInv, Shape
  <2>2. bound \in Nat /\ bound > Cardinality(used)
    BY <2>1, ShardsAssumption
  <2> HIDE DEF bound
  <2>3. T # {}
    <3>1. SUFFICES ASSUME 1 .. bound \in SUBSET used PROVE FALSE
      OBVIOUS
    <3>2. Cardinality(1 .. bound) = bound
      BY <2>2, IntervalCount
    <3>3. Cardinality(1 .. bound) <= Cardinality(used)
      BY <2>1, <3>1, FS_Subset
    <3>4. QED BY <2>1, <2>2, <3>2, <3>3
  <2>4. T \in SUBSET Nat
    BY <2>2
  <2> HIDE DEF T
  <2>5. Min(T) \in T
    BY <2>3, <2>4, MinIn
  <2>6. QED BY <2>5 DEF T
<1> HIDE DEF title, bound
<1>b. /\ phase = "make" /\ phase' = "list" /\ at' = 1 /\ used' = used \cup {title}
      /\ UNCHANGED <<stores, foreign, taken, plan, needed, gone, aside>>
  BY DEF MakeShard, title, bound
<1>c. \E n \in DOMAIN nodes' :
        /\ pool' = Append(pool, n) /\ nodes'[n].title > 0
        /\ \A j \in DOMAIN pool : pool[j] # n
        /\ nodes' \in [DOMAIN nodes' -> Node] /\ IsFiniteSet(DOMAIN nodes')
        /\ DOMAIN nodes' \subseteq NodeIds /\ DOMAIN nodes \subseteq DOMAIN nodes'
        /\ \A m \in DOMAIN nodes : nodes'[m] = nodes[m]
        /\ \A m \in DOMAIN nodes' \ DOMAIN nodes :
             /\ nodes'[m].offers = {} /\ m # own
             /\ (\A s \in DOMAIN rows : m # rows[s].node) /\ m = n
  <2>1. ASSUME NEW n \in Titled(title) \ Members(pool), pool' = Append(pool, n), nodes' = nodes
        PROVE  <1>c
    BY <1>a, <2>1 DEF Titled, Members, ShardsInv, Shape, ShardsTypeOK
  <2>2. CASE StoreActive < Limit /\ NewNode(title) /\ pool' = Append(pool, Fresh)
    <3>1. /\ Fresh \in NodeIds /\ Fresh \notin DOMAIN nodes /\ Fresh # own
          /\ (\A s \in DOMAIN rows : Fresh # rows[s].node) /\ \A j \in DOMAIN pool : Fresh # pool[j]
      BY <2>2, FreshIs DEF ShardsInv
    <3>2. /\ nodes' \in [DOMAIN nodes' -> Node] /\ IsFiniteSet(DOMAIN nodes')
          /\ DOMAIN nodes' = DOMAIN nodes \cup {Fresh} /\ DOMAIN nodes' \subseteq NodeIds
          /\ nodes'[Fresh] = [title |-> title, offers |-> {}]
          /\ \A n \in DOMAIN nodes : nodes'[n] = nodes[n]
      BY <1>a, <2>2, <3>1, NewNodeIs DEF ShardsInv
    <3> DEFINE f == Fresh
    <3>3. pool' = Append(pool, f) /\ f \in DOMAIN nodes'
      BY <2>2, <3>2
    <3> HIDE DEF f
    <3>4. QED BY <1>a, <3>1, <3>2, <3>3 DEF f
  <2>3. QED BY <2>1, <2>2 DEF MakeShard, title, bound
<1>d. PICK new \in DOMAIN nodes' :
        /\ pool' = Append(pool, new) /\ nodes'[new].title > 0
        /\ \A j \in DOMAIN pool : pool[j] # new
        /\ nodes' \in [DOMAIN nodes' -> Node] /\ IsFiniteSet(DOMAIN nodes')
        /\ DOMAIN nodes' \subseteq NodeIds /\ DOMAIN nodes \subseteq DOMAIN nodes'
        /\ \A m \in DOMAIN nodes : nodes'[m] = nodes[m]
        /\ \A m \in DOMAIN nodes' \ DOMAIN nodes :
             /\ nodes'[m].offers = {} /\ m # own
             /\ (\A s \in DOMAIN rows : m # rows[s].node) /\ m = new
  BY <1>c
<1>e. /\ pool \in Seq(NodeIds) /\ pool' \in Seq(NodeIds) /\ Len(pool') = Len(pool) + 1
      /\ Len(pool) \in Nat /\ DOMAIN pool = 1 .. Len(pool) /\ DOMAIN pool' = 1 .. Len(pool) + 1
      /\ pool'[Len(pool) + 1] = new /\ \A j \in DOMAIN pool : pool'[j] = pool[j]
  <2>1. pool \in Seq(NodeIds) /\ new \in NodeIds
    BY <1>d DEF ShardsTypeOK
  <2>2. QED BY <1>d, <2>1
<1>1. ShardsTypeOK'
  <2>1. used' \subseteq Nat /\ \A n \in DOMAIN nodes' : nodes'[n].title \in Nat /\ nodes'[n].offers \subseteq Nat
    BY <1>a, <1>b, <1>d DEF ShardsTypeOK, Node
  <2>2. at' \in Nat /\ phase' = "list"
    BY <1>b
  <2>3. QED BY <1>b, <1>d, <1>e, <2>1, <2>2 DEF ShardsTypeOK, stores, aside, merchant
<1>2. Shape'
  <2>1. IsFiniteSet(used')
    BY <1>b, FS_AddElement DEF ShardsInv, Shape
  <2>2. QED BY <1>b, <1>d, <2>1 DEF Shape, ShardsInv, Shards, stores
<1>3. Titles'
  <2>1. own \in DOMAIN nodes' => nodes'[own].title = 0
    BY <1>d DEF Titles, ShardsInv
  <2>2. \A s \in Shards : rows[s].node \in DOMAIN nodes' => nodes'[rows[s].node].title > 0
    BY <1>d DEF Titles, ShardsInv, Shards
  <2>3. ASSUME NEW j \in DOMAIN pool', pool'[j] \in DOMAIN nodes' PROVE nodes'[pool'[j]].title > 0
    <3>1. CASE j = Len(pool) + 1
      BY <1>d, <1>e, <3>1
    <3>2. CASE j # Len(pool) + 1
      <4>1. j \in DOMAIN pool /\ pool'[j] = pool[j]
        BY <1>e, <3>2
      <4>2. pool[j] \in DOMAIN nodes
        BY <1>d, <2>3, <4>1
      <4>3. QED BY <1>d, <4>1, <4>2 DEF Titles, ShardsInv
    <3>3. QED BY <3>1, <3>2
  <2>4. QED BY <1>b, <2>1, <2>2, <2>3 DEF Titles, Shards, stores
<1>4. Planned'
  <2>1. phase = "make" /\ phase' = "list" /\ UNCHANGED <<plan, taken>>
    BY <1>b
  <2>2. QED BY <2>1 DEF Planned, ShardsInv, Numbered, Wanted
<1>5. Listed'
  <2>1. Wanted' = Wanted /\ Wanted > 0 /\ needed >= Wanted /\ UNCHANGED needed
    BY <1>b DEF Wanted, ShardsInv, Listed
  <2>2. Len(pool') <= MaxSlots - 1
    <3>1. Len(pool) < needed /\ needed \in 0 .. MaxSlots - 1
      BY <1>b DEF ShardsInv, Listed, ShardsTypeOK
    <3>2. QED BY <1>e, <3>1, ShardsAssumption
  <2>3. 1 \in 1 .. Len(pool') + 1 /\ 1 .. 1 - 1 = {}
    BY <1>e
  <2>4. QED BY <1>b, <2>1, <2>2, <2>3 DEF Listed
<1>6. Covered'
  <2>1. ASSUME NEW s \in Shards, rows[s].node \in DOMAIN nodes'
        PROVE  \E j \in DOMAIN pool' : j <= s /\ pool'[j] = rows[s].node
    <3>1. rows[s].node \in DOMAIN nodes
      BY <1>d, <2>1 DEF Shards
    <3>2. PICK j \in DOMAIN pool : j <= s /\ pool[j] = rows[s].node
      BY <1>b, <3>1 DEF ShardsInv, Covered
    <3>3. j \in DOMAIN pool' /\ pool'[j] = pool[j]
      BY <1>e
    <3>4. QED BY <3>2, <3>3
  <2>2. QED BY <1>b, <2>1 DEF Covered, Shards, stores
<1>7. Drained'
  BY <1>b DEF Drained
<1>8. Served'
  BY <1>b, <1>d DEF Served, ShardsInv, Shards, stores
<1>9. Calm'
  <2>1. ASSUME calm, NEW i \in DOMAIN pool', NEW j \in DOMAIN pool', pool'[i] = pool'[j] PROVE i = j
    <3>1. \A k, l \in DOMAIN pool : pool[k] = pool[l] => k = l
      BY <1>b, <2>1 DEF ShardsInv, Calm
    <3>2. \A k \in DOMAIN pool' : k = Len(pool) + 1 \/ k \in DOMAIN pool
      BY <1>e
    <3>3. QED BY <1>d, <1>e, <2>1, <3>1, <3>2
  <2>2. phase' = "list" /\ calm' = calm
    BY <1>b DEF aside
  <2>3. QED BY <2>1, <2>2 DEF Calm
<1>10. QED BY <1>1, <1>2, <1>3, <1>4, <1>5, <1>6, <1>7, <1>8, <1>9 DEF ShardsInv

\* While the list is written no row lets go of a node that the rest of the pool does not hold.
LEMMA InvWriteList ==
  ASSUME ShardsTypeOK, ShardsInv, WriteList
  PROVE  ShardsTypeOK' /\ ShardsInv'
<1>a. UNCHANGED <<own, others, shopNodes, taken, plan, pool, needed, used, gone, aside>>
        /\ phase \in {"list", "endlist"}
  BY DEF WriteList
<1>b. /\ pool \in Seq(NodeIds) /\ Len(pool) \in Nat /\ DOMAIN pool = 1 .. Len(pool)
      /\ Len(pool) <= MaxSlots - 1 /\ at \in 1 .. Len(pool) + 1
      /\ \A j \in 1 .. at - 1 : j \in Shards /\ rows[j].node = pool[j]
      /\ \A s \in Shards : s >= at /\ rows[s].node \in DOMAIN nodes =>
           \E j \in DOMAIN pool : j <= s /\ pool[j] = rows[s].node
  BY <1>a DEF ShardsInv, Listed, Covered, ShardsTypeOK
<1>c. PICK k \in 0 .. MaxSlots - 1 : Shards = 1 .. k
  BY DEF ShardsInv, Shape
<1>d. CASE at <= Len(pool)
  <2>a. /\ phase' = phase /\ at' = at + 1 /\ at \in DOMAIN pool
        /\ rows' \in [DOMAIN rows' -> Row] /\ DOMAIN rows' = DOMAIN rows \cup {at}
        /\ rows'[at].node = pool[at] /\ \A s \in DOMAIN rows : s # at => rows'[s] = rows[s]
    <3>1. rows' = WithNode(at, pool[at]) /\ phase' = phase /\ at' = at + 1
      BY <1>d DEF WriteList
    <3>2. at \in DOMAIN pool /\ pool[at] \in NodeIds
      BY <1>b, <1>d
    <3>3. [node |-> pool[at], units |-> IF at \in DOMAIN rows THEN rows[at].units ELSE {}] \in Row
      BY <3>2 DEF Row, ShardsInv, Shape
    <3> DEFINE new == [node |-> pool[at], units |-> IF at \in DOMAIN rows THEN rows[at].units ELSE {}]
    <3>4. rows' = [r \in DOMAIN rows \cup {at} |-> IF r # at THEN rows[r] ELSE new] /\ new.node = pool[at]
      BY <3>1 DEF WithNode
    <3> HIDE DEF new
    <3>5. QED BY <3>1, <3>2, <3>3, <3>4 DEF ShardsInv, Shape, new
  <2>b. /\ Shards' = Shards \cup {at} /\ \E l \in 0 .. MaxSlots - 1 : Shards' = 1 .. l
    <3>1. Shards' = Shards \cup {at}
      BY <1>b, <2>a DEF Shards
    <3>2. at <= k + 1
      <4>1. at = 1 \/ at - 1 \in 1 .. k
        BY <1>b, <1>c
      <4>2. QED BY <1>b, <1>c, <4>1, ShardsAssumption
    <3>3. Shards' = 1 .. IF at = k + 1 THEN k + 1 ELSE k
      BY <1>b, <1>c, <3>1, <3>2, ShardsAssumption
    <3>4. at = k + 1 => k + 1 \in 0 .. MaxSlots - 1
      BY <1>b, <1>c, <1>d, ShardsAssumption
    <3>5. QED BY <1>c, <3>1, <3>3, <3>4
  <2>1. ShardsTypeOK'
    <3>1. at' \in Nat /\ DOMAIN rows' \subseteq 0 .. MaxSlots
      <4>1. at \in Nat /\ at \in 0 .. MaxSlots
        BY <1>b, <1>d, ShardsAssumption
      <4>2. QED BY <2>a, <4>1 DEF ShardsTypeOK
    <3>2. \A s \in DOMAIN rows' : rows'[s].node \in NodeIds /\ rows'[s].units \subseteq Nat
      BY <2>a DEF Row
    <3>3. QED BY <1>a, <2>a, <3>1, <3>2 DEF ShardsTypeOK, shopNodes, aside, merchant
  <2>2. Shape'
    BY <1>a, <2>a, <2>b DEF Shape, ShardsInv, shopNodes
  <2>3. Titles'
    <3>1. \A s \in Shards' : rows'[s].node \in DOMAIN nodes => nodes[rows'[s].node].title > 0
      BY <2>a, <2>b DEF Titles, ShardsInv, Shards
    <3>2. QED BY <1>a, <2>a, <3>1 DEF Titles, ShardsInv, shopNodes
  <2>4. Planned'
    BY <1>a, <2>a DEF Planned, ShardsInv, Numbered, Wanted
  <2>5. Listed'
    <3>1. at' \in 1 .. Len(pool) + 1
      BY <1>b, <1>d, <2>a
    <3>2. ASSUME NEW j \in 1 .. at' - 1 PROVE j \in Shards' /\ rows'[j].node = pool[j]
      <4>1. j = at \/ j \in 1 .. at - 1
        BY <1>b, <2>a
      <4>2. QED BY <1>b, <2>a, <2>b, <4>1 DEF Shards
    <3>3. QED BY <1>a, <2>a, <3>1, <3>2 DEF Listed, ShardsInv, Wanted
  <2>6. Covered'
    <3>1. \A s \in Shards' : s >= at' => s \in Shards /\ s >= at /\ rows'[s] = rows[s]
      BY <1>b, <1>c, <2>a, <2>b DEF Shards
    <3>2. QED BY <1>a, <1>b, <2>a, <3>1 DEF Covered, shopNodes
  <2>7. Drained'
    BY <1>a, <2>a DEF Drained
  <2>8. Served'
    <3>1. ASSUME NEW n \in DOMAIN nodes, NEW s \in Shards, rows[s].node = n
          PROVE  \E t \in Shards' : rows'[t].node = n
      <4>1. CASE s # at
        BY <2>a, <2>b, <3>1, <4>1 DEF Shards
      <4>2. CASE s = at
        <5>1. PICK j \in DOMAIN pool : j <= at /\ pool[j] = n
          BY <1>b, <3>1, <4>2
        <5>2. CASE j = at
          BY <2>a, <2>b, <5>1, <5>2
        <5>3. CASE j # at
          <6>1. j \in 1 .. at - 1
            BY <1>b, <5>1, <5>3
          <6>2. j \in Shards /\ rows[j].node = n
            BY <1>b, <5>1, <6>1
          <6>3. QED BY <2>a, <2>b, <5>3, <6>2 DEF Shards
        <5>4. QED BY <5>2, <5>3
      <4>3. QED BY <4>1, <4>2
    <3>2. QED BY <1>a, <3>1 DEF Served, ShardsInv, shopNodes
  <2>9. Calm'
    BY <1>a, <2>a DEF Calm, ShardsInv, shopNodes, aside
  <2>10. QED BY <2>1, <2>2, <2>3, <2>4, <2>5, <2>6, <2>7, <2>8, <2>9 DEF ShardsInv
<1>e. CASE ~(at <= Len(pool))
  <2>a. /\ at = Len(pool) + 1 /\ at' = 0
        /\ phase' = IF phase = "endlist" THEN "done" ELSE IF Len(pool) < needed THEN "make" ELSE "push"
        /\ rows' = [s \in DOMAIN rows \cap 0 .. Len(pool) |-> rows[s]]
    BY <1>b, <1>e DEF WriteList
  <2>b. /\ Shards' = DOMAIN pool /\ \A j \in DOMAIN pool : rows'[j].node = pool[j]
        /\ DOMAIN rows' \subseteq DOMAIN rows /\ \A s \in DOMAIN rows' : rows'[s] = rows[s]
    <3>1. \A j \in DOMAIN pool : j \in Shards /\ rows[j].node = pool[j]
      BY <1>b, <2>a
    <3>2. DOMAIN rows' = DOMAIN rows \cap 0 .. Len(pool) /\ \A s \in DOMAIN rows' : rows'[s] = rows[s]
      BY <2>a
    <3>3. \A s \in Shards' : s \in Shards /\ s \in 0 .. Len(pool) /\ s # 0
      BY <3>2 DEF Shards
    <3>4. \A s \in DOMAIN pool : s \in Shards'
      BY <1>b, <3>1, <3>2 DEF Shards
    <3>5. QED BY <1>b, <3>1, <3>2, <3>3, <3>4 DEF Shards
  <2>1. ShardsTypeOK'
    <3>1. phase' \in {"done", "make", "push"} /\ at' \in Nat
      BY <2>a
    <3>2. QED BY <1>a, <2>b, <3>1 DEF ShardsTypeOK, shopNodes, aside, merchant
  <2>2. Shape'
    <3>1. rows' \in [DOMAIN rows' -> Row]
      BY <2>a DEF Shape, ShardsInv
    <3>2. Len(pool) \in 0 .. MaxSlots - 1 /\ Shards' = 1 .. Len(pool)
      BY <1>b, <2>b, ShardsAssumption
    <3>3. QED BY <1>a, <3>1, <3>2 DEF Shape, ShardsInv, shopNodes
  <2>3. Titles'
    <3>1. \A s \in Shards' : rows'[s].node \in DOMAIN nodes => nodes[rows'[s].node].title > 0
      BY <2>b DEF Titles, ShardsInv
    <3>2. phase' \notin {"find", "store"}
      BY <2>a
    <3>3. QED BY <1>a, <3>1, <3>2 DEF Titles, ShardsInv, shopNodes
  <2>4. Planned'
    BY <1>a, <2>a DEF Planned, ShardsInv, Numbered, Wanted
  <2>5. Listed'
    <3>1. Wanted' = Wanted /\ UNCHANGED <<pool, needed>>
      BY <1>a DEF Wanted
    <3>2. CASE phase' = "make"
      <4>1. phase = "list" /\ Len(pool) < needed
        BY <1>a, <2>a, <3>2
      <4>2. QED BY <1>b, <3>1, <3>2, <4>1 DEF Listed, ShardsInv
    <3>3. CASE phase' = "push"
      <4>1. phase = "list" /\ ~(Len(pool) < needed)
        BY <1>a, <2>a, <3>3
      <4>2. Wanted > 0 /\ needed >= Wanted /\ needed \in Nat /\ Wanted \in Int
        BY <4>1, ShardsAssumption DEF Listed, ShardsInv, Planned, ShardsTypeOK
      <4>3. Len(pool) >= Wanted
        BY <1>b, <4>1, <4>2
      <4>4. QED BY <1>b, <2>b, <3>1, <3>3, <4>3 DEF Listed
    <3>4. CASE phase' = "done"
      BY <1>b, <3>1, <3>4 DEF Listed
    <3>5. QED BY <2>a, <3>2, <3>3, <3>4
  <2>6. Covered'
    <3>1. \A s \in Shards' : s \in DOMAIN pool /\ s <= s /\ pool[s] = rows'[s].node
      BY <1>b, <2>b
    <3>2. pool' = pool
      BY <1>a
    <3>3. QED BY <3>1, <3>2 DEF Covered
  <2>7. Drained'
    BY <2>a DEF Drained
  <2>8. Served'
    <3>1. ASSUME NEW n \in DOMAIN nodes, NEW s \in Shards, rows[s].node = n
          PROVE  \E t \in Shards' : rows'[t].node = n
      <4>1. CASE s \in DOMAIN pool
        <5>1. s \in Shards' /\ s \in DOMAIN rows'
          BY <2>b, <4>1 DEF Shards
        <5>2. QED BY <2>b, <3>1, <5>1
      <4>2. CASE s \notin DOMAIN pool
        <5>1. s >= at
          BY <1>b, <1>c, <2>a, <4>2
        <5>2. PICK j \in DOMAIN pool : pool[j] = n
          BY <1>b, <3>1, <5>1
        <5>3. QED BY <2>b, <5>2
      <4>3. QED BY <4>1, <4>2
    <3>2. QED BY <1>a, <3>1 DEF Served, ShardsInv, shopNodes
  <2>9. Calm'
    BY <1>a, <2>a DEF Calm, ShardsInv, shopNodes, aside
  <2>10. QED BY <2>1, <2>2, <2>3, <2>4, <2>5, <2>6, <2>7, <2>8, <2>9 DEF ShardsInv
<1>f. QED BY <1>d, <1>e

\* One request writes every node of the pool and slot 0's: of several entries for a
\* node the last one counts, so that no offer stays behind and none is written twice.
LEMMA InvPushSlots ==
  ASSUME ShardsTypeOK, ShardsInv, PushSlots
  PROVE  ShardsTypeOK' /\ ShardsInv'
<1> DEFINE W == Wanted
           L == Len(pool)
           E == Entries
<1>a. /\ phase = "push" /\ phase' \in {"save", "done"} /\ at' = 0
      /\ Members(pool) \cup {own} \subseteq DOMAIN nodes
      /\ UNCHANGED <<stores, foreign, taken, plan, pool, needed, used, gone, aside>>
  BY DEF PushSlots
<1>b. /\ W \in 0 .. MaxSlots - 1 /\ W \in Nat /\ DOMAIN plan = 0 .. W /\ UNION {plan[n] : n \in 0 .. W} = taken
      /\ \A n, k \in 0 .. W : n # k => plan[n] \cap plan[k] = {}
      /\ \A n \in 0 .. W : plan[n] \subseteq taken
  <2>1. /\ DOMAIN plan = Numbered /\ Wanted \in 0 .. MaxSlots - 1
        /\ UNION {plan[n] : n \in Numbered} = taken
        /\ \A n, k \in Numbered : n # k => plan[n] \cap plan[k] = {}
    BY <1>a DEF ShardsInv, Planned
  <2>2. Numbered = 0 .. W
    BY DEF Numbered
  <2>3. \A n \in DOMAIN plan : plan[n] \subseteq taken
    BY DEF ShardsTypeOK
  <2> HIDE DEF W
  <2>4. W \in 0 .. MaxSlots - 1 /\ W \in Nat
    BY <2>1, ShardsAssumption DEF W
  <2>5. QED BY <2>1, <2>2, <2>3, <2>4
<1>c. /\ L \in Nat /\ L >= W /\ DOMAIN pool = 1 .. L /\ \A j \in 1 .. L : pool[j] \in DOMAIN nodes
      /\ W > 0 => Shards = 1 .. L /\ \A j \in 1 .. L : rows[j].node = pool[j]
  BY <1>a DEF ShardsInv, Listed, ShardsTypeOK, Members
<1>d. /\ DOMAIN E = 1 .. 1 + L
      /\ \A k \in 1 .. 1 + L :
           /\ E[k].node = IF k = 1 THEN own ELSE pool[k - 1]
           /\ E[k].offers = IF k <= 1 + W THEN Ids(plan[k - 1]) ELSE {}
  <2> DEFINE a == [n \in 1 .. 1 + W |->
                     [node |-> IF n = 1 THEN own ELSE pool[n - 1], offers |-> Ids(plan[n - 1])]]
             z == [n \in 1 .. L - W |-> [node |-> pool[W + n], offers |-> {}]]
             X == [node : {IF n = 1 THEN own ELSE pool[n - 1] : n \in 1 .. 1 + W}
                            \cup {pool[W + n] : n \in 1 .. L - W},
                   offers : {Ids(plan[n - 1]) : n \in 1 .. 1 + W} \cup {{}}]
  <2>1. E = a \o z
    BY DEF Entries, SlotEntries
  <2>2. a \in Seq(X) /\ z \in Seq(X) /\ Len(a) = 1 + W /\ Len(z) = L - W
    <3>1. 1 + W \in Nat /\ L - W \in Nat
      BY <1>b, <1>c
    <3>2. a \in [1 .. 1 + W -> X] /\ z \in [1 .. L - W -> X]
      OBVIOUS
    <3> HIDE DEF a, z, X, W, L
    <3>3. QED BY <3>1, <3>2
  <2>3. /\ \A n \in 1 .. 1 + W : a[n].node = (IF n = 1 THEN own ELSE pool[n - 1]) /\ a[n].offers = Ids(plan[n - 1])
        /\ \A n \in 1 .. L - W : z[n].node = pool[W + n] /\ z[n].offers = {}
    OBVIOUS
  <2> HIDE DEF a, z, X, E, W, L
  <2>4. DOMAIN E = 1 .. 1 + L
    BY <1>b, <1>c, <2>1, <2>2
  <2>5. ASSUME NEW k \in 1 .. 1 + L
        PROVE  /\ E[k].node = IF k = 1 THEN own ELSE pool[k - 1]
               /\ E[k].offers = IF k <= 1 + W THEN Ids(plan[k - 1]) ELSE {}
    <3>1. CASE k <= 1 + W
      <4>1. E[k] = a[k] /\ k \in 1 .. 1 + W
        BY <1>b, <1>c, <2>1, <2>2, <3>1
      <4>2. QED BY <2>3, <3>1, <4>1
    <3>2. CASE ~(k <= 1 + W)
      <4>1. k - (1 + W) \in 1 .. L - W /\ k # 1
        BY <1>b, <1>c, <3>2
      <4>2. E[k] = z[k - (1 + W)]
        BY <1>b, <1>c, <2>1, <2>2, <3>2
      <4>3. W + (k - (1 + W)) = k - 1
        BY <1>b
      <4>4. QED BY <2>3, <3>2, <4>1, <4>2, <4>3
    <3>3. QED BY <3>1, <3>2
  <2>6. QED BY <2>4, <2>5
<1> HIDE DEF W, L, E
<1>e. DOMAIN nodes' = DOMAIN nodes
  BY DEF PushSlots, Written
<1>f. ASSUME NEW n \in DOMAIN nodes
      PROVE  /\ nodes'[n].title = nodes[n].title
             /\ \/ nodes'[n] = nodes[n] /\ \A k \in 1 .. 1 + L : E[k].node # n
                \/ \E k \in 1 .. 1 + L : /\ E[k].node = n /\ nodes'[n].offers = E[k].offers
                                         /\ nodes'[n] \in [title : {nodes[n].title}, offers : {E[k].offers}]
                                         /\ \A m \in 1 .. 1 + L : E[m].node = n => m <= k
  <2> DEFINE mine == {k \in DOMAIN E : E[k].node = n}
  <2>1. nodes'[n] = IF mine = {} THEN nodes[n] ELSE [nodes[n] EXCEPT !.offers = E[Max(mine)].offers]
    BY DEF PushSlots, Written, E
  <2>2. mine \in SUBSET (1 .. 1 + L) /\ 1 + L \in Nat
    BY <1>c, <1>d
  <2>3. nodes[n] \in Node
    BY DEF ShardsInv, Shape
  <2>4. CASE mine = {}
    BY <1>d, <2>1, <2>4
  <2>5. CASE mine # {}
    <3> DEFINE k == Max(mine)
    <3> HIDE DEF mine
    <3>1. k \in mine /\ \A m \in mine : k >= m
      BY <2>2, <2>5, MaxIn
    <3>2. nodes'[n] = [nodes[n] EXCEPT !.offers = E[k].offers]
      BY <2>1, <2>5
    <3> HIDE DEF k
    <3>3. k \in 1 .. 1 + L /\ E[k].node = n /\ \A m \in 1 .. 1 + L : E[m].node = n => m <= k
      <4>1. \A m \in 1 .. 1 + L : E[m].node = n => m \in mine
        BY <1>d DEF mine
      <4>2. QED BY <2>2, <3>1, <4>1 DEF mine
    <3>4. nodes'[n].title = nodes[n].title /\ nodes'[n].offers = E[k].offers
            /\ nodes'[n] \in [title : {nodes[n].title}, offers : {E[k].offers}]
      BY <2>3, <3>2 DEF Node
    <3>5. QED BY <3>3, <3>4
  <2>6. QED BY <2>4, <2>5
<1>g. ASSUME NEW n \in DOMAIN nodes, \A k \in 1 .. 1 + L : E[k].node # n
      PROVE  nodes[n].offers = {}
  <2>1. n # own /\ \A j \in 1 .. L : pool[j] # n
    <3>1. E[1].node = own /\ 1 \in 1 .. 1 + L
      BY <1>c, <1>d
    <3>2. \A j \in 1 .. L : j + 1 \in 1 .. 1 + L /\ j + 1 # 1 /\ (j + 1) - 1 = j
      BY <1>c
    <3>3. \A j \in 1 .. L : E[j + 1].node = pool[j]
      BY <1>d, <3>2
    <3>4. QED BY <1>g, <3>1, <3>2, <3>3
  <2>2. \A s \in Shards : rows[s].node # n
    BY <1>a, <1>c, <2>1 DEF ShardsInv, Covered
  <2>3. QED BY <2>1, <2>2 DEF ShardsInv, Served
<1>h. ASSUME NEW n \in DOMAIN nodes
      PROVE  \/ nodes'[n].offers = {}
             \/ \E k \in 0 .. W : /\ nodes'[n].offers = Ids(plan[k]) /\ n = (IF k = 0 THEN own ELSE pool[k])
                                  /\ \A m \in 1 .. L : pool[m] = n => m <= k
  <2>1. CASE \A k \in 1 .. 1 + L : E[k].node # n
    <3>1. nodes'[n] = nodes[n]
      BY <1>f, <2>1
    <3>2. QED BY <1>g, <2>1, <3>1
  <2>2. CASE ~(\A k \in 1 .. 1 + L : E[k].node # n)
    <3>1. PICK k \in 1 .. 1 + L : /\ E[k].node = n /\ nodes'[n].offers = E[k].offers
                                  /\ \A m \in 1 .. 1 + L : E[m].node = n => m <= k
      BY <1>f, <2>2
    <3>2. CASE k <= 1 + W
      <4>1. k - 1 \in 0 .. W /\ (k = 1 <=> k - 1 = 0)
        BY <1>b, <1>c, <3>2
      <4>2. nodes'[n].offers = Ids(plan[k - 1]) /\ n = (IF k - 1 = 0 THEN own ELSE pool[k - 1])
        BY <1>d, <3>1, <3>2, <4>1
      <4>3. ASSUME NEW m \in 1 .. L, pool[m] = n PROVE m <= k - 1
        <5>1. m + 1 \in 1 .. 1 + L /\ m + 1 # 1 /\ (m + 1) - 1 = m
          BY <1>c
        <5>2. E[m + 1].node = n
          BY <1>d, <4>3, <5>1
        <5>3. m + 1 <= k
          BY <3>1, <5>1, <5>2
        <5>4. QED BY <5>3, <1>c
      <4>4. QED BY <4>1, <4>2, <4>3
    <3>3. CASE ~(k <= 1 + W)
      BY <1>d, <3>1, <3>3
    <3>4. QED BY <3>2, <3>3
  <2>3. QED BY <2>1, <2>2
<1>i. ASSUME NEW n \in DOMAIN nodes PROVE nodes'[n] \in Node
  <2>1. \A k \in 1 .. 1 + L : E[k].offers \subseteq Nat
    <3> TAKE k \in 1 .. 1 + L
    <3>1. CASE k <= 1 + W
      <4>1. k - 1 \in 0 .. W
        BY <1>b, <3>1
      <4>2. plan[k - 1] \in SUBSET taken
        BY <1>b, <4>1
      <4>3. QED BY <1>d, <3>1, <4>2, IdsAre
    <3>2. CASE ~(k <= 1 + W)
      BY <1>d, <3>2
    <3>3. QED BY <3>1, <3>2
  <2>2. nodes[n] \in Node
    BY DEF ShardsInv, Shape
  <2>3. QED BY <1>f, <2>1, <2>2 DEF Node
<1>1. ShardsTypeOK'
  <2>1. \A n \in DOMAIN nodes' : nodes'[n].title \in Nat /\ nodes'[n].offers \subseteq Nat
    BY <1>e, <1>i DEF Node
  <2>2. QED BY <1>a, <1>e, <2>1 DEF ShardsTypeOK, stores, aside, merchant
<1>2. Shape'
  <2>1. nodes' = [n \in DOMAIN nodes' |-> nodes'[n]]
    BY DEF PushSlots, Written
  <2>2. nodes' \in [DOMAIN nodes' -> Node]
    BY <1>e, <1>i, <2>1
  <2>3. QED BY <1>a, <1>e, <2>2 DEF Shape, ShardsInv, Shards, stores
<1>3. Titles'
  BY <1>a, <1>e, <1>f DEF Titles, ShardsInv, Shards, stores
<1>4. Planned'
  BY <1>a DEF Planned, ShardsInv, Numbered, Wanted
<1>5. Listed'
  BY <1>a DEF Listed, ShardsInv, Wanted, Shards, stores
<1>6. Covered'
  BY <1>a, <1>e DEF Covered, ShardsInv, Shards, stores
<1>7. Drained'
  <2>1. ASSUME NEW j \in 1 .. L, j > W PROVE nodes'[pool[j]].offers = {}
    <3>1. pool[j] \in DOMAIN nodes
      BY <1>c
    <3>2. ~\E k \in 0 .. W : \A m \in 1 .. L : pool[m] = pool[j] => m <= k
      BY <1>b, <2>1
    <3>3. QED BY <1>h, <3>1, <3>2
  <2>2. phase' # "delete" /\ pool' = pool /\ Wanted' = W
    BY <1>a DEF Wanted, W
  <2>3. QED BY <1>c, <2>1, <2>2 DEF Drained
<1>8. Served'
  <2>1. ASSUME NEW n \in DOMAIN nodes, NEW m \in DOMAIN nodes, n # m
        PROVE  nodes'[n].offers \cap nodes'[m].offers = {}
    <3>1. CASE nodes'[n].offers = {} \/ nodes'[m].offers = {}
      BY <3>1
    <3>2. CASE nodes'[n].offers # {} /\ nodes'[m].offers # {}
      <4>1. PICK k \in 0 .. W : nodes'[n].offers = Ids(plan[k]) /\ n = (IF k = 0 THEN own ELSE pool[k])
        BY <1>h, <3>2
      <4>2. PICK l \in 0 .. W : nodes'[m].offers = Ids(plan[l]) /\ m = (IF l = 0 THEN own ELSE pool[l])
        BY <1>h, <3>2
      <4>3. k # l
        BY <2>1, <4>1, <4>2
      <4>4. plan[k] \in SUBSET taken /\ plan[l] \in SUBSET taken /\ plan[k] \cap plan[l] = {}
        BY <1>b, <4>3
      <4>5. QED BY <4>1, <4>2, <4>4, IdsApart
    <3>3. QED BY <3>1, <3>2
  <2>2. ASSUME NEW n \in DOMAIN nodes, nodes'[n].offers # {}
        PROVE  n = own \/ \E s \in Shards : rows[s].node = n
    <3>1. PICK k \in 0 .. W : n = (IF k = 0 THEN own ELSE pool[k])
      BY <1>h, <2>2
    <3>2. CASE k # 0
      <4>1. W > 0 /\ k \in 1 .. L
        BY <1>b, <1>c, <3>2
      <4>2. QED BY <1>c, <3>1, <3>2, <4>1
    <3>3. QED BY <3>1, <3>2
  <2>3. own' = own /\ rows' = rows
    BY <1>a DEF stores
  <2>4. QED BY <1>e, <2>1, <2>2, <2>3 DEF Served, Shards
<1>9. Calm'
  <2>1. ASSUME calm PROVE UNION {nodes'[n].offers : n \in DOMAIN nodes} = Ids(taken)
    <3>1. ASSUME NEW n \in DOMAIN nodes PROVE nodes'[n].offers \subseteq Ids(taken)
      <4>1. \A k \in 0 .. W : Ids(plan[k]) \subseteq Ids(taken)
        BY <1>b DEF Ids
      <4>2. QED BY <1>h, <4>1
    <3>2. ASSUME NEW x \in taken
          PROVE  \E n \in DOMAIN nodes : x.id \in nodes'[n].offers
      <4>1. PICK k \in 0 .. W : x \in plan[k]
        BY <1>b
      <4> DEFINE n == IF k = 0 THEN own ELSE pool[k]
      <4>2. k + 1 \in 1 .. 1 + L /\ (k # 0 => k \in 1 .. L) /\ k \in Nat /\ (k + 1) - 1 = k
              /\ k + 1 <= 1 + W /\ (k + 1 = 1 <=> k = 0)
        BY <1>b, <1>c
      <4>3. n \in DOMAIN nodes
        BY <1>a, <1>c, <4>2
      <4>4. E[k + 1].node = n /\ E[k + 1].offers = Ids(plan[k])
        BY <1>d, <4>2
      <4>5. ASSUME NEW m \in 1 .. 1 + L, E[m].node = n PROVE m = k + 1
        <5>1. \A i, j \in 1 .. L : pool[i] = pool[j] => i = j
          BY <1>a, <1>c, <2>1 DEF ShardsInv, Calm
        <5>2. \A j \in 1 .. L : pool[j] # own
          <6>1. nodes[own].title = 0
            BY <1>a DEF ShardsInv, Titles
          <6>2. \A j \in 1 .. L : nodes[pool[j]].title > 0
            BY <1>c DEF ShardsInv, Titles
          <6>3. QED BY <6>1, <6>2
        <5>3. E[m].node = (IF m = 1 THEN own ELSE pool[m - 1]) /\ (m # 1 => m - 1 \in 1 .. L)
          BY <1>c, <1>d
        <5>4. CASE m = 1
          BY <4>2, <4>5, <5>2, <5>3, <5>4
        <5>5. CASE m # 1
          <6>1. pool[m - 1] = n /\ m - 1 \in 1 .. L
            BY <4>5, <5>3, <5>5
          <6>2. k # 0
            BY <5>2, <6>1
          <6>3. m - 1 = k
            BY <4>2, <5>1, <6>1, <6>2
          <6>4. QED BY <6>3
        <5>6. QED BY <5>4, <5>5
      <4> HIDE DEF n
      <4>6. nodes'[n].offers = Ids(plan[k])
        <5>1. PICK m \in 1 .. 1 + L : E[m].node = n /\ nodes'[n].offers = E[m].offers
          BY <1>f, <4>2, <4>3, <4>4
        <5>2. m = k + 1
          BY <4>5, <5>1
        <5>3. QED BY <4>4, <5>1, <5>2
      <4>7. QED BY <4>1, <4>3, <4>6 DEF Ids
    <3>3. QED BY <3>1, <3>2 DEF Ids
  <2>2. phase' \in {"save", "done"} /\ calm' = calm /\ taken' = taken
    BY <1>a DEF aside
  <2>3. QED BY <1>e, <2>1, <2>2 DEF Calm
<1>10. QED BY <1>1, <1>2, <1>3, <1>4, <1>5, <1>6, <1>7, <1>8, <1>9 DEF ShardsInv

\* What is saved for a slot is the node it has already; units may go, nodes stay.
LEMMA InvSaveSlot ==
  ASSUME ShardsTypeOK, ShardsInv, Spared, SaveSlot
  PROVE  ShardsTypeOK' /\ ShardsInv'
<1>a. /\ phase = "save" /\ UNCHANGED <<own, others, shopNodes, taken, plan, pool, needed, used, gone, aside>>
      /\ phase' \in {"save", "delete"} /\ at' \in Nat
  BY DEF SaveSlot, ShardsTypeOK, ShardsInv, Planned
<1>b. /\ Wanted \in 0 .. MaxSlots - 1 /\ Wanted' = Wanted /\ MaxSlots \in Nat
      /\ phase' = "delete" => at' > Wanted
  BY <1>a, ShardsAssumption DEF SaveSlot, ShardsInv, Planned, Wanted
<1>c. /\ Len(pool) \in Nat /\ Len(pool) >= Wanted /\ DOMAIN pool = 1 .. Len(pool)
      /\ Wanted > 0 => Shards = DOMAIN pool /\ \A j \in DOMAIN pool : rows[j].node = pool[j]
  BY <1>a DEF ShardsInv, Listed, ShardsTypeOK
<1>d. /\ Shards' = Shards /\ \A s \in Shards : rows'[s].node = rows[s].node
      /\ DOMAIN rows' \subseteq 0 .. MaxSlots /\ rows' \in [DOMAIN rows' -> Row]
  <2>1. rows \in [DOMAIN rows -> Row] /\ DOMAIN rows \subseteq 0 .. MaxSlots
    BY DEF ShardsInv, Shape, ShardsTypeOK
  <2>2. CASE at <= Wanted
    <3> DEFINE row == [node |-> IF at = 0 THEN own ELSE pool[at], units |-> Ids(plan[at])]
    <3>1. rows' = [s \in DOMAIN rows \cup {at} |-> IF s # at THEN rows[s] ELSE row]
      BY <2>2 DEF SaveSlot
    <3>2. at \in 0 .. Wanted /\ at \in 0 .. MaxSlots
      BY <1>b, <2>2 DEF ShardsTypeOK
    <3>3. at # 0 => at \in Shards /\ rows[at].node = pool[at] /\ pool[at] \in NodeIds
      <4>1. at # 0 => at \in DOMAIN pool /\ Wanted > 0
        BY <1>b, <1>c, <3>2
      <4>2. QED BY <1>c, <4>1 DEF ShardsTypeOK
    <3>4. row \in Row
      <4>1. plan[at] \in SUBSET taken
        BY <1>a, <3>2 DEF ShardsInv, Planned, ShardsTypeOK, Numbered
      <4>2. QED BY <3>3, <4>1, IdsAre DEF Row, ShardsTypeOK
    <3>5. row.node = IF at = 0 THEN own ELSE pool[at]
      OBVIOUS
    <3> HIDE DEF row
    <3>6. DOMAIN rows' = DOMAIN rows \cup {at}
            /\ \A s \in DOMAIN rows' : rows'[s] = IF s # at THEN rows[s] ELSE row
      BY <3>1
    <3>7. Shards' = Shards
      BY <3>3, <3>6 DEF Shards
    <3>8. \A s \in Shards : rows'[s].node = rows[s].node
      BY <3>3, <3>5, <3>6 DEF Shards
    <3>9. rows' \in [DOMAIN rows' -> Row]
      BY <2>1, <3>1, <3>4
    <3>10. QED BY <2>1, <3>2, <3>6, <3>7, <3>8, <3>9
  <2>3. CASE ~(at <= Wanted)
    <3>1. rows' = [s \in DOMAIN rows |-> IF s <= Wanted THEN rows[s] ELSE [rows[s] EXCEPT !.units = {}]]
      BY <2>3 DEF SaveSlot
    <3>2. \A s \in DOMAIN rows : [rows[s] EXCEPT !.units = {}] \in Row
            /\ [rows[s] EXCEPT !.units = {}].node = rows[s].node
      BY <2>1 DEF Row
    <3>3. DOMAIN rows' = DOMAIN rows /\ \A s \in DOMAIN rows : rows'[s] \in Row /\ rows'[s].node = rows[s].node
      BY <2>1, <3>1, <3>2
    <3>4. rows' \in [DOMAIN rows' -> Row]
      BY <3>1, <3>3
    <3>5. QED BY <2>1, <3>3, <3>4 DEF Shards
  <2>4. QED BY <2>2, <2>3
<1>1. ShardsTypeOK'
  <2>1. \A s \in DOMAIN rows' : rows'[s].node \in NodeIds /\ rows'[s].units \subseteq Nat
    BY <1>d DEF Row
  <2>2. QED BY <1>a, <1>d, <2>1 DEF ShardsTypeOK, shopNodes, aside, merchant
<1>2. Shape'
  BY <1>a, <1>d DEF Shape, ShardsInv, shopNodes
<1>3. Titles'
  BY <1>a, <1>d DEF Titles, ShardsInv, shopNodes
<1>4. Planned'
  BY <1>a, <1>b DEF Planned, ShardsInv, Numbered
<1>5. Listed'
  BY <1>a, <1>b, <1>c, <1>d DEF Listed, ShardsInv
<1>6. Covered'
  BY <1>a, <1>d DEF Covered, ShardsInv, shopNodes
<1>7. Drained'
  BY <1>a, <1>b DEF Drained, ShardsInv, shopNodes, Spared
<1>8. Served'
  BY <1>a, <1>d DEF Served, ShardsInv, shopNodes
<1>9. Calm'
  BY <1>a DEF Calm, ShardsInv, shopNodes, aside
<1>10. QED BY <1>1, <1>2, <1>3, <1>4, <1>5, <1>6, <1>7, <1>8, <1>9 DEF ShardsInv

\* Only empty nodes are deleted, and those that are left stay on the list.
LEMMA InvDeleteShard ==
  ASSUME ShardsTypeOK, ShardsInv, DeleteShard
  PROVE  ShardsTypeOK' /\ ShardsInv'
<1>a. /\ phase = "delete" /\ UNCHANGED <<stores, foreign, taken, plan, needed, used, merchant, calm>>
      /\ at \in Nat /\ at > Wanted /\ Wanted \in Nat /\ Len(pool) \in Nat /\ DOMAIN pool = 1 .. Len(pool)
      /\ pool \in Seq(NodeIds) /\ gone \cap DOMAIN nodes = {} /\ Wanted' = Wanted
  BY ShardsAssumption DEF DeleteShard, ShardsInv, Drained, Planned, ShardsTypeOK, Wanted
<1>b. /\ nodes' \in [DOMAIN nodes' -> Node] /\ IsFiniteSet(DOMAIN nodes')
      /\ DOMAIN nodes' \subseteq DOMAIN nodes /\ gone' \cap DOMAIN nodes' = {} /\ gone' \subseteq NodeIds
      /\ mishaps' \in 0 .. MaxMishaps
      /\ \A n \in DOMAIN nodes' : nodes'[n] = nodes[n]
      /\ \A n \in DOMAIN nodes \ DOMAIN nodes' : nodes[n].offers = {}
  <2>1. CASE UNCHANGED <<nodes, gone>>
    <3>1. mishaps' \in 0 .. MaxMishaps
      BY ShardsAssumption DEF DeleteShard, ShardsTypeOK
    <3>2. QED BY <1>a, <2>1, <3>1 DEF ShardsInv, Shape, ShardsTypeOK
  <2>2. CASE /\ at <= Len(pool) /\ nodes' = [n \in DOMAIN nodes \ {pool[at]} |-> nodes[n]]
             /\ gone' = gone \cup {pool[at]} /\ UNCHANGED mishaps
    <3>1. at \in DOMAIN pool /\ pool[at] \in NodeIds
      BY <1>a, <2>2
    <3>2. pool[at] \in DOMAIN nodes => nodes[pool[at]].offers = {}
      BY <1>a, <3>1 DEF ShardsInv, Drained
    <3>3. /\ nodes' \in [DOMAIN nodes' -> Node] /\ IsFiniteSet(DOMAIN nodes')
          /\ DOMAIN nodes' = DOMAIN nodes \ {pool[at]}
          /\ \A n \in DOMAIN nodes' : nodes'[n] = nodes[n]
      BY <2>2, LessNodes DEF ShardsInv
    <3>4. QED BY <1>a, <2>2, <3>1, <3>2, <3>3 DEF ShardsTypeOK
  <2>3. QED BY <2>1, <2>2 DEF DeleteShard
<1>c. \/ at <= Len(pool) /\ phase' = "delete" /\ pool' = pool /\ at' = at + 1
      \/ /\ phase' = "endlist" /\ at' = 1 /\ pool' = Kept(pool, NodeIds \ gone)
         /\ UNCHANGED <<nodes, gone, mishaps>>
  BY <1>a DEF DeleteShard
<1>d. /\ pool' \in Seq(NodeIds) /\ Len(pool') <= Len(pool) /\ Len(pool') \in Nat
      /\ \A j \in DOMAIN pool' : \E i \in DOMAIN pool : pool'[j] = pool[i]
      /\ \A j \in DOMAIN pool : pool[j] \in DOMAIN nodes' =>
           \E i \in DOMAIN pool' : i <= j /\ pool'[i] = pool[j]
  <2>1. CASE pool' = pool
    <3>1. \A j \in DOMAIN pool : j <= j
      BY <1>a
    <3>2. QED BY <1>a, <2>1, <3>1
  <2>2. CASE pool' = Kept(pool, NodeIds \ gone) /\ UNCHANGED nodes
    <3> DEFINE good == NodeIds \ gone
               q == Kept(pool, good)
    <3> HIDE DEF good
    <3>1. /\ q \in Seq(NodeIds) /\ Len(q) <= Len(pool) /\ Members(q) = Members(pool) \cap good
          /\ \A n \in DOMAIN pool : pool[n] \in good => \E j \in DOMAIN q : j <= n /\ q[j] = pool[n]
      BY <1>a, KeptIs
    <3>2. q = pool'
      BY <2>2 DEF good
    <3> HIDE DEF q
    <3>3. ASSUME NEW j \in DOMAIN q PROVE \E i \in DOMAIN pool : q[j] = pool[i]
      <4>1. q[j] \in Members(pool)
        BY <3>1 DEF Members
      <4>2. QED BY <4>1 DEF Members
    <3>4. \A j \in DOMAIN pool : pool[j] \in DOMAIN nodes => pool[j] \in good
      BY <1>a DEF good
    <3>5. Len(q) \in Nat
      BY <3>1
    <3>6. QED BY <2>2, <3>1, <3>2, <3>3, <3>4, <3>5
  <2>3. QED BY <1>c, <2>1, <2>2
<1>e. rows' = rows /\ own' = own /\ Shards' = Shards
  BY <1>a DEF stores, Shards
<1>1. ShardsTypeOK'
  <2>1. phase' \in {"delete", "endlist"} /\ at' \in Nat
    BY <1>a, <1>c
  <2>2. \A n \in DOMAIN nodes' : nodes'[n].title \in Nat /\ nodes'[n].offers \subseteq Nat
    BY <1>b DEF Node
  <2>3. QED BY <1>a, <1>b, <1>d, <2>1, <2>2 DEF ShardsTypeOK, stores, merchant
<1>2. Shape'
  BY <1>a, <1>b, <1>e DEF Shape, ShardsInv
<1>3. Titles'
  <2>1. phase' \notin {"find", "store"}
    BY <1>c
  <2>2. \A j \in DOMAIN pool' : pool'[j] \in DOMAIN nodes' => nodes'[pool'[j]].title > 0
    BY <1>b, <1>d DEF Titles, ShardsInv
  <2>3. QED BY <1>b, <1>e, <2>1, <2>2 DEF Titles, ShardsInv
<1>4. Planned'
  BY <1>a, <1>c DEF Planned, ShardsInv, Numbered
<1>5. Listed'
  <2>1. Len(pool') <= MaxSlots - 1
    BY <1>a, <1>d, ShardsAssumption DEF ShardsInv, Listed
  <2>2. CASE phase' = "delete" /\ pool' = pool
    BY <1>a, <1>e, <2>1, <2>2 DEF Listed, ShardsInv
  <2>3. CASE phase' = "endlist" /\ at' = 1
    BY <1>a, <1>d, <2>1, <2>3 DEF Listed
  <2>4. QED BY <1>c, <2>2, <2>3
<1>6. Covered'
  <2>1. ASSUME NEW s \in Shards, rows[s].node \in DOMAIN nodes'
        PROVE  \E j \in DOMAIN pool' : j <= s /\ pool'[j] = rows[s].node
    <3>1. PICK i \in DOMAIN pool : i <= s /\ pool[i] = rows[s].node
      BY <1>a, <1>b, <2>1 DEF ShardsInv, Covered
    <3>2. PICK j \in DOMAIN pool' : j <= i /\ pool'[j] = pool[i]
      BY <1>d, <2>1, <3>1
    <3>3. s \in Nat /\ i \in Nat /\ j \in Nat
      <4>1. DOMAIN rows \subseteq Nat
        BY ShardsAssumption DEF ShardsTypeOK
      <4>2. DOMAIN pool' = 1 .. Len(pool')
        BY <1>d
      <4>3. QED BY <1>a, <4>1, <4>2 DEF Shards
    <3>4. QED BY <3>1, <3>2, <3>3
  <2>2. QED BY <1>e, <2>1 DEF Covered
<1>7. Drained'
  <2>1. CASE phase' = "delete" /\ pool' = pool /\ at' = at + 1
    <3>1. at' > Wanted
      BY <1>a, <2>1
    <3>2. \A j \in DOMAIN pool : j > Wanted /\ pool[j] \in DOMAIN nodes' => nodes'[pool[j]].offers = {}
      BY <1>a, <1>b DEF ShardsInv, Drained
    <3>3. QED BY <1>a, <1>b, <2>1, <3>1, <3>2 DEF Drained
  <2>2. CASE phase' = "endlist"
    BY <2>2 DEF Drained
  <2>3. QED BY <1>c, <2>1, <2>2
<1>8. Served'
  BY <1>b, <1>e DEF Served, ShardsInv
<1>9. Calm'
  <2>1. UNION {nodes'[n].offers : n \in DOMAIN nodes'} = UNION {nodes[n].offers : n \in DOMAIN nodes}
    BY <1>b
  <2>2. phase' \in {"delete", "endlist"} /\ calm' = calm /\ taken' = taken
    BY <1>a, <1>c
  <2>3. calm => UNION {nodes[n].offers : n \in DOMAIN nodes} = Ids(taken)
    BY <1>a DEF Calm, ShardsInv
  <2>4. calm' => UNION {nodes'[n].offers : n \in DOMAIN nodes'} = Ids(taken')
    BY <2>1, <2>2, <2>3
  <2>5. QED BY <2>2, <2>4 DEF Calm
<1>10. QED BY <1>1, <1>2, <1>3, <1>4, <1>5, <1>6, <1>7, <1>8, <1>9 DEF ShardsInv

-----------------------------------------------------------------------------
(* The theorems.                                                           *)

\* Init.
LEMMA ShardsStart ==
  ASSUME ShardsInit
  PROVE  ShardsTypeOK /\ ShardsInv
<1>1. /\ active \in Catalogs /\ enabled \in BOOLEAN /\ foreign \in 0 .. MaxForeign
      /\ own = 0 /\ nodes = [n \in {0} |-> [title |-> 0, offers |-> {}]]
      /\ rows = <<>> /\ others = Missing
      /\ phase = "idle" /\ calm = TRUE
      /\ taken = {} /\ plan = <<>> /\ pool = <<>> /\ needed = 0 /\ used = {} /\ at = 0 /\ gone = {}
      /\ mishaps = 0 /\ meddles = 0
  BY DEF ShardsInit
<1>2. /\ DOMAIN nodes = {0} /\ nodes[0] = [title |-> 0, offers |-> {}]
      /\ DOMAIN rows = {} /\ DOMAIN plan = {} /\ DOMAIN pool = {} /\ Len(pool) = 0
  BY <1>1
<1>3. 0 \in NodeIds /\ MaxSlots \in Nat /\ MaxSlots > 0 /\ MaxMishaps \in Nat /\ MaxMeddles \in Nat
  BY ShardsAssumption
<1>4. ShardsTypeOK
  <2>1. pool \in Seq(NodeIds)
    BY <1>1
  <2>2. needed \in 0 .. MaxSlots - 1 /\ mishaps \in 0 .. MaxMishaps /\ meddles \in 0 .. MaxMeddles /\ at \in Nat
    BY <1>1, <1>3
  <2>3. \A n \in DOMAIN nodes : nodes[n].title \in Nat /\ nodes[n].offers \subseteq Nat
    BY <1>2
  <2>4. QED BY <1>1, <1>2, <1>3, <2>1, <2>2, <2>3 DEF ShardsTypeOK
<1>5. Shape
  <2>1. IsFiniteSet(DOMAIN nodes) /\ IsFiniteSet(used)
    BY <1>1, <1>2, FS_Singleton, FS_EmptySet
  <2>2. Shards = 1 .. 0 /\ 0 \in 0 .. MaxSlots - 1
    BY <1>2, <1>3 DEF Shards
  <2>3. nodes \in [DOMAIN nodes -> Node]
    BY <1>1, <1>2 DEF Node
  <2>4. rows \in [DOMAIN rows -> Row]
    BY <1>1, <1>2
  <2>5. QED BY <2>1, <2>2, <2>3, <2>4 DEF Shape
<1>6. Shards = {}
  BY <1>2 DEF Shards
<1>7. Titles
  BY <1>1, <1>2, <1>6 DEF Titles
<1>8. Planned
  BY <1>1, <1>3 DEF Planned
<1>9. Listed
  BY <1>1, <1>2, <1>3 DEF Listed
<1>10. Covered /\ Drained
  BY <1>1 DEF Covered, Drained
<1>11. Served
  BY <1>2 DEF Served
<1>12. Calm
  BY <1>1, <1>6 DEF Calm, Unrepeated
<1>13. QED BY <1>4, <1>5, <1>7, <1>8, <1>9, <1>10, <1>11, <1>12 DEF ShardsInv

\* A step that leaves the variables alone.
LEMMA ShardsStutter ==
  ASSUME ShardsTypeOK, ShardsInv, UNCHANGED shardVars
  PROVE  ShardsTypeOK' /\ ShardsInv'
<1>1. /\ UNCHANGED <<own, rows, others>> /\ UNCHANGED <<nodes, foreign>>
      /\ UNCHANGED <<taken, plan, pool, needed, used, at, gone>>
      /\ UNCHANGED <<active, enabled, meddles>> /\ UNCHANGED <<phase, mishaps, calm>>
  BY DEF shardVars, stores, shopNodes, locals, aside, merchant
<1>2. ShardsTypeOK'
  BY <1>1 DEF ShardsTypeOK
<1>3. Shape' /\ Titles'
  BY <1>1 DEF ShardsInv, Shape, Titles, Shards
<1>4. Planned'
  BY <1>1 DEF ShardsInv, Planned, Numbered, Wanted
<1>5. Listed'
  BY <1>1 DEF ShardsInv, Listed, LiveSlots, Shards, Wanted
<1>6. Covered' /\ Drained'
  BY <1>1 DEF ShardsInv, Covered, Drained, Shards, Wanted
<1>7. Served' /\ Calm'
  BY <1>1 DEF ShardsInv, Served, Calm, Unrepeated, Shards
<1>8. QED BY <1>2, <1>3, <1>4, <1>5, <1>6, <1>7 DEF ShardsInv

\* Nothing is deleted before the deletes.
LEMMA SparedCorrect == ShardsSpec => []Spared
<1>1. ShardsInit => Spared
  BY DEF ShardsInit, Spared
<1>2. ASSUME Spared, [ShardsNext]_shardVars PROVE Spared'
  <2>1. CASE UNCHANGED shardVars
    BY <1>2, <2>1 DEF Spared, shardVars, locals
  <2>2. CASE Idle
    BY <2>2 DEF Spared, Idle
  <2>3. CASE Begin
    BY <1>2, <2>3 DEF Spared, Begin, locals
  <2>4. CASE MakeOwn
    BY <1>2, <2>4 DEF Spared, MakeOwn
  <2>5. CASE StoreOwn
    BY <1>2, <2>5 DEF Spared, StoreOwn
  <2>6. CASE ReadUnits
    BY <1>2, <2>6 DEF Spared, ReadUnits
  <2>7. CASE ReadBudget
    BY <1>2, <2>7 DEF Spared, ReadBudget
  <2>8. CASE PlanSlots
    <3>1. Idle \/ (phase = "plan" /\ UNCHANGED gone)
      BY <2>8 DEF PlanSlots
    <3>2. QED BY <1>2, <2>2, <3>1 DEF Spared
  <2>9. CASE CountShards
    BY <1>2, <2>9 DEF Spared, CountShards
  <2>10. CASE EnsureShards
    BY <1>2, <2>10 DEF Spared, EnsureShards
  <2>11. CASE MakeShard
    BY <1>2, <2>11 DEF Spared, MakeShard
  <2>12. CASE WriteList
    BY <1>2, <2>12 DEF Spared, WriteList
  <2>13. CASE PushSlots
    BY <1>2, <2>13 DEF Spared, PushSlots
  <2>14. CASE SaveSlot
    BY <1>2, <2>14 DEF Spared, SaveSlot
  <2>15. CASE DeleteShard
    BY <1>2, <2>15 DEF Spared, DeleteShard
  <2>16. CASE Done \/ Abort
    BY <2>2, <2>16 DEF Done, Abort
  <2>17. CASE EditOffers
    BY <1>2, <2>17 DEF Spared, EditOffers, locals
  <2>18. CASE SetFlag
    BY <1>2, <2>18 DEF Spared, SetFlag, locals
  <2>19. CASE DeleteNode
    BY <1>2, <2>19 DEF Spared, DeleteNode, locals
  <2>20. CASE OtherDiscounts
    BY <1>2, <2>20 DEF Spared, OtherDiscounts, locals
  <2>21. QED
    BY <1>2, <2>1, <2>3, <2>4, <2>5, <2>6, <2>7, <2>8, <2>9, <2>10, <2>11, <2>12, <2>13, <2>14,
       <2>15, <2>16, <2>17, <2>18, <2>19, <2>20 DEF ShardsNext, PublishStep
<1>3. QED BY <1>1, <1>2, PTL DEF ShardsSpec

\* Every step keeps the invariant.
LEMMA ShardsStep ==
  ASSUME ShardsTypeOK, ShardsInv, Spared, [ShardsNext]_shardVars
  PROVE  ShardsTypeOK' /\ ShardsInv'
<1>1. CASE UNCHANGED shardVars
  BY <1>1, ShardsStutter
<1>2. CASE Begin
  BY <1>2, InvBegin
<1>3. CASE MakeOwn
  BY <1>3, InvMakeOwn
<1>4. CASE StoreOwn
  BY <1>4, InvStoreOwn
<1>5. CASE ReadUnits
  BY <1>5, InvReadUnits
<1>6. CASE ReadBudget
  BY <1>6, InvReadBudget
<1>7. CASE PlanSlots
  BY <1>7, InvPlanSlots
<1>8. CASE CountShards
  BY <1>8, InvCountShards
<1>9. CASE EnsureShards
  BY <1>9, InvEnsureShards
<1>10. CASE MakeShard
  BY <1>10, InvMakeShard
<1>11. CASE WriteList
  BY <1>11, InvWriteList
<1>12. CASE PushSlots
  BY <1>12, InvPushSlots
<1>13. CASE SaveSlot
  BY <1>13, InvSaveSlot
<1>14. CASE DeleteShard
  BY <1>14, InvDeleteShard
<1>15. CASE Done
  BY <1>15, InvDone
<1>16. CASE Abort
  BY <1>16, InvAbort
<1>17. CASE EditOffers
  BY <1>17, InvEditOffers
<1>18. CASE SetFlag
  BY <1>18, InvSetFlag
<1>19. CASE DeleteNode
  BY <1>19, InvDeleteNode
<1>20. CASE OtherDiscounts
  BY <1>20, InvOtherDiscounts
<1>21. QED
  BY <1>1, <1>2, <1>3, <1>4, <1>5, <1>6, <1>7, <1>8, <1>9, <1>10, <1>11, <1>12, <1>13, <1>14,
     <1>15, <1>16, <1>17, <1>18, <1>19, <1>20 DEF ShardsNext, PublishStep

\* The types of the state, for every shop and every catalog.
THEOREM ShardsTypeCorrect == ShardsSpec => []ShardsTypeOK
<1>1. ShardsInit => ShardsTypeOK /\ ShardsInv
  BY ShardsStart
<1>2. Spared /\ ShardsTypeOK /\ ShardsInv /\ [ShardsNext]_shardVars => ShardsTypeOK' /\ ShardsInv'
  BY ShardsStep
<1>3. QED BY <1>1, <1>2, SparedCorrect, PTL DEF ShardsSpec

\* The inductive invariant: the rows are a list without gaps, slot 0's node is
\* told from the shards by its title, the plan covers the units, the list that is
\* being made holds every recorded node that is left, and whatever serves an
\* offer is recorded and alone.
THEOREM ShardsInvariant == ShardsSpec => []ShardsInv
<1>1. ShardsInit => ShardsTypeOK /\ ShardsInv
  BY ShardsStart
<1>2. Spared /\ ShardsTypeOK /\ ShardsInv /\ [ShardsNext]_shardVars => ShardsTypeOK' /\ ShardsInv'
  BY ShardsStep
<1>3. QED BY <1>1, <1>2, SparedCorrect, PTL DEF ShardsSpec

\* However many publishes fail or die and wherever, whatever nodes the merchant
\* deletes in between: no offer is ever in two nodes, every node that serves one is
\* recorded, and an undisturbed publish leaves exactly the offers it read
\* (publishOffersForShopLocked, pushMetafields, saveShardState).
THEOREM OfferOnOneNodeCorrect == ShardsSpec => []OfferOnOneNode
<1>1. ASSUME ShardsTypeOK, ShardsInv PROVE OfferOnOneNode
  <2>1. \A n, m \in DOMAIN nodes : n # m => nodes[n].offers \cap nodes[m].offers = {}
    BY <1>1 DEF ShardsInv, Served
  <2>2. ASSUME NEW u \in UNION {nodes[n].offers : n \in DOMAIN nodes} PROVE Cardinality(Serving(u)) = 1
    <3>1. PICK n \in DOMAIN nodes : u \in nodes[n].offers
      OBVIOUS
    <3>2. Serving(u) = {n}
      BY <2>1, <3>1 DEF Serving
    <3>3. QED BY <3>2, FS_Singleton
  <2>3. ASSUME NEW n \in DOMAIN nodes, nodes[n].offers # {}
        PROVE  n \in {own} \cup Members(Recorded) \cup Members(pool)
    <3>1. n = own \/ \E s \in Shards : rows[s].node = n
      BY <1>1, <2>3 DEF ShardsInv, Served
    <3>2. DOMAIN Recorded = Shards /\ \A s \in Shards : Recorded[s] = rows[s].node
      BY <1>1, RecordedIs DEF ShardsInv
    <3>3. (\E s \in Shards : rows[s].node = n) => n \in Members(Recorded)
      BY <3>2 DEF Members
    <3>4. QED BY <3>1, <3>3
  <2>4. phase = "done" /\ calm => UNION {nodes[n].offers : n \in DOMAIN nodes} = Ids(taken)
    BY <1>1 DEF ShardsInv, Calm
  <2>5. QED BY <2>2, <2>3, <2>4 DEF OfferOnOneNode
<1>2. QED BY <1>1, ShardsTypeCorrect, ShardsInvariant, PTL
=============================================================================
