---------------------------- MODULE Ledger_proofs ----------------------------
(***************************************************************************)
(* Proofs about CounterOps, whose transactions write the tables, and about *)
(* History, whose pages and reconciliation read them, for any number of    *)
(* request slots, tenants, counters, keys, requests and rows, any int64    *)
(* width, any page and batch size and any clock.                           *)
(***************************************************************************)
EXTENDS CounterOps, History, TLAPS, FiniteSetTheorems

-----------------------------------------------------------------------------
(* Induction over the natural numbers, by a smallest counterexample.       *)

LEMMA LeastNatural ==
  ASSUME NEW T \in SUBSET Nat, T # {}
  PROVE  \E m \in T : \A n \in T : m <= n
<1>1. PICK m \in T : \A n \in T : <<n, m>> \notin OpToRel(<, Nat)
  BY WFMin, NatLessThanWellFounded, Zenon
<1>2. \A n \in T : ~ (n < m)
  BY <1>1, Zenon DEF OpToRel
<1> QED BY <1>2

-----------------------------------------------------------------------------
(* A strict total order on a finite set, and the place of each element.    *)

StrictTotal(R, S) ==
    /\ \A a \in S : <<a, a>> \notin R
    /\ \A a, b, c \in S : <<a, b>> \in R /\ <<b, c>> \in R => <<a, c>> \in R
    /\ \A a, b \in S : a = b \/ <<a, b>> \in R \/ <<b, a>> \in R

Below(R, S, e) == {f \in S : <<f, e>> \in R}
Place(R, S, e) == Cardinality(Below(R, S, e))

\* Later elements have more before them.
LEMMA PlaceGrows ==
  ASSUME NEW S, IsFiniteSet(S), NEW R, StrictTotal(R, S),
         NEW d \in S, NEW e \in S, <<d, e>> \in R
  PROVE  Place(R, S, d) < Place(R, S, e)
<1>1. IsFiniteSet(Below(R, S, e))
  BY FS_Subset DEF Below
<1>2. Below(R, S, d) \in SUBSET Below(R, S, e) /\ Below(R, S, d) # Below(R, S, e)
  BY DEF StrictTotal, Below
<1>3. /\ IsFiniteSet(Below(R, S, d))
      /\ Cardinality(Below(R, S, d)) <= Cardinality(Below(R, S, e))
      /\ Cardinality(Below(R, S, e)) # Cardinality(Below(R, S, d))
  BY <1>1, <1>2, FS_Subset
<1>4. Cardinality(Below(R, S, d)) \in Nat /\ Cardinality(Below(R, S, e)) \in Nat
  BY <1>1, <1>3, FS_CardinalityType
<1> QED BY <1>3, <1>4 DEF Place

\* A place is a number below that of the elements ...
LEMMA PlaceType ==
  ASSUME NEW S, IsFiniteSet(S), NEW R, StrictTotal(R, S), NEW e \in S
  PROVE  Place(R, S, e) \in 0 .. Cardinality(S) - 1
<1>1. Below(R, S, e) \in SUBSET S /\ Below(R, S, e) # S
  BY DEF StrictTotal, Below
<1>2. /\ IsFiniteSet(Below(R, S, e))
      /\ Cardinality(Below(R, S, e)) <= Cardinality(S)
      /\ Cardinality(S) # Cardinality(Below(R, S, e))
  BY <1>1, FS_Subset
<1>3. Cardinality(Below(R, S, e)) \in Nat /\ Cardinality(S) \in Nat
  BY <1>2, FS_CardinalityType
<1> QED BY <1>2, <1>3 DEF Place

\* ... and every such number is a place.
LEMMA PlaceTaken ==
  ASSUME NEW S, IsFiniteSet(S), NEW R, StrictTotal(R, S),
         NEW i \in 0 .. Cardinality(S) - 1
  PROVE  \E e \in S : Place(R, S, e) = i
<1> DEFINE n == Cardinality(S)
           f == [e \in S |-> Place(R, S, e)]
<1>1. n \in Nat
  BY FS_CardinalityType
<1>2. IsFiniteSet(0 .. n - 1) /\ Cardinality(0 .. n - 1) = n
  <2>1. 0 \in Int /\ n - 1 \in Int
    BY <1>1
  <2>2. /\ IsFiniteSet(0 .. n - 1)
        /\ Cardinality(0 .. n - 1) = IF 0 > n - 1 THEN 0 ELSE (n - 1) - 0 + 1
    BY <2>1, FS_Interval
  <2> QED BY <1>1, <2>2
<1>3. f \in [S -> 0 .. n - 1]
  BY PlaceType
<1>4. \A d, e \in S : f[d] = f[e] => d = e
  <2> SUFFICES ASSUME NEW d \in S, NEW e \in S, d # e
               PROVE  Place(R, S, d) # Place(R, S, e)
    OBVIOUS
  <2>1. <<d, e>> \in R \/ <<e, d>> \in R
    BY DEF StrictTotal
  <2>2. Place(R, S, d) \in Int /\ Place(R, S, e) \in Int
    BY <1>1, PlaceType
  <2> QED BY <2>1, <2>2, PlaceGrows
<1>5. f \in Injection(S, 0 .. n - 1)
  BY <1>3, <1>4 DEF Injection, IsInjective
<1>6. f \in Surjection(S, 0 .. n - 1)
  BY <1>2, <1>5, FS_Injection
<1> QED BY <1>6 DEF Surjection

\* A sequence that lists S once, in the order R.
Lists(s, S, R) ==
    /\ s \in Seq(S)
    /\ \A i, j \in 1 .. Len(s) : i < j => <<s[i], s[j]>> \in R
    /\ \A e \in S : \E i \in 1 .. Len(s) : s[i] = e

\* The elements in the order of their places.
LEMMA SortedExists ==
  ASSUME NEW S, IsFiniteSet(S), NEW R, StrictTotal(R, S)
  PROVE  \E s \in [1 .. Cardinality(S) -> S] :
            \A i, j \in 1 .. Cardinality(S) : i < j => <<s[i], s[j]>> \in R
<1> DEFINE n == Cardinality(S)
           s == [i \in 1 .. n |-> CHOOSE e \in S : Place(R, S, e) = i - 1]
<1>1. n \in Nat
  BY FS_CardinalityType
<1>2. \A i \in 1 .. n : s[i] \in S /\ Place(R, S, s[i]) = i - 1
  <2> SUFFICES ASSUME NEW i \in 1 .. n
               PROVE  s[i] \in S /\ Place(R, S, s[i]) = i - 1
    OBVIOUS
  <2>1. i - 1 \in 0 .. n - 1
    BY <1>1
  <2>2. \E e \in S : Place(R, S, e) = i - 1
    BY <2>1, PlaceTaken
  <2> QED BY <2>2
<1>3. \A i, j \in 1 .. n : i < j => <<s[i], s[j]>> \in R
  <2> SUFFICES ASSUME NEW i \in 1 .. n, NEW j \in 1 .. n, i < j
               PROVE  <<s[i], s[j]>> \in R
    OBVIOUS
  <2> HIDE DEF s
  <2>1. s[i] \in S /\ s[j] \in S /\ Place(R, S, s[i]) < Place(R, S, s[j])
    BY <1>1, <1>2
  <2>2. s[i] # s[j]
    BY <1>1, <1>2, <2>1
  <2>3. ~ (<<s[j], s[i]>> \in R)
    <3> SUFFICES ASSUME <<s[j], s[i]>> \in R PROVE FALSE
      OBVIOUS
    <3>1. Place(R, S, s[j]) < Place(R, S, s[i])
      BY <2>1, PlaceGrows
    <3> QED BY <1>1, <1>2, <2>1, <3>1
  <2> QED BY <2>1, <2>2, <2>3 DEF StrictTotal
<1>4. s \in [1 .. n -> S]
  BY <1>2
<1> QED BY <1>3, <1>4

\* Any enumeration of S in the order R lists it.
LEMMA SortedLists ==
  ASSUME NEW S, IsFiniteSet(S), NEW R,
         NEW s \in [1 .. Cardinality(S) -> S],
         \A i, j \in 1 .. Cardinality(S) : i # j => s[i] # s[j],
         \A i, j \in 1 .. Cardinality(S) : i < j => <<s[i], s[j]>> \in R
  PROVE  Lists(s, S, R) /\ Len(s) = Cardinality(S)
<1> DEFINE n == Cardinality(S)
<1>1. n \in Nat
  BY FS_CardinalityType
<1>2. s \in Seq(S) /\ Len(s) = n
  BY <1>1
<1>3. s \in Injection(1 .. n, S)
  BY DEF Injection, IsInjective
<1>4. Cardinality(1 .. n) = n
  <2>1. Cardinality(1 .. n) = IF 1 > n THEN 0 ELSE n - 1 + 1
    BY <1>1, FS_Interval
  <2> QED BY <1>1, <2>1
<1>5. s \in Surjection(1 .. n, S)
  BY <1>3, <1>4, FS_Injection
<1>6. \A e \in S : \E i \in 1 .. n : s[i] = e
  BY <1>5 DEF Surjection
<1> QED BY <1>2, <1>6 DEF Lists

-----------------------------------------------------------------------------
(* Sums of deltas.  MapThenSumSet is a fold that removes chosen elements   *)
(* one by one; that it is a sum, whatever the choices, takes induction on  *)
(* the size of the set.                                                    *)

Pick(s) == CHOOSE x \in s : TRUE

\* g is the fold over the subsets of S, of the deltas of the rows f.
Folds(g, f, S) ==
    g = [s \in SUBSET S |-> IF s = {} THEN 0 ELSE f[Pick(s)].delta + g[s \ {Pick(s)}]]

Integral(f, S) == \A k \in S : f[k].delta \in Int

DeltaSum(f, S) == MapThenSumSet(LAMBDA k : f[k].delta, S)

\* Removing the picked element makes a finite set smaller by one.
LEMMA PickSmaller ==
  ASSUME NEW S, IsFiniteSet(S), NEW s \in SUBSET S, s # {}, NEW x \in s
  PROVE  /\ Pick(s) \in s
         /\ s \ {x} \in SUBSET S
         /\ Cardinality(s) \in Nat \ {0}
         /\ Cardinality(s \ {x}) = Cardinality(s) - 1
<1>1. IsFiniteSet(s)
  BY FS_Subset
<1>2. Cardinality(s) \in Nat /\ Cardinality(s) # 0
  BY <1>1, FS_CardinalityType, FS_EmptySet
<1>3. Cardinality(s \ {x}) = IF x \in s THEN Cardinality(s) - 1 ELSE Cardinality(s)
  BY <1>1, FS_RemoveElement
<1>4. Pick(s) \in s
  BY DEF Pick
<1> QED BY <1>2, <1>3, <1>4

\* g obeys the equation of the fold on the subsets with at most n elements.
FoldsUpTo(g, f, S, n) ==
    \A s \in SUBSET S : Cardinality(s) <= n =>
        g[s] = IF s = {} THEN 0 ELSE f[Pick(s)].delta + g[s \ {Pick(s)}]

\* A fold over the small subsets extends to subsets one larger.
LEMMA FoldExtends ==
  ASSUME NEW f, NEW S, IsFiniteSet(S), NEW n \in Nat, NEW g, FoldsUpTo(g, f, S, n)
  PROVE  \E h : FoldsUpTo(h, f, S, n + 1)
<1> DEFINE h == [s \in SUBSET S |->
                    IF Cardinality(s) <= n THEN g[s] ELSE f[Pick(s)].delta + g[s \ {Pick(s)}]]
<1>1. FoldsUpTo(h, f, S, n + 1)
  <2> SUFFICES ASSUME NEW s \in SUBSET S, Cardinality(s) <= n + 1
               PROVE  h[s] = IF s = {} THEN 0 ELSE f[Pick(s)].delta + h[s \ {Pick(s)}]
    BY DEF FoldsUpTo
  <2>1. CASE s = {}
    <3>1. Cardinality(s) = 0
      BY <2>1, FS_EmptySet
    <3>2. h[s] = g[s]
      BY <3>1
    <3>3. g[s] = 0
      BY <2>1, <3>1 DEF FoldsUpTo
    <3> QED BY <2>1, <3>2, <3>3
  <2>2. CASE s # {}
    <3>1. /\ Pick(s) \in s
          /\ s \ {Pick(s)} \in SUBSET S
          /\ Cardinality(s) \in Nat \ {0}
          /\ Cardinality(s \ {Pick(s)}) = Cardinality(s) - 1
      <4>1. Pick(s) \in s
        BY <2>2 DEF Pick
      <4> QED BY <2>2, <4>1, PickSmaller
    <3>2. Cardinality(s \ {Pick(s)}) <= n
      BY <3>1
    <3>3. h[s \ {Pick(s)}] = g[s \ {Pick(s)}]
      BY <3>1, <3>2
    <3>4. h[s] = f[Pick(s)].delta + g[s \ {Pick(s)}]
      BY <2>2 DEF FoldsUpTo
    <3> QED BY <2>2, <3>3, <3>4
  <2> QED BY <2>1, <2>2
<1> QED BY <1>1

\* Hence the fold exists.
LEMMA FoldExists ==
  ASSUME NEW f, NEW S, IsFiniteSet(S)
  PROVE  \E g : Folds(g, f, S)
<1> DEFINE T == {n \in Nat : ~ \E g : FoldsUpTo(g, f, S, n)}
<1>1. T = {}
  <2> SUFFICES ASSUME T # {} PROVE FALSE
    OBVIOUS
  <2>1. PICK m \in T : \A n \in T : m <= n
    <3>1. T \in SUBSET Nat
      OBVIOUS
    <3> HIDE DEF T
    <3> QED BY <3>1, LeastNatural
  <2>2. m # 0
    <3> DEFINE z == [s \in SUBSET S |-> 0]
    <3>1. FoldsUpTo(z, f, S, 0)
      <4> SUFFICES ASSUME NEW s \in SUBSET S, Cardinality(s) <= 0
                   PROVE  s = {}
        BY DEF FoldsUpTo
      <4>1. IsFiniteSet(s)
        BY FS_Subset
      <4> QED BY <4>1, FS_CardinalityType, FS_EmptySet
    <3> QED BY <3>1
  <2>3. m - 1 \in Nat /\ m - 1 \notin T
    BY <2>1, <2>2
  <2>4. PICK g : FoldsUpTo(g, f, S, m - 1)
    BY <2>3
  <2>5. \E h : FoldsUpTo(h, f, S, (m - 1) + 1)
    BY <2>3, <2>4, FoldExtends
  <2>6. (m - 1) + 1 = m
    BY <2>1
  <2> QED BY <2>1, <2>5, <2>6
<1>2. Cardinality(S) \in Nat
  BY FS_CardinalityType
<1>3. PICK g : FoldsUpTo(g, f, S, Cardinality(S))
  BY <1>1, <1>2
<1>4. \A s \in SUBSET S : Cardinality(s) <= Cardinality(S)
  BY FS_Subset
<1> DEFINE h == [s \in SUBSET S |-> g[s]]
<1>5. \A s \in SUBSET S : h[s] = IF s = {} THEN 0 ELSE f[Pick(s)].delta + h[s \ {Pick(s)}]
  BY <1>3, <1>4 DEF FoldsUpTo
<1>6. Folds(h, f, S)
  <2>1. h = [s \in SUBSET S |-> h[s]]
    OBVIOUS
  <2> HIDE DEF h
  <2> QED BY <1>5, <2>1 DEF Folds
<1> QED BY <1>6

\* MapThenSumSet takes one of them.
LEMMA SumFolds ==
  ASSUME NEW f, NEW S, IsFiniteSet(S)
  PROVE  \E g : Folds(g, f, S) /\ DeltaSum(f, S) = g[S]
<1> DEFINE it == CHOOSE g : Folds(g, f, S)
<1>1. Folds(it, f, S)
  BY FoldExists
<1>2. DeltaSum(f, S) = it[S]
  BY DEF DeltaSum, MapThenSumSet, MapThenFoldSet, Folds, Pick
<1> QED BY <1>1, <1>2

\* What a fold is, as facts about single sets.
LEMMA FoldStep ==
  ASSUME NEW f, NEW S, NEW g, Folds(g, f, S), NEW s \in SUBSET S
  PROVE  /\ s = {} => g[s] = 0
         /\ s # {} => g[s] = f[Pick(s)].delta + g[s \ {Pick(s)}]
<1>1. g[s] = [r \in SUBSET S |-> IF r = {} THEN 0 ELSE f[Pick(r)].delta + g[r \ {Pick(r)}]][s]
  BY DEF Folds
<1> QED BY <1>1

\* A set of finite sets that is not empty has a smallest member.
LEMMA SmallestSet ==
  ASSUME NEW S, IsFiniteSet(S), NEW B \in SUBSET (SUBSET S), B # {}
  PROVE  \E s \in B : \A r \in SUBSET S : Cardinality(r) < Cardinality(s) => r \notin B
<1> DEFINE T == {Cardinality(s) : s \in B}
<1>1. \A s \in SUBSET S : Cardinality(s) \in Nat
  <2> SUFFICES ASSUME NEW s \in SUBSET S PROVE Cardinality(s) \in Nat
    OBVIOUS
  <2>1. IsFiniteSet(s)
    BY FS_Subset
  <2> QED BY <2>1, FS_CardinalityType
<1>2. T \in SUBSET Nat /\ T # {}
  BY <1>1
<1>3. PICK m \in T : \A n \in T : m <= n
  <2> HIDE DEF T
  <2> QED BY <1>2, LeastNatural
<1>4. PICK s \in B : Cardinality(s) = m
  BY <1>3
<1>5. \A r \in B : Cardinality(s) <= Cardinality(r)
  BY <1>3, <1>4
<1>6. \A r \in SUBSET S : Cardinality(r) < Cardinality(s) => r \notin B
  BY <1>1, <1>4, <1>5
<1> QED BY <1>4, <1>6

\* Folds are integers.
LEMMA FoldType ==
  ASSUME NEW f, NEW S, IsFiniteSet(S), Integral(f, S), NEW g, Folds(g, f, S),
         NEW s \in SUBSET S
  PROVE  g[s] \in Int
<1> DEFINE B == {r \in SUBSET S : g[r] \notin Int}
<1> SUFFICES ASSUME B # {} PROVE FALSE
  OBVIOUS
<1>1. PICK b \in B : \A r \in SUBSET S : Cardinality(r) < Cardinality(b) => r \notin B
  <2>1. B \in SUBSET (SUBSET S)
    OBVIOUS
  <2> HIDE DEF B
  <2> QED BY <2>1, SmallestSet
<1>0. /\ b = {} => g[b] = 0
      /\ b # {} => g[b] = f[Pick(b)].delta + g[b \ {Pick(b)}]
  <2>1. b \in SUBSET S
    OBVIOUS
  <2> HIDE DEF B
  <2> QED BY <2>1, FoldStep
<1>2. b # {}
  BY <1>0
<1>3. Pick(b) \in b
  BY <1>2 DEF Pick
<1>4. b \ {Pick(b)} \in SUBSET S /\ Cardinality(b \ {Pick(b)}) < Cardinality(b)
  BY <1>2, <1>3, PickSmaller
<1>5. g[b \ {Pick(b)}] \in Int
  BY <1>1, <1>4
<1>6. f[Pick(b)].delta \in Int
  BY <1>3 DEF Integral
<1>7. g[b] = f[Pick(b)].delta + g[b \ {Pick(b)}]
  BY <1>0, <1>2
<1> QED BY <1>5, <1>6, <1>7

\* Folds over different sets of rows agree where the rows do.
LEMMA FoldAgrees ==
  ASSUME NEW S, IsFiniteSet(S),
         NEW f, NEW U, S \subseteq U, NEW g, Folds(g, f, U),
         NEW e, NEW V, S \subseteq V, NEW h, Folds(h, e, V),
         \A k \in S : f[k].delta = e[k].delta
  PROVE  g[S] = h[S]
<1> DEFINE B == {r \in SUBSET S : g[r] # h[r]}
<1> SUFFICES ASSUME B # {} PROVE FALSE
  OBVIOUS
<1>1. PICK b \in B : \A r \in SUBSET S : Cardinality(r) < Cardinality(b) => r \notin B
  <2>1. B \in SUBSET (SUBSET S)
    OBVIOUS
  <2> HIDE DEF B
  <2> QED BY <2>1, SmallestSet
<1>2. b \in SUBSET U /\ b \in SUBSET V
  OBVIOUS
<1>0. /\ b = {} => g[b] = 0 /\ h[b] = 0
      /\ b # {} => g[b] = f[Pick(b)].delta + g[b \ {Pick(b)}]
      /\ b # {} => h[b] = e[Pick(b)].delta + h[b \ {Pick(b)}]
  <2> HIDE DEF B
  <2>1. /\ b = {} => g[b] = 0
        /\ b # {} => g[b] = f[Pick(b)].delta + g[b \ {Pick(b)}]
    BY <1>2, FoldStep
  <2>2. /\ b = {} => h[b] = 0
        /\ b # {} => h[b] = e[Pick(b)].delta + h[b \ {Pick(b)}]
    BY <1>2, FoldStep
  <2> QED BY <2>1, <2>2
<1>3. b # {}
  BY <1>0
<1>4. Pick(b) \in b
  BY <1>3 DEF Pick
<1>5. b \ {Pick(b)} \in SUBSET S /\ Cardinality(b \ {Pick(b)}) < Cardinality(b)
  BY <1>3, <1>4, PickSmaller
<1>6. g[b \ {Pick(b)}] = h[b \ {Pick(b)}]
  BY <1>1, <1>5
<1>7. f[Pick(b)].delta = e[Pick(b)].delta
  BY <1>4
<1>8. g[b] = f[Pick(b)].delta + g[b \ {Pick(b)}]
  BY <1>0, <1>3
<1>9. h[b] = e[Pick(b)].delta + h[b \ {Pick(b)}]
  BY <1>0, <1>3
<1> QED BY <1>6, <1>7, <1>8, <1>9

\* Any element may be taken out first.
LEMMA FoldRemoves ==
  ASSUME NEW f, NEW S, IsFiniteSet(S), Integral(f, S), NEW g, Folds(g, f, S),
         NEW x \in S
  PROVE  g[S] = f[x].delta + g[S \ {x}]
<1> DEFINE B == {r \in SUBSET S : \E y \in r : g[r] # f[y].delta + g[r \ {y}]}
<1> SUFFICES ASSUME B # {} PROVE FALSE
  OBVIOUS
<1>1. PICK b \in B : \A r \in SUBSET S : Cardinality(r) < Cardinality(b) => r \notin B
  <2>1. B \in SUBSET (SUBSET S)
    OBVIOUS
  <2> HIDE DEF B
  <2> QED BY <2>1, SmallestSet
<1>2. PICK y \in b : g[b] # f[y].delta + g[b \ {y}]
  OBVIOUS
<1> DEFINE p == Pick(b)
<1>3. p \in b
  BY <1>2 DEF Pick
<1>4. g[b] = f[p].delta + g[b \ {p}]
  BY <1>2, FoldStep
<1>5. y # p
  BY <1>2, <1>4
<1>6. b \ {p} \in SUBSET S /\ Cardinality(b \ {p}) < Cardinality(b)
  BY <1>3, PickSmaller
<1>7. b \ {y} \in SUBSET S /\ Cardinality(b \ {y}) < Cardinality(b)
  BY <1>2, PickSmaller
<1> HIDE DEF p
<1>8. g[b \ {p}] = f[y].delta + g[(b \ {p}) \ {y}]
  BY <1>1, <1>5, <1>6
<1>9. g[b \ {y}] = f[p].delta + g[(b \ {y}) \ {p}]
  BY <1>1, <1>3, <1>5, <1>7
<1>10. (b \ {p}) \ {y} = (b \ {y}) \ {p}
  OBVIOUS
<1>11. (b \ {p}) \ {y} \in SUBSET S
  OBVIOUS
<1>12. g[(b \ {p}) \ {y}] \in Int
  BY <1>11, FoldType
<1>13. f[p].delta \in Int /\ f[y].delta \in Int
  BY <1>3 DEF Integral
<1>14. PICK c : c = g[(b \ {p}) \ {y}]
  OBVIOUS
<1>15. PICK u, v : u = f[p].delta /\ v = f[y].delta
  OBVIOUS
<1>16. g[b] = u + (v + c) /\ g[b \ {y}] = u + c
  BY <1>4, <1>8, <1>9, <1>10, <1>14, <1>15
<1>17. u \in Int /\ v \in Int /\ c \in Int
  BY <1>12, <1>13, <1>14, <1>15
<1>18. u + (v + c) = v + (u + c)
  BY <1>17
<1> QED BY <1>2, <1>15, <1>16, <1>18

\* What is used of sums: they are integers, the empty one is 0, one more row
\* adds its delta, and rows outside the set do not matter.
LEMMA SumType ==
  ASSUME NEW f, NEW S, IsFiniteSet(S), Integral(f, S)
  PROVE  DeltaSum(f, S) \in Int
<1>1. PICK g : Folds(g, f, S) /\ DeltaSum(f, S) = g[S]
  BY SumFolds
<1>2. g[S] \in Int
  BY <1>1, FoldType
<1> QED BY <1>1, <1>2

\* The sum over no rows, over rows with the same deltas, over one row more
\* and over one row: what a reader expects of a sum.
LEMMA SumEmpty ==
  ASSUME NEW f
  PROVE  DeltaSum(f, {}) = 0
<1>1. IsFiniteSet({})
  BY FS_EmptySet
<1>2. PICK g : Folds(g, f, {}) /\ DeltaSum(f, {}) = g[{}]
  BY <1>1, SumFolds
<1> QED BY <1>2, FoldStep

LEMMA SumSame ==
  ASSUME NEW f, NEW e, NEW S, IsFiniteSet(S), \A k \in S : f[k].delta = e[k].delta
  PROVE  DeltaSum(f, S) = DeltaSum(e, S)
<1>1. PICK g : Folds(g, f, S) /\ DeltaSum(f, S) = g[S]
  BY SumFolds
<1>2. PICK h : Folds(h, e, S) /\ DeltaSum(e, S) = h[S]
  BY SumFolds
<1>3. g[S] = h[S]
  BY <1>1, <1>2, FoldAgrees
<1> QED BY <1>1, <1>2, <1>3

LEMMA SumAdds ==
  ASSUME NEW f, NEW e, NEW S, IsFiniteSet(S), Integral(f, S), NEW x, x \notin S,
         \A k \in S : e[k].delta = f[k].delta, e[x].delta \in Int
  PROVE  DeltaSum(e, S \cup {x}) = DeltaSum(f, S) + e[x].delta
<1> DEFINE U == S \cup {x}
<1>1. IsFiniteSet(U) /\ U \ {x} = S /\ S \subseteq U
  BY FS_AddElement
<1>2. Integral(e, U)
  BY DEF Integral
<1>3. PICK g : Folds(g, f, S) /\ DeltaSum(f, S) = g[S]
  BY SumFolds
<1> HIDE DEF U
<1>4. PICK h : Folds(h, e, U) /\ DeltaSum(e, U) = h[U]
  BY <1>1, SumFolds
<1>5. x \in U
  BY DEF U
<1>6. h[U] = e[x].delta + h[S]
  BY <1>1, <1>2, <1>4, <1>5, FoldRemoves
<1>7. h[S] = g[S]
  BY <1>1, <1>3, <1>4, FoldAgrees
<1>8. g[S] \in Int
  BY <1>3, FoldType
<1>9. DeltaSum(e, U) = DeltaSum(f, S) + e[x].delta
  BY <1>3, <1>4, <1>6, <1>7, <1>8
<1> QED BY <1>9 DEF U
LEMMA SumSingle ==
  ASSUME NEW f, NEW x, f[x].delta \in Int
  PROVE  DeltaSum(f, {x}) = f[x].delta
<1>1. PICK S : S = {x}
  OBVIOUS
<1>2. IsFiniteSet(S) /\ Integral(f, S)
  BY <1>1, FS_Singleton DEF Integral
<1>3. PICK g : Folds(g, f, S) /\ DeltaSum(f, S) = g[S]
  BY <1>2, SumFolds
<1>4. x \in S /\ S \ {x} \in SUBSET S /\ S \ {x} = {}
  BY <1>1
<1>5. g[S] = f[x].delta + g[S \ {x}]
  BY <1>2, <1>3, <1>4, FoldRemoves
<1>6. g[S \ {x}] = 0
  <2>1. PICK r : r = S \ {x}
    OBVIOUS
  <2>2. r \in SUBSET S /\ r = {}
    BY <1>4, <2>1
  <2>3. r = {} => g[r] = 0
    BY <1>3, <2>2, FoldStep
  <2> QED BY <2>1, <2>2, <2>3
<1>7. PICK d : d = f[x].delta
  OBVIOUS
<1>8. DeltaSum(f, S) = d + 0 /\ d \in Int
  BY <1>3, <1>5, <1>6, <1>7
<1> QED BY <1>1, <1>7, <1>8

-----------------------------------------------------------------------------
(* Pages of an ordered listing, one after the other.                       *)

\* A page of a listing of S: rows of S in order; all of them if there is no
\* next cursor; else the cursor is the last row and the others come after it.
PageOf(page, S, R) ==
    /\ page.rows \in Seq(S)
    /\ \A i, j \in 1 .. Len(page.rows) : i < j => <<page.rows[i], page.rows[j]>> \in R
    /\ page.next = NoCursor => \A e \in S : \E i \in 1 .. Len(page.rows) : page.rows[i] = e
    /\ page.next # NoCursor =>
          /\ Len(page.rows) > 0
          /\ page.next = page.rows[Len(page.rows)]
          /\ \A e \in S : \/ \E i \in 1 .. Len(page.rows) : page.rows[i] = e
                          \/ <<page.next, e>> \in R

\* LIMIT and the cut make such a page of a sorted listing.
LEMMA PageFacts ==
  ASSUME NEW S, NEW R, NEW s, Lists(s, S, R), NoCursor \notin S, NEW n \in Nat \ {0}
  PROVE  PageOf(CutPage(LimitTo(s, n + 1), n), S, R)
<1>1. s \in Seq(S) /\ Len(s) \in Nat
  BY DEF Lists
<1>2. CASE Len(s) <= n
  <2>1. LimitTo(s, n + 1) = s
    <3>1. LimitTo(s, n + 1) = SubSeq(s, 1, Len(s))
      BY <1>1, <1>2 DEF LimitTo
    <3> QED BY <1>1, <3>1
  <2>2. CutPage(s, n) = [rows |-> s, next |-> NoCursor]
    BY <1>1, <1>2 DEF CutPage
  <2>3. PageOf([rows |-> s, next |-> NoCursor], S, R)
    BY DEF PageOf, Lists
  <2> QED BY <2>1, <2>2, <2>3
<1>3. CASE Len(s) > n
  <2> DEFINE l == SubSeq(s, 1, n + 1)
             r == SubSeq(s, 1, n)
  <2>1. LimitTo(s, n + 1) = l
    BY <1>1, <1>3 DEF LimitTo
  <2>2. Len(l) = n + 1 /\ l[n] = s[n]
    BY <1>1, <1>3
  <2>3. SubSeq(l, 1, n) = r
    BY <1>1, <1>3
  <2>4. CutPage(l, n) = [rows |-> r, next |-> s[n]]
    BY <2>2, <2>3 DEF CutPage
  <2>5. r \in Seq(S) /\ Len(r) = n /\ \A i \in 1 .. n : r[i] = s[i]
    BY <1>1, <1>3
  <2>6. s[n] \in S
    BY <1>1, <1>3
  <2>7. \A e \in S : (\E i \in 1 .. n : r[i] = e) \/ <<s[n], e>> \in R
    <3> SUFFICES ASSUME NEW e \in S
                 PROVE  (\E i \in 1 .. n : r[i] = e) \/ <<s[n], e>> \in R
      OBVIOUS
    <3>1. PICK i \in 1 .. Len(s) : s[i] = e
      BY DEF Lists
    <3> HIDE DEF r
    <3>2. CASE i <= n
      <4>1. i \in 1 .. n
        BY <1>1, <3>2
      <4> QED BY <2>5, <3>1, <4>1
    <3>3. CASE i > n
      <4>1. n \in 1 .. Len(s) /\ n < i
        BY <1>1, <1>3, <3>3
      <4> QED BY <3>1, <4>1 DEF Lists
    <3> QED BY <1>1, <3>2, <3>3
  <2>8. \A i, j \in 1 .. n : i < j => <<r[i], r[j]>> \in R
    <3> SUFFICES ASSUME NEW i \in 1 .. n, NEW j \in 1 .. n, i < j
                 PROVE  <<r[i], r[j]>> \in R
      OBVIOUS
    <3>1. r[i] = s[i] /\ r[j] = s[j] /\ i \in 1 .. Len(s) /\ j \in 1 .. Len(s)
      BY <1>1, <1>3, <2>5
    <3> HIDE DEF r
    <3> QED BY <3>1 DEF Lists
  <2> HIDE DEF r, l
  <2>9. PageOf([rows |-> r, next |-> s[n]], S, R)
    BY <2>5, <2>6, <2>7, <2>8 DEF PageOf
  <2> QED BY <2>1, <2>4, <2>9
<1> QED BY <1>1, <1>2, <1>3

\* Ordered sequences one after the other.
Ordered(s, R) == \A i, j \in 1 .. Len(s) : i < j => <<s[i], s[j]>> \in R
Joins(s, l, m) ==
    /\ Len(s) = Len(l) + Len(m)
    /\ \A i \in 1 .. Len(s) : s[i] = IF i <= Len(l) THEN l[i] ELSE m[i - Len(l)]
Follows(m, l, R) == \A i \in 1 .. Len(l), j \in 1 .. Len(m) : <<l[i], m[j]>> \in R

LEMMA OrderedAppend ==
  ASSUME NEW E, NEW R, NEW l \in Seq(E), NEW m \in Seq(E), NEW s \in Seq(E),
         Joins(s, l, m), Ordered(l, R), Ordered(m, R), Follows(m, l, R)
  PROVE  /\ Ordered(s, R)
         /\ Range(s) = Range(l) \cup Range(m)
         /\ Len(m) > 0 => Len(s) > 0 /\ s[Len(s)] = m[Len(m)]
<1>1. /\ s \in Seq(E)
      /\ Len(s) = Len(l) + Len(m)
      /\ Len(l) \in Nat /\ Len(m) \in Nat
      /\ \A i \in 1 .. Len(s) : s[i] = IF i <= Len(l) THEN l[i] ELSE m[i - Len(l)]
  BY DEF Joins
<1>2. Ordered(s, R)
  <2> SUFFICES ASSUME NEW i \in 1 .. Len(s), NEW j \in 1 .. Len(s), i < j
               PROVE  <<s[i], s[j]>> \in R
    BY DEF Ordered
  <2>1. CASE j <= Len(l)
    <3>1. s[i] = l[i] /\ s[j] = l[j] /\ i \in 1 .. Len(l) /\ j \in 1 .. Len(l)
      BY <1>1, <2>1
    <3> QED BY <3>1 DEF Ordered
  <2>2. CASE i <= Len(l) /\ j > Len(l)
    <3>1. s[i] = l[i] /\ s[j] = m[j - Len(l)] /\ i \in 1 .. Len(l) /\ j - Len(l) \in 1 .. Len(m)
      BY <1>1, <2>2
    <3> QED BY <3>1 DEF Follows
  <2>3. CASE i > Len(l)
    <3>1. /\ s[i] = m[i - Len(l)] /\ s[j] = m[j - Len(l)]
          /\ i - Len(l) \in 1 .. Len(m) /\ j - Len(l) \in 1 .. Len(m)
          /\ i - Len(l) < j - Len(l)
      BY <1>1, <2>3
    <3> QED BY <3>1 DEF Ordered
  <2> QED BY <1>1, <2>1, <2>2, <2>3
<1>3. Range(s) = Range(l) \cup Range(m)
  <2>1. DOMAIN s = 1 .. Len(s) /\ DOMAIN l = 1 .. Len(l) /\ DOMAIN m = 1 .. Len(m)
    BY <1>1
  <2>2. \A i \in 1 .. Len(s) : s[i] \in Range(l) \cup Range(m)
    <3> SUFFICES ASSUME NEW i \in 1 .. Len(s) PROVE s[i] \in Range(l) \cup Range(m)
      OBVIOUS
    <3>1. CASE i <= Len(l)
      <4>1. i \in 1 .. Len(l) /\ s[i] = l[i]
        BY <1>1, <3>1
      <4> QED BY <2>1, <4>1 DEF Range
    <3>2. CASE i > Len(l)
      <4>1. i - Len(l) \in 1 .. Len(m) /\ s[i] = m[i - Len(l)]
        BY <1>1, <3>2
      <4> QED BY <2>1, <4>1 DEF Range
    <3> QED BY <1>1, <3>1, <3>2
  <2>3. \A i \in 1 .. Len(l) : l[i] \in Range(s)
    <3> SUFFICES ASSUME NEW i \in 1 .. Len(l) PROVE l[i] \in Range(s)
      OBVIOUS
    <3>1. i \in 1 .. Len(s) /\ s[i] = l[i]
      BY <1>1
    <3> QED BY <2>1, <3>1 DEF Range
  <2>4. \A i \in 1 .. Len(m) : m[i] \in Range(s)
    <3> SUFFICES ASSUME NEW i \in 1 .. Len(m) PROVE m[i] \in Range(s)
      OBVIOUS
    <3>0. /\ i + Len(l) \in 1 .. Len(s)
          /\ ~ (i + Len(l) <= Len(l))
          /\ (i + Len(l)) - Len(l) = i
      BY <1>1
    <3>1. i + Len(l) \in 1 .. Len(s) /\ s[i + Len(l)] = m[i]
      BY <1>1, <3>0
    <3> QED BY <2>1, <3>1 DEF Range
  <2>5. Range(s) \subseteq Range(l) \cup Range(m)
    BY <2>1, <2>2 DEF Range
  <2>6. Range(l) \subseteq Range(s) /\ Range(m) \subseteq Range(s)
    BY <2>1, <2>3, <2>4 DEF Range
  <2> QED BY <2>5, <2>6
<1>4. Len(m) > 0 => Len(s) > 0 /\ s[Len(s)] = m[Len(m)]
  BY <1>1
<1> QED BY <1>1, <1>2, <1>3, <1>4

-----------------------------------------------------------------------------
(* The inductive invariant.  Each part says what a transaction may rely on *)
(* between two of its statements, whatever the others do meanwhile.        *)

Holding   == {"reserve", "resolve", "update", "complete", "audit", "commit"}
Unwritten == {"idle", "lock", "reserve", "resolve", "insert", "committed", "done"}

\* A busy slot has a request and a target, and serves it on the right path.
Busy(p) ==
    pc[p] # "idle" =>
        /\ req[p] \in Requests
        /\ target[p] \in Counters
        /\ pc[p] \in Creating => req[p].kind = "create"
        /\ pc[p] \in Mutating \ {"commit"} => req[p].kind # "create"
        /\ req[p].kind # "create" => target[p] = req[p].counter
        /\ req[p].kind = "create" => Owner[target[p]] = req[p].tenant

Mutates(p) == pc[p] \in Holding /\ req[p].kind # "create"
Creates(p) == pc[p] \in Creating \cup {"commit"} /\ req[p].kind = "create"

\* Between the lock and the end of the transaction the counter cannot move:
\* the value that was read is still the committed one.
Locked(p) ==
    Mutates(p) =>
        /\ rowLock[target[p]] = p
        /\ target[p] \in live
        /\ Owner[target[p]] = req[p].tenant
        /\ cur[p] = value[target[p]]
        /\ DeltaOf(req[p], cur[p]) \in Int64

\* Only a running mutation holds a row lock, and only that of its counter.
LockOwned == \A c \in Counters, p \in Procs : rowLock[c] = p => Mutates(p) /\ target[p] = c

Audited(r) == r.kind = "set_adjustment" /\ r.actor # "anonymous"

\* The uncommitted value and the response that go with the completed row.
Completed(p) ==
    /\ txOp[p] = MutationRow(req[p], cur[p])
    /\ txVal[p] = cur[p] + DeltaOf(req[p], cur[p])
    /\ IncrementFault(req[p], cur[p]) = "none"
    /\ resp[p] = Result("ok", DeltaOf(req[p], cur[p]), txVal[p], FALSE)

\* The response repeats the committed row.
Repeats(p) ==
    LET row == ops[req[p].tenant][req[p].key] IN
    /\ row # NoOp
    /\ row.state = "completed"
    /\ row.hash = RequestHash(req[p])
    /\ row.counter = req[p].counter
    /\ row.delta = resp[p].delta
    /\ row.after = resp[p].value

\* What a transaction has written when it reaches each statement.
Written(p) ==
    /\ pc[p] \in Unwritten => txOp[p] = NoOp /\ writes[p] = {}
    /\ pc[p] = "resolve" => ops[req[p].tenant][req[p].key] # NoOp
    /\ pc[p] = "update" => txOp[p] = PendingRow(req[p], cur[p]) /\ writes[p] = {}
    /\ pc[p] = "complete" =>
         /\ txOp[p] = PendingRow(req[p], cur[p])
         /\ writes[p] = {"value"}
         /\ txVal[p] = cur[p] + DeltaOf(req[p], cur[p])
         /\ IncrementFault(req[p], cur[p]) = "none"
    /\ pc[p] = "audit" => Completed(p) /\ writes[p] = {"value"} /\ Audited(req[p])
    /\ pc[p] = "commit" /\ req[p].kind # "create" =>
         \/ txOp[p] = NoOp /\ writes[p] = {} /\ Repeats(p)
         \/ Completed(p) /\ writes[p] = {"value", "audit"} /\ Audited(req[p])
         \/ Completed(p) /\ writes[p] = {"value"} /\ ~Audited(req[p])
    /\ pc[p] = "initial" => txOp[p] = NoOp
    /\ pc[p] = "commit" /\ req[p].kind = "create" =>
         txOp[p] = InitialRow(target[p], req[p].arg)
    /\ Creates(p) /\ pc[p] # "insert" =>
         txVal[p] = req[p].arg /\ writes[p] = {"row", "value"}

\* A reserved key is unused, and reserved once.
Reserves(p) == txOp[p] # NoOp /\ req[p].kind # "create"
KeyExclusive ==
    \A p \in Procs : Reserves(p) =>
        /\ ops[req[p].tenant][req[p].key] = NoOp
        /\ \A q \in Procs : q # p /\ Reserves(q) /\ req[q].tenant = req[p].tenant
                            => req[q].key # req[p].key

\* So is the id of an audit event.
AuditExclusive ==
    \A p \in Procs : "audit" \in writes[p] =>
        /\ audit[req[p].key] = NoTenant
        /\ \A q \in Procs : q # p /\ "audit" \in writes[q] => req[q].key # req[p].key

\* A counter being created has an id of its own, and from its INSERT on a
\* label of its own.
CreateExclusive ==
    /\ \A p \in Procs : Creates(p) =>
         /\ target[p] \notin live
         /\ \A q \in Procs : q # p /\ Creates(q) => target[q] # target[p]
    /\ \A p \in Procs : "row" \in writes[p] =>
         /\ ~LabelTaken(p)
         /\ \A q \in Procs : q # p /\ "row" \in writes[q] /\ req[q].tenant = req[p].tenant
                             => req[q].label # req[p].label

IInv ==
    /\ TypeOK
    /\ \A p \in Procs : Busy(p)
    /\ \A p \in Procs : Locked(p)
    /\ LockOwned
    /\ \A p \in Procs : Written(p)
    /\ KeyExclusive
    /\ AuditExclusive
    /\ CreateExclusive
    /\ AnswerTruthful
    /\ AuditMatchesHistory

USE IntAssumption, DataAssumption, ProcAssumption, NoCounterAssumption

\* What the handlers guarantee of a request.
LEMMA RequestType ==
  ASSUME NEW r \in Requests
  PROVE  /\ r.kind \in ReqKinds
         /\ r.tenant \in Tenants
         /\ r.counter \in Counters
         /\ r.arg \in Int64
         /\ r.key \in Keys
         /\ r.key \in OpIds
         /\ r.label \in Labels
         /\ r.actor \in Actors
         /\ r.kind = "increment" => r.arg > 0
         /\ RequestHash(r) \in Hashes
  BY DEF RequestShape, Validated, OpIds, Hashes

\* Rows have the type of rows, and are rows.
LEMMA InitialRowType ==
  ASSUME NEW c \in Counters, NEW v \in Int64
  PROVE  InitialRow(c, v) \in OpRows /\ InitialRow(c, v) # NoOp
<1>1. InitialRow(c, v) \in OpRows
  BY DEF InitialRow, OpRows, OpKinds, OpStates, Actors, Hashes, Int64, MinInt
<1> QED BY <1>1

LEMMA PendingRowType ==
  ASSUME NEW r \in Requests, r.kind # "create", NEW v \in Int64, DeltaOf(r, v) \in Int64
  PROVE  PendingRow(r, v) \in OpRows /\ PendingRow(r, v) # NoOp
<1>1. PendingRow(r, v) \in OpRows
  BY RequestType DEF PendingRow, OpRows, OpKinds, ReqKinds, OpStates, Int64, MinInt
<1> QED BY <1>1

\* A mutation that passes its checks ends inside int64.
LEMMA MutationInRange ==
  ASSUME NEW r \in Requests, r.kind # "create", NEW v \in Int64,
         IncrementFault(r, v) = "none"
  PROVE  v + DeltaOf(r, v) \in Int64
<1>1. CASE r.kind = "increment"
  BY <1>1, RequestType DEF DeltaOf, IncrementFault, Int64, MinInt
<1>2. CASE r.kind # "increment"
  BY <1>2, RequestType DEF DeltaOf, Int64, MinInt
<1> QED BY <1>1, <1>2

LEMMA MutationRowType ==
  ASSUME NEW r \in Requests, r.kind # "create", NEW v \in Int64,
         DeltaOf(r, v) \in Int64, IncrementFault(r, v) = "none"
  PROVE  MutationRow(r, v) \in OpRows /\ MutationRow(r, v) # NoOp
<1>1. MutationRow(r, v) \in OpRows
  BY RequestType, MutationInRange DEF MutationRow, OpRows, OpKinds, ReqKinds, OpStates
<1> QED BY <1>1

\* Completing a pending row gives the mutation's row.
LEMMA CompletedRow ==
  ASSUME NEW r, NEW v
  PROVE  CompleteRow(PendingRow(r, v), v, v + DeltaOf(r, v)) = MutationRow(r, v)
  BY DEF CompleteRow, PendingRow, MutationRow

\* A step of another process that rewrites no committed row leaves what q has
\* written alone.
LEMMA WrittenFrame ==
  ASSUME NEW q \in Procs, Written(q),
         ops[req[q].tenant][req[q].key] # NoOp =>
             ops'[req[q].tenant][req[q].key] = ops[req[q].tenant][req[q].key],
         pc'[q] = pc[q], req'[q] = req[q], target'[q] = target[q], cur'[q] = cur[q],
         txVal'[q] = txVal[q], txOp'[q] = txOp[q], writes'[q] = writes[q], resp'[q] = resp[q]
  PROVE  Written(q)'
  BY DEF Written, Unwritten, Creates, Completed, Repeats

\* Nor does it change what an answer says, as long as the history stands.
LEMMA AnswerFrame ==
  ASSUME AnswerTruthful, ops' = ops,
         \A q \in Procs : pc'[q] \in {"committed", "done"} /\ resp'[q].status = "ok" =>
             /\ pc[q] \in {"committed", "done"}
             /\ req'[q] = req[q]
             /\ resp'[q] = resp[q]
  PROVE  AnswerTruthful'
  BY DEF AnswerTruthful

\* The seeded database and idle slots satisfy the invariant.
LEMMA InitIInv == Init => IInv
<1> SUFFICES ASSUME Init PROVE IInv
  OBVIOUS
<1>2. SeedOps \in [Tenants -> [OpIds -> OpRows \cup {NoOp}]]
  BY InitialRowType DEF SeedOps, Int64, MinInt
<1>3. TypeOK
  BY <1>2 DEF Init, TypeOK, Stages, Failure, Result, Responses, Statuses, Int64, MinInt
<1>4. \A t \in Tenants, k \in Keys : ops[t][k] = NoOp
  BY DEF Init, SeedOps, OpIds
<1>5. /\ \A p \in Procs : Busy(p)
      /\ \A p \in Procs : Locked(p)
      /\ LockOwned
      /\ \A p \in Procs : Written(p)
  BY DEF Init, Busy, Locked, LockOwned, Written, Mutates, Creates, Holding, Creating
<1>6. KeyExclusive /\ AuditExclusive /\ CreateExclusive
  BY DEF Init, KeyExclusive, AuditExclusive, CreateExclusive, Reserves, Creates, Creating
<1>7. AnswerTruthful /\ AuditMatchesHistory
  BY <1>4 DEF Init, AnswerTruthful, AuditMatchesHistory
<1> QED
  BY <1>3, <1>5, <1>6, <1>7 DEF IInv

\* Rolling a transaction back disturbs nobody else.
LEMMA AbortIInv ==
  ASSUME IInv, NEW p \in Procs, NEW s \in Statuses \ {"ok"}, pc[p] \in InTx, Abort(p, s)
  PROVE  IInv'
<1> USE DEF Abort, Release, GoTo
<1>1. TypeOK'
  BY DEF IInv, TypeOK, Stages, Failure, Result, Responses, Int64, MinInt
<1>2. (\A q \in Procs : Busy(q))'
  BY DEF IInv, TypeOK, Busy, InTx, Mutating, Creating
<1>3. (\A q \in Procs : Locked(q))'
  BY DEF IInv, TypeOK, Locked, Mutates, Holding, Busy, InTx, Mutating, Creating
<1>4. LockOwned'
  BY DEF IInv, TypeOK, LockOwned, Mutates, Holding
<1>5. (\A q \in Procs : Written(q))'
  <2> SUFFICES ASSUME NEW q \in Procs PROVE Written(q)'
    OBVIOUS
  <2>1. CASE q = p
    BY <2>1 DEF IInv, TypeOK, Written, Unwritten, Creates, Creating
  <2>2. CASE q # p
    BY <2>2, WrittenFrame DEF IInv, TypeOK
  <2> QED BY <2>1, <2>2
<1>6. KeyExclusive'
  BY DEF IInv, TypeOK, KeyExclusive, Reserves
<1>7. AuditExclusive'
  BY DEF IInv, TypeOK, AuditExclusive
<1>8. CreateExclusive'
  BY DEF IInv, TypeOK, CreateExclusive, Creates, Creating, LabelTaken
<1>9. AnswerTruthful'
  BY DEF IInv, TypeOK, AnswerTruthful, Failure, Result
<1>10. AuditMatchesHistory'
  BY DEF IInv, AuditMatchesHistory
<1> QED
  BY <1>1, <1>2, <1>3, <1>4, <1>5, <1>6, <1>7, <1>8, <1>9, <1>10 DEF IInv

\* A slot that takes a mutation holds nothing yet.
LEMMA StartMutationIInv ==
  ASSUME IInv, NEW p \in Procs, NEW r \in Requests, StartMutation(p, r)
  PROVE  IInv'
<1> USE DEF StartMutation, GoTo, Order, tables, txvars
<1>1. TypeOK'
  BY RequestType DEF IInv, TypeOK, Stages, InTx, Mutating, Creating, Int64, MinInt
<1>2. (\A q \in Procs : Busy(q))'
  BY RequestType DEF IInv, TypeOK, Busy, InTx, Mutating, Creating
<1>3. (\A q \in Procs : Locked(q))'
  BY DEF IInv, TypeOK, Locked, Mutates, Holding, Busy
<1>4. LockOwned'
  BY DEF IInv, TypeOK, LockOwned, Mutates, Holding, Busy
<1>5. (\A q \in Procs : Written(q))'
  <2> SUFFICES ASSUME NEW q \in Procs PROVE Written(q)'
    OBVIOUS
  <2>1. CASE q = p
    BY <2>1 DEF IInv, TypeOK, Written, Unwritten, Creates, Creating, PendingRow, Completed, Repeats, Busy, Audited
  <2>2. CASE q # p
    BY <2>2, WrittenFrame DEF IInv, TypeOK
  <2> QED BY <2>1, <2>2
<1>6. KeyExclusive'
  BY DEF IInv, TypeOK, KeyExclusive, Reserves, Busy, Written, Unwritten
<1>7. AuditExclusive'
  BY DEF IInv, TypeOK, AuditExclusive, Busy, Written, Unwritten
<1>8. CreateExclusive'
  BY DEF IInv, TypeOK, CreateExclusive, Creates, Creating, LabelTaken, Busy, Written, Unwritten
<1>9. AnswerTruthful'
  BY AnswerFrame DEF IInv, TypeOK
<1>10. AuditMatchesHistory'
  BY DEF IInv, AuditMatchesHistory
<1> QED
  BY <1>1, <1>2, <1>3, <1>4, <1>5, <1>6, <1>7, <1>8, <1>9, <1>10 DEF IInv

\* The value read under a granted row lock is the committed one, and nobody
\* else was holding the row.
LEMMA LockCounterIInv ==
  ASSUME IInv, NEW p \in Procs, LockCounter(p)
  PROVE  IInv'
<1> USE DEF LockCounter, GoTo, Order, tables
<1>1. TypeOK'
  BY DEF Visible, IInv, TypeOK, Stages, InTx, Mutating, Creating, Int64, MinInt
<1>2. (\A q \in Procs : Busy(q))'
  BY DEF IInv, TypeOK, Busy, InTx, Mutating, Creating
<1>3. (\A q \in Procs : Locked(q))'
  BY DEF IInv, TypeOK, Locked, Mutates, Holding, Busy, Visible, Granted, WaitsFor, HoldsCounter, Mutating
<1>4. LockOwned'
  BY DEF IInv, TypeOK, LockOwned, Mutates, Holding, Busy, Mutating
<1>5. (\A q \in Procs : Written(q))'
  <2> SUFFICES ASSUME NEW q \in Procs PROVE Written(q)'
    OBVIOUS
  <2>1. CASE q = p
    BY <2>1 DEF IInv, TypeOK, Written, Unwritten, Creates, Creating, PendingRow, Completed, Repeats, Busy, Audited
  <2>2. CASE q # p
    BY <2>2, WrittenFrame DEF IInv, TypeOK
  <2> QED BY <2>1, <2>2
<1>6. KeyExclusive'
  BY DEF IInv, TypeOK, KeyExclusive, Reserves, Busy, Written, Unwritten
<1>7. AuditExclusive'
  BY DEF IInv, TypeOK, AuditExclusive, Busy, Written, Unwritten
<1>8. CreateExclusive'
  BY DEF IInv, TypeOK, CreateExclusive, Creates, Creating, LabelTaken, Busy, Written, Unwritten
<1>9. AnswerTruthful'
  BY AnswerFrame DEF IInv, TypeOK
<1>10. AuditMatchesHistory'
  BY DEF IInv, AuditMatchesHistory
<1> QED
  BY <1>1, <1>2, <1>3, <1>4, <1>5, <1>6, <1>7, <1>8, <1>9, <1>10 DEF IInv

\* A granted insert reserves a key that no transaction and no committed row has.
LEMMA ReserveIInv ==
  ASSUME IInv, NEW p \in Procs, Reserve(p)
  PROVE  IInv'
<1>0. /\ req[p] \in Requests /\ req[p].kind # "create"
      /\ req[p].tenant \in Tenants /\ req[p].key \in Keys /\ req[p].key \in OpIds
      /\ target[p] = req[p].counter
      /\ PendingRow(req[p], cur[p]) \in OpRows
      /\ PendingRow(req[p], cur[p]) # NoOp
      /\ txOp[p] = NoOp
  BY RequestType, PendingRowType
  DEF Reserve, IInv, TypeOK, Busy, Locked, Mutates, Holding, Mutating, Written, Unwritten
<1>a. /\ pc[p] = "reserve"
      /\ Granted(p)
      /\ live' = live /\ value' = value /\ label' = label /\ ops' = ops /\ audit' = audit
      /\ rowLock' = rowLock /\ req' = req /\ target' = target /\ cur' = cur
      /\ txVal' = txVal /\ writes' = writes /\ resp' = resp
      /\ \/ /\ ops[req[p].tenant][req[p].key] = NoOp
            /\ txOp' = [txOp EXCEPT ![p] = PendingRow(req[p], cur[p])]
            /\ pc' = [pc EXCEPT ![p] = "update"]
         \/ /\ ops[req[p].tenant][req[p].key] # NoOp
            /\ txOp' = txOp
            /\ pc' = [pc EXCEPT ![p] = "resolve"]
  BY DEF Reserve, GoTo, Order, tables
<1>1. TypeOK'
  <2>1. txOp' \in [Procs -> OpRows \cup {NoOp}]
    BY <1>0, <1>a DEF IInv, TypeOK
  <2>2. pc' \in [Procs -> Stages]
    BY <1>a DEF IInv, TypeOK, Stages, InTx, Mutating
  <2> QED BY <1>a, <2>1, <2>2 DEF IInv, TypeOK
<1>2. (\A q \in Procs : Busy(q))'
  BY <1>0, <1>a DEF IInv, TypeOK, Busy, Mutating, Creating
<1>3. (\A q \in Procs : Locked(q))'
  <2>1. \A q \in Procs : Mutates(q)' => Mutates(q)
    BY <1>0, <1>a DEF IInv, TypeOK, Mutates, Holding
  <2> QED BY <1>a, <2>1 DEF IInv, Locked
<1>4. LockOwned'
  <2>1. \A q \in Procs : Mutates(q) => Mutates(q)'
    BY <1>0, <1>a DEF IInv, TypeOK, Mutates, Holding
  <2> QED BY <1>a, <2>1 DEF IInv, LockOwned
<1>5. (\A q \in Procs : Written(q))'
  <2> SUFFICES ASSUME NEW q \in Procs PROVE Written(q)'
    OBVIOUS
  <2>1. CASE q = p
    BY <2>1, <1>0, <1>a DEF IInv, TypeOK, Written, Unwritten, Creates, Creating
  <2>2. CASE q # p
    BY <2>2, <1>a, WrittenFrame DEF IInv, TypeOK
  <2> QED BY <2>1, <2>2
<1>6. KeyExclusive'
  <2> SUFFICES ASSUME NEW q \in Procs, Reserves(q)'
               PROVE  /\ ops[req[q].tenant][req[q].key] = NoOp
                      /\ \A x \in Procs : x # q /\ Reserves(x)' /\ req[x].tenant = req[q].tenant
                                          => req[x].key # req[q].key
    BY <1>a DEF KeyExclusive
  <2>1. \A x \in Procs : x # p => (Reserves(x)' <=> Reserves(x))
    BY <1>a DEF Reserves, IInv, TypeOK
  <2>2. Reserves(p)' => ops[req[p].tenant][req[p].key] = NoOp
    BY <1>0, <1>a DEF Reserves, IInv, TypeOK
  <2>3. \A x \in Procs : x # p /\ Reserves(x) /\ req[x].tenant = req[p].tenant
                           => req[x].key # req[p].key
    BY <1>0, <1>a DEF Granted, WaitsFor, HoldsKey, TxId, Reserves
  <2> QED BY <2>1, <2>2, <2>3 DEF IInv, KeyExclusive
<1>7. AuditExclusive'
  BY <1>0, <1>a DEF IInv, TypeOK, AuditExclusive
<1>8. CreateExclusive'
  BY <1>0, <1>a DEF IInv, TypeOK, CreateExclusive, Creates, Creating, LabelTaken
<1>9. AnswerTruthful'
  BY <1>0, <1>a, AnswerFrame DEF IInv, TypeOK
<1>10. AuditMatchesHistory'
  BY <1>a DEF IInv, AuditMatchesHistory
<1> QED
  BY <1>1, <1>2, <1>3, <1>4, <1>5, <1>6, <1>7, <1>8, <1>9, <1>10 DEF IInv

\* A replay changes nothing but the response.
LEMMA ResolveReplayIInv ==
  ASSUME IInv, NEW p \in Procs, ResolveReplay(p)
  PROVE  IInv'
<1>0. /\ req[p] \in Requests /\ req[p].kind # "create"
      /\ req[p].tenant \in Tenants /\ req[p].key \in OpIds
      /\ txOp[p] = NoOp /\ writes[p] = {}
      /\ ops[req[p].tenant][req[p].key] \in OpRows \ {NoOp}
  BY RequestType DEF ResolveReplay, IInv, TypeOK, Busy, Mutating, Written, Unwritten
<1> DEFINE row == ops[req[p].tenant][req[p].key]
<1>a. /\ pc[p] = "resolve" /\ pc' = [pc EXCEPT ![p] = "commit"]
      /\ resp' = [resp EXCEPT ![p] = Result("ok", row.delta, row.after, TRUE)]
      /\ ResolveStatus(req[p], row) = "ok"
      /\ live' = live /\ value' = value /\ label' = label /\ ops' = ops /\ audit' = audit
      /\ rowLock' = rowLock /\ req' = req /\ target' = target /\ cur' = cur
      /\ txVal' = txVal /\ txOp' = txOp /\ writes' = writes
  BY DEF ResolveReplay, GoTo, tables, txvars
<1>1. TypeOK'
  <2>1. row.delta \in Int64 /\ row.after \in Int64
    BY <1>0 DEF OpRows
  <2>2. resp' \in [Procs -> Responses]
    BY <1>a, <2>1 DEF IInv, TypeOK, Result, Responses, Statuses
  <2> QED BY <1>a, <2>2 DEF IInv, TypeOK, Stages, InTx, Mutating
<1>2. (\A q \in Procs : Busy(q))'
  BY <1>0, <1>a DEF IInv, TypeOK, Busy, Mutating, Creating
<1>3. (\A q \in Procs : Locked(q))'
  BY <1>0, <1>a DEF IInv, TypeOK, Locked, Mutates, Holding
<1>4. LockOwned'
  <2>1. \A q \in Procs : Mutates(q) => Mutates(q)'
    BY <1>0, <1>a DEF IInv, TypeOK, Mutates, Holding
  <2> QED BY <1>a, <2>1 DEF IInv, LockOwned
<1>5. (\A q \in Procs : Written(q))'
  <2> SUFFICES ASSUME NEW q \in Procs PROVE Written(q)'
    OBVIOUS
  <2>1. CASE q = p
    BY <2>1, <1>0, <1>a DEF IInv, TypeOK, Written, Unwritten, Creates, Creating, Repeats, Result, ResolveStatus
  <2>2. CASE q # p
    BY <2>2, <1>a, WrittenFrame DEF IInv, TypeOK
  <2> QED BY <2>1, <2>2
<1>6. KeyExclusive'
  BY <1>0, <1>a DEF IInv, TypeOK, KeyExclusive, Reserves
<1>7. AuditExclusive'
  BY <1>0, <1>a DEF IInv, TypeOK, AuditExclusive
<1>8. CreateExclusive'
  BY <1>0, <1>a DEF IInv, TypeOK, CreateExclusive, Creates, Creating, LabelTaken
<1>9. AnswerTruthful'
  BY <1>0, <1>a, AnswerFrame DEF IInv, TypeOK
<1>10. AuditMatchesHistory'
  BY <1>a DEF IInv, AuditMatchesHistory
<1> QED
  BY <1>1, <1>2, <1>3, <1>4, <1>5, <1>6, <1>7, <1>8, <1>9, <1>10 DEF IInv

\* The new value is inside int64.
LEMMA UpdateCounterIInv ==
  ASSUME IInv, NEW p \in Procs, UpdateCounter(p)
  PROVE  IInv'
<1>0. /\ req[p] \in Requests /\ req[p].kind # "create"
      /\ cur[p] + DeltaOf(req[p], cur[p]) \in Int64
      /\ txOp[p] = PendingRow(req[p], cur[p]) /\ writes[p] = {}
  BY RequestType, MutationInRange
  DEF UpdateCounter, IInv, TypeOK, Busy, Mutating, Written
<1>a. /\ pc[p] = "update" /\ pc' = [pc EXCEPT ![p] = "complete"]
      /\ IncrementFault(req[p], cur[p]) = "none"
      /\ txVal' = [txVal EXCEPT ![p] = cur[p] + DeltaOf(req[p], cur[p])]
      /\ writes' = [writes EXCEPT ![p] = {"value"}]
      /\ live' = live /\ value' = value /\ label' = label /\ ops' = ops /\ audit' = audit
      /\ rowLock' = rowLock /\ req' = req /\ target' = target /\ cur' = cur
      /\ txOp' = txOp /\ resp' = resp
  BY <1>0 DEF UpdateCounter, GoTo, tables
<1>1. TypeOK'
  BY <1>0, <1>a DEF IInv, TypeOK, Stages, InTx, Mutating, Creating
<1>2. (\A q \in Procs : Busy(q))'
  BY <1>0, <1>a DEF IInv, TypeOK, Busy, Mutating, Creating
<1>3. (\A q \in Procs : Locked(q))'
  BY <1>0, <1>a DEF IInv, TypeOK, Locked, Mutates, Holding
<1>4. LockOwned'
  <2>1. \A q \in Procs : Mutates(q) => Mutates(q)'
    BY <1>0, <1>a DEF IInv, TypeOK, Mutates, Holding
  <2> QED BY <1>a, <2>1 DEF IInv, LockOwned
<1>5. (\A q \in Procs : Written(q))'
  <2> SUFFICES ASSUME NEW q \in Procs PROVE Written(q)'
    OBVIOUS
  <2>1. CASE q = p
    BY <2>1, <1>0, <1>a DEF IInv, TypeOK, Written, Unwritten, Creates, Creating, IncrementFault, DeltaOf
  <2>2. CASE q # p
    BY <2>2, <1>a, WrittenFrame DEF IInv, TypeOK
  <2> QED BY <2>1, <2>2
<1>6. KeyExclusive'
  BY <1>0, <1>a DEF IInv, TypeOK, KeyExclusive, Reserves
<1>7. AuditExclusive'
  BY <1>0, <1>a DEF IInv, TypeOK, AuditExclusive
<1>8. CreateExclusive'
  BY <1>0, <1>a DEF IInv, TypeOK, CreateExclusive, Creates, Creating, LabelTaken
<1>9. AnswerTruthful'
  BY <1>0, <1>a, AnswerFrame DEF IInv, TypeOK
<1>10. AuditMatchesHistory'
  BY <1>a DEF IInv, AuditMatchesHistory
<1> QED
  BY <1>1, <1>2, <1>3, <1>4, <1>5, <1>6, <1>7, <1>8, <1>9, <1>10 DEF IInv

\* Completing the row turns the pending row into the mutation's row.
LEMMA CompleteOperationIInv ==
  ASSUME IInv, NEW p \in Procs, CompleteOperation(p)
  PROVE  IInv'
<1>0. /\ req[p] \in Requests /\ req[p].kind # "create"
      /\ txOp[p] = PendingRow(req[p], cur[p]) /\ writes[p] = {"value"}
      /\ txVal[p] = cur[p] + DeltaOf(req[p], cur[p])
      /\ IncrementFault(req[p], cur[p]) = "none"
      /\ DeltaOf(req[p], cur[p]) \in Int64
      /\ MutationRow(req[p], cur[p]) \in OpRows
      /\ MutationRow(req[p], cur[p]) # NoOp /\ txOp[p] # NoOp
  BY RequestType, MutationRowType, PendingRowType
  DEF CompleteOperation, IInv, TypeOK, Busy, Mutating, Written, Locked, Mutates, Holding
<1>a. /\ pc[p] = "complete"
      /\ pc' = [pc EXCEPT ![p] = IF Audited(req[p]) THEN "audit" ELSE "commit"]
      /\ txOp' = [txOp EXCEPT ![p] = MutationRow(req[p], cur[p])]
      /\ resp' = [resp EXCEPT ![p] = Result("ok", DeltaOf(req[p], cur[p]), txVal[p], FALSE)]
      /\ live' = live /\ value' = value /\ label' = label /\ ops' = ops /\ audit' = audit
      /\ rowLock' = rowLock /\ req' = req /\ target' = target /\ cur' = cur
      /\ txVal' = txVal /\ writes' = writes
  BY <1>0, CompletedRow DEF CompleteOperation, GoTo, tables, Audited
<1>1. TypeOK'
  <2>1. resp' \in [Procs -> Responses]
    BY <1>0, <1>a DEF IInv, TypeOK, Result, Responses, Statuses
  <2>2. txOp' \in [Procs -> OpRows \cup {NoOp}]
    BY <1>0, <1>a DEF IInv, TypeOK
  <2>3. pc' \in [Procs -> Stages]
    BY <1>a DEF IInv, TypeOK, Stages, InTx, Mutating
  <2> QED BY <1>a, <2>1, <2>2, <2>3 DEF IInv, TypeOK
<1>2. (\A q \in Procs : Busy(q))'
  BY <1>0, <1>a DEF IInv, TypeOK, Busy, Mutating, Creating
<1>3. (\A q \in Procs : Locked(q))'
  BY <1>0, <1>a DEF IInv, TypeOK, Locked, Mutates, Holding
<1>4. LockOwned'
  <2>1. \A q \in Procs : Mutates(q) => Mutates(q)'
    BY <1>0, <1>a DEF IInv, TypeOK, Mutates, Holding
  <2> QED BY <1>a, <2>1 DEF IInv, LockOwned
<1>5. (\A q \in Procs : Written(q))'
  <2> SUFFICES ASSUME NEW q \in Procs PROVE Written(q)'
    OBVIOUS
  <2>1. CASE q = p
    BY <2>1, <1>0, <1>a DEF IInv, TypeOK, Written, Unwritten, Creates, Creating, Completed, Result, Audited, DeltaOf, IncrementFault
  <2>2. CASE q # p
    BY <2>2, <1>a, WrittenFrame DEF IInv, TypeOK
  <2> QED BY <2>1, <2>2
<1>6. KeyExclusive'
  BY <1>0, <1>a DEF IInv, TypeOK, KeyExclusive, Reserves
<1>7. AuditExclusive'
  BY <1>0, <1>a DEF IInv, TypeOK, AuditExclusive
<1>8. CreateExclusive'
  BY <1>0, <1>a DEF IInv, TypeOK, CreateExclusive, Creates, Creating, LabelTaken
<1>9. AnswerTruthful'
  BY <1>0, <1>a, AnswerFrame DEF IInv, TypeOK
<1>10. AuditMatchesHistory'
  BY <1>a DEF IInv, AuditMatchesHistory
<1> QED
  BY <1>1, <1>2, <1>3, <1>4, <1>5, <1>6, <1>7, <1>8, <1>9, <1>10 DEF IInv

\* A granted audit insert has an id that nobody else has.
LEMMA AuditSetIInv ==
  ASSUME IInv, NEW p \in Procs, AuditSet(p)
  PROVE  IInv'
<1>0. /\ req[p] \in Requests /\ req[p].kind # "create"
      /\ writes[p] = {"value"} /\ Completed(p) /\ Audited(req[p])
  BY DEF AuditSet, IInv, TypeOK, Busy, Mutating, Written
<1>a. /\ pc[p] = "audit" /\ pc' = [pc EXCEPT ![p] = "commit"]
      /\ Granted(p)
      /\ audit[req[p].key] = NoTenant
      /\ writes' = [writes EXCEPT ![p] = {"value", "audit"}]
      /\ live' = live /\ value' = value /\ label' = label /\ ops' = ops /\ audit' = audit
      /\ rowLock' = rowLock /\ req' = req /\ target' = target /\ cur' = cur
      /\ txVal' = txVal /\ txOp' = txOp /\ resp' = resp
  BY <1>0 DEF AuditSet, GoTo, tables
<1>1. TypeOK'
  BY <1>0, <1>a DEF IInv, TypeOK, Stages, InTx, Mutating, Creating
<1>2. (\A q \in Procs : Busy(q))'
  BY <1>0, <1>a DEF IInv, TypeOK, Busy, Mutating, Creating
<1>3. (\A q \in Procs : Locked(q))'
  BY <1>0, <1>a DEF IInv, TypeOK, Locked, Mutates, Holding
<1>4. LockOwned'
  <2>1. \A q \in Procs : Mutates(q) => Mutates(q)'
    BY <1>0, <1>a DEF IInv, TypeOK, Mutates, Holding
  <2> QED BY <1>a, <2>1 DEF IInv, LockOwned
<1>5. (\A q \in Procs : Written(q))'
  <2> SUFFICES ASSUME NEW q \in Procs PROVE Written(q)'
    OBVIOUS
  <2>1. CASE q = p
    BY <2>1, <1>0, <1>a DEF IInv, TypeOK, Written, Unwritten, Creates, Creating, Completed, Audited
  <2>2. CASE q # p
    BY <2>2, <1>a, WrittenFrame DEF IInv, TypeOK
  <2> QED BY <2>1, <2>2
<1>6. KeyExclusive'
  BY <1>0, <1>a DEF IInv, TypeOK, KeyExclusive, Reserves
<1>7. AuditExclusive'
  <2>1. \A x \in Procs : x # p /\ "audit" \in writes[x] => req[x].key # req[p].key
    BY <1>a DEF Granted, WaitsFor, HoldsAudit
  <2> QED BY <1>0, <1>a, <2>1 DEF IInv, TypeOK, AuditExclusive
<1>8. CreateExclusive'
  BY <1>0, <1>a DEF IInv, TypeOK, CreateExclusive, Creates, Creating, LabelTaken
<1>9. AnswerTruthful'
  BY <1>0, <1>a, AnswerFrame DEF IInv, TypeOK
<1>10. AuditMatchesHistory'
  BY <1>a DEF IInv, AuditMatchesHistory
<1> QED
  BY <1>1, <1>2, <1>3, <1>4, <1>5, <1>6, <1>7, <1>8, <1>9, <1>10 DEF IInv

\* A counter id is drawn fresh.
LEMMA StartCreateIInv ==
  ASSUME IInv, NEW p \in Procs, NEW r \in Requests, StartCreate(p, r)
  PROVE  IInv'
<1> USE DEF StartCreate, GoTo, tables, txvars
<1>1. TypeOK'
  BY DEF IInv, TypeOK, Stages, InTx, Mutating, Creating, Int64, MinInt
<1>2. (\A q \in Procs : Busy(q))'
  BY DEF IInv, TypeOK, Busy, InTx, Mutating, Creating
<1>3. (\A q \in Procs : Locked(q))'
  BY DEF IInv, TypeOK, Locked, Mutates, Holding, Busy
<1>4. LockOwned'
  BY DEF IInv, TypeOK, LockOwned, Mutates, Holding, Busy
<1>5. (\A q \in Procs : Written(q))'
  <2> SUFFICES ASSUME NEW q \in Procs PROVE Written(q)'
    OBVIOUS
  <2>1. CASE q = p
    BY <2>1 DEF IInv, TypeOK, Written, Unwritten, Creates, Creating, PendingRow, Completed, Repeats, Busy, Audited
  <2>2. CASE q # p
    BY <2>2, WrittenFrame DEF IInv, TypeOK
  <2> QED BY <2>1, <2>2
<1>6. KeyExclusive'
  BY DEF IInv, TypeOK, KeyExclusive, Reserves, Busy, Written, Unwritten
<1>7. AuditExclusive'
  BY DEF IInv, TypeOK, AuditExclusive, Busy, Written, Unwritten
<1>8. CreateExclusive'
  BY DEF IInv, TypeOK, CreateExclusive, Creates, Creating, LabelTaken, Busy, Written, Unwritten
<1>9. AnswerTruthful'
  BY AnswerFrame DEF IInv, TypeOK
<1>10. AuditMatchesHistory'
  BY DEF IInv, AuditMatchesHistory
<1> QED
  BY <1>1, <1>2, <1>3, <1>4, <1>5, <1>6, <1>7, <1>8, <1>9, <1>10 DEF IInv

\* A granted counter insert has a label that nobody else has.
LEMMA InsertCounterIInv ==
  ASSUME IInv, NEW p \in Procs, InsertCounter(p)
  PROVE  IInv'
<1>0. /\ req[p] \in Requests /\ req[p].kind = "create"
      /\ req[p].arg \in Int64
      /\ writes[p] = {} /\ txOp[p] = NoOp
  BY RequestType DEF InsertCounter, IInv, TypeOK, Busy, Creating, Written, Unwritten
<1>a. /\ pc[p] = "insert" /\ pc' = [pc EXCEPT ![p] = "initial"]
      /\ Granted(p)
      /\ ~LabelTaken(p)
      /\ writes' = [writes EXCEPT ![p] = {"row", "value"}]
      /\ txVal' = [txVal EXCEPT ![p] = req[p].arg]
      /\ live' = live /\ value' = value /\ label' = label /\ ops' = ops /\ audit' = audit
      /\ rowLock' = rowLock /\ req' = req /\ target' = target /\ cur' = cur
      /\ txOp' = txOp /\ resp' = resp
  BY DEF InsertCounter, GoTo, tables
<1>1. TypeOK'
  BY <1>0, <1>a DEF IInv, TypeOK, Stages, InTx, Mutating, Creating
<1>2. (\A q \in Procs : Busy(q))'
  BY <1>0, <1>a DEF IInv, TypeOK, Busy, Mutating, Creating
<1>3. (\A q \in Procs : Locked(q))'
  BY <1>0, <1>a DEF IInv, TypeOK, Locked, Mutates, Holding
<1>4. LockOwned'
  <2>1. \A q \in Procs : Mutates(q) => Mutates(q)'
    BY <1>0, <1>a DEF IInv, TypeOK, Mutates, Holding
  <2> QED BY <1>a, <2>1 DEF IInv, LockOwned
<1>5. (\A q \in Procs : Written(q))'
  <2> SUFFICES ASSUME NEW q \in Procs PROVE Written(q)'
    OBVIOUS
  <2>1. CASE q = p
    BY <2>1, <1>0, <1>a DEF IInv, TypeOK, Written, Unwritten, Creates, Creating
  <2>2. CASE q # p
    BY <2>2, <1>a, WrittenFrame DEF IInv, TypeOK
  <2> QED BY <2>1, <2>2
<1>6. KeyExclusive'
  BY <1>0, <1>a DEF IInv, TypeOK, KeyExclusive, Reserves
<1>7. AuditExclusive'
  BY <1>0, <1>a DEF IInv, TypeOK, AuditExclusive
<1>8. CreateExclusive'
  <2>1. \A x \in Procs : x # p /\ "row" \in writes[x] /\ req[x].tenant = req[p].tenant
                           => req[x].label # req[p].label
    BY <1>a DEF Granted, WaitsFor, HoldsLabel
  <2>2. \A x \in Procs : Creates(x)' <=> Creates(x)
    BY <1>0, <1>a DEF IInv, TypeOK, Creates, Creating
  <2> QED BY <1>0, <1>a, <2>1, <2>2 DEF IInv, TypeOK, CreateExclusive, LabelTaken
<1>9. AnswerTruthful'
  BY <1>0, <1>a, AnswerFrame DEF IInv, TypeOK
<1>10. AuditMatchesHistory'
  BY <1>a DEF IInv, AuditMatchesHistory
<1> QED
  BY <1>1, <1>2, <1>3, <1>4, <1>5, <1>6, <1>7, <1>8, <1>9, <1>10 DEF IInv

\* The opening row belongs to the counter being created.
LEMMA RecordInitialIInv ==
  ASSUME IInv, NEW p \in Procs, RecordInitial(p)
  PROVE  IInv'
<1>0. /\ req[p] \in Requests /\ req[p].kind = "create"
      /\ writes[p] = {"row", "value"} /\ txVal[p] = req[p].arg
      /\ txOp[p] = NoOp
      /\ InitialRow(target[p], req[p].arg) \in OpRows
      /\ InitialRow(target[p], req[p].arg) # NoOp
  BY RequestType, InitialRowType
  DEF RecordInitial, IInv, TypeOK, Busy, Creating, Creates, Written
<1>a. /\ pc[p] = "initial" /\ pc' = [pc EXCEPT ![p] = "commit"]
      /\ txOp' = [txOp EXCEPT ![p] = InitialRow(target[p], req[p].arg)]
      /\ resp' = [resp EXCEPT ![p] = Result("ok", 0, txVal[p], FALSE)]
      /\ live' = live /\ value' = value /\ label' = label /\ ops' = ops /\ audit' = audit
      /\ rowLock' = rowLock /\ req' = req /\ target' = target /\ cur' = cur
      /\ txVal' = txVal /\ writes' = writes
  BY <1>0 DEF RecordInitial, GoTo, tables
<1>1. TypeOK'
  <2>1. resp' \in [Procs -> Responses]
    BY <1>0, <1>a DEF IInv, TypeOK, Result, Responses, Statuses, Int64, MinInt
  <2>2. txOp' \in [Procs -> OpRows \cup {NoOp}]
    BY <1>0, <1>a DEF IInv, TypeOK
  <2>3. pc' \in [Procs -> Stages]
    BY <1>a DEF IInv, TypeOK, Stages, InTx, Mutating
  <2> QED BY <1>a, <2>1, <2>2, <2>3 DEF IInv, TypeOK
<1>2. (\A q \in Procs : Busy(q))'
  BY <1>0, <1>a DEF IInv, TypeOK, Busy, Mutating, Creating
<1>3. (\A q \in Procs : Locked(q))'
  BY <1>0, <1>a DEF IInv, TypeOK, Locked, Mutates, Holding
<1>4. LockOwned'
  <2>1. \A q \in Procs : Mutates(q) => Mutates(q)'
    BY <1>0, <1>a DEF IInv, TypeOK, Mutates, Holding
  <2> QED BY <1>a, <2>1 DEF IInv, LockOwned
<1>5. (\A q \in Procs : Written(q))'
  <2> SUFFICES ASSUME NEW q \in Procs PROVE Written(q)'
    OBVIOUS
  <2>1. CASE q = p
    BY <2>1, <1>0, <1>a DEF IInv, TypeOK, Written, Unwritten, Creates, Creating, InitialRow
  <2>2. CASE q # p
    BY <2>2, <1>a, WrittenFrame DEF IInv, TypeOK
  <2> QED BY <2>1, <2>2
<1>6. KeyExclusive'
  BY <1>0, <1>a DEF IInv, TypeOK, KeyExclusive, Reserves
<1>7. AuditExclusive'
  BY <1>0, <1>a DEF IInv, TypeOK, AuditExclusive
<1>8. CreateExclusive'
  <2>1. \A x \in Procs : Creates(x)' <=> Creates(x)
    BY <1>0, <1>a DEF IInv, TypeOK, Creates, Creating
  <2> QED BY <1>a, <2>1 DEF IInv, TypeOK, CreateExclusive, LabelTaken
<1>9. AnswerTruthful'
  BY <1>0, <1>a, AnswerFrame DEF IInv, TypeOK
<1>10. AuditMatchesHistory'
  BY <1>a DEF IInv, AuditMatchesHistory
<1> QED
  BY <1>1, <1>2, <1>3, <1>4, <1>5, <1>6, <1>7, <1>8, <1>9, <1>10 DEF IInv

\* Answering changes nothing but the stage.
LEMMA RespondIInv ==
  ASSUME IInv, NEW p \in Procs, Respond(p)
  PROVE  IInv'
<1> USE DEF Respond, GoTo, tables, txvars
<1>1. TypeOK'
  BY DEF IInv, TypeOK, Stages, InTx, Mutating, Creating, Int64, MinInt
<1>2. (\A q \in Procs : Busy(q))'
  BY DEF IInv, TypeOK, Busy, InTx, Mutating, Creating
<1>3. (\A q \in Procs : Locked(q))'
  BY DEF IInv, TypeOK, Locked, Mutates, Holding, Busy
<1>4. LockOwned'
  BY DEF IInv, TypeOK, LockOwned, Mutates, Holding, Busy
<1>5. (\A q \in Procs : Written(q))'
  <2> SUFFICES ASSUME NEW q \in Procs PROVE Written(q)'
    OBVIOUS
  <2>1. CASE q = p
    BY <2>1 DEF IInv, TypeOK, Written, Unwritten, Creates, Creating, PendingRow, Completed, Repeats, Busy, Audited
  <2>2. CASE q # p
    BY <2>2, WrittenFrame DEF IInv, TypeOK
  <2> QED BY <2>1, <2>2
<1>6. KeyExclusive'
  BY DEF IInv, TypeOK, KeyExclusive, Reserves, Busy, Written, Unwritten
<1>7. AuditExclusive'
  BY DEF IInv, TypeOK, AuditExclusive, Busy, Written, Unwritten
<1>8. CreateExclusive'
  BY DEF IInv, TypeOK, CreateExclusive, Creates, Creating, LabelTaken, Busy, Written, Unwritten
<1>9. AnswerTruthful'
  BY AnswerFrame DEF IInv, TypeOK
<1>10. AuditMatchesHistory'
  BY DEF IInv, AuditMatchesHistory
<1> QED
  BY <1>1, <1>2, <1>3, <1>4, <1>5, <1>6, <1>7, <1>8, <1>9, <1>10 DEF IInv

\* An answered slot holds nothing.
LEMMA RecycleIInv ==
  ASSUME IInv, NEW p \in Procs, Recycle(p)
  PROVE  IInv'
<1> USE DEF Recycle, GoTo, tables, txvars
<1>1. TypeOK'
  BY DEF Failure, Result, Responses, Statuses, IInv, TypeOK, Stages, InTx, Mutating, Creating, Int64, MinInt
<1>2. (\A q \in Procs : Busy(q))'
  BY DEF IInv, TypeOK, Busy, InTx, Mutating, Creating
<1>3. (\A q \in Procs : Locked(q))'
  BY DEF IInv, TypeOK, Locked, Mutates, Holding, Busy
<1>4. LockOwned'
  BY DEF IInv, TypeOK, LockOwned, Mutates, Holding, Busy
<1>5. (\A q \in Procs : Written(q))'
  <2> SUFFICES ASSUME NEW q \in Procs PROVE Written(q)'
    OBVIOUS
  <2>1. CASE q = p
    BY <2>1 DEF IInv, TypeOK, Written, Unwritten, Creates, Creating, PendingRow, Completed, Repeats, Busy, Audited
  <2>2. CASE q # p
    BY <2>2, WrittenFrame DEF IInv, TypeOK
  <2> QED BY <2>1, <2>2
<1>6. KeyExclusive'
  BY DEF IInv, TypeOK, KeyExclusive, Reserves, Busy, Written, Unwritten
<1>7. AuditExclusive'
  BY DEF IInv, TypeOK, AuditExclusive, Busy, Written, Unwritten
<1>8. CreateExclusive'
  BY DEF IInv, TypeOK, CreateExclusive, Creates, Creating, LabelTaken, Busy, Written, Unwritten
<1>9. AnswerTruthful'
  BY AnswerFrame DEF IInv, TypeOK
<1>10. AuditMatchesHistory'
  BY DEF IInv, AuditMatchesHistory
<1> QED
  BY <1>1, <1>2, <1>3, <1>4, <1>5, <1>6, <1>7, <1>8, <1>9, <1>10 DEF IInv

(* COMMIT publishes one of three things. *)

Ended(p) ==
    /\ pc[p] = "commit"
    /\ pc' \in {[pc EXCEPT ![p] = "committed"], [pc EXCEPT ![p] = "done"]}
    /\ resp' \in {resp, [resp EXCEPT ![p] = Failure("unavailable")]}
    /\ req' = req /\ target' = target
    /\ Release(p)

PublishedNothing(p) ==
    /\ req[p].kind # "create" /\ txOp[p] = NoOp /\ Repeats(p)
    /\ live' = live /\ value' = value /\ label' = label /\ ops' = ops /\ audit' = audit

PublishedMutation(p) ==
    /\ req[p].kind # "create" /\ Completed(p)
    /\ ops[req[p].tenant][req[p].key] = NoOp
    /\ Audited(req[p]) => audit[req[p].key] = NoTenant
    /\ live' = live /\ label' = label
    /\ value' = [value EXCEPT ![target[p]] = txVal[p]]
    /\ ops' = [ops EXCEPT ![req[p].tenant][req[p].key] = MutationRow(req[p], cur[p])]
    /\ audit' = IF Audited(req[p]) THEN [audit EXCEPT ![req[p].key] = req[p].tenant] ELSE audit

PublishedCounter(p) ==
    /\ req[p].kind = "create" /\ target[p] \notin live /\ ~LabelTaken(p)
    /\ live' = live \cup {target[p]}
    /\ label' = [label EXCEPT ![target[p]] = req[p].label]
    /\ value' = [value EXCEPT ![target[p]] = req[p].arg]
    /\ ops' = [ops EXCEPT ![req[p].tenant][InitialKey(target[p])] =
                   InitialRow(target[p], req[p].arg)]
    /\ audit' = audit

\* A commit publishes nothing (a replay), one whole mutation under an unused
\* key, or one whole counter with its opening row.
LEMMA CommitCases ==
  ASSUME IInv, NEW p \in Procs, pc[p] = "commit", Publish(p)
  PROVE  PublishedNothing(p) \/ PublishedMutation(p) \/ PublishedCounter(p)
<1>0. req[p] \in Requests
  BY DEF IInv, Busy
<1>1. CASE req[p].kind = "create"
  <2>1. /\ txOp[p] = InitialRow(target[p], req[p].arg) /\ txOp[p] # NoOp
        /\ txVal[p] = req[p].arg /\ writes[p] = {"row", "value"}
        /\ Creates(p)
    BY <1>0, <1>1, RequestType, InitialRowType DEF IInv, Written, Creates, Busy
  <2>2. target[p] \notin live /\ ~LabelTaken(p)
    BY <2>1 DEF IInv, CreateExclusive
  <2> QED
    BY <1>1, <2>1, <2>2 DEF Publish, TxId, PublishedCounter
<1>2. CASE req[p].kind # "create" /\ txOp[p] = NoOp
  <2>1. writes[p] = {} /\ Repeats(p)
    <3>1. Completed(p) => txOp[p] # NoOp
      BY <1>0, <1>2, MutationRowType DEF Completed, IInv, TypeOK, Locked, Mutates, Holding
    <3> QED BY <1>2, <3>1 DEF IInv, Written
  <2> QED
    BY <1>2, <2>1 DEF Publish, PublishedNothing
<1>3. CASE req[p].kind # "create" /\ txOp[p] # NoOp
  <2>1. /\ Completed(p)
        /\ writes[p] = IF Audited(req[p]) THEN {"value", "audit"} ELSE {"value"}
    BY <1>3 DEF IInv, Written
  <2>2. ops[req[p].tenant][req[p].key] = NoOp
    BY <1>3 DEF IInv, KeyExclusive, Reserves
  <2>3. Audited(req[p]) => audit[req[p].key] = NoTenant
    BY <2>1 DEF IInv, AuditExclusive
  <2>4. /\ "row" \notin writes[p] /\ "value" \in writes[p]
        /\ "audit" \in writes[p] <=> Audited(req[p])
    BY <2>1
  <2>5. txOp[p] = MutationRow(req[p], cur[p])
    BY <2>1 DEF Completed
  <2> QED
    BY <1>3, <2>1, <2>2, <2>3, <2>4, <2>5 DEF Publish, TxId, PublishedMutation
<1> QED BY <1>1, <1>2, <1>3

\* What the end of the transaction does to its own slot and to the others.
LEMMA EndedSlots ==
  ASSUME IInv, NEW p \in Procs, Ended(p)
  PROVE  /\ rowLock' \in [Counters -> Procs \cup {NoProc}]
         /\ pc' \in [Procs -> Stages]
         /\ req' \in [Procs -> Requests \cup {NoReq}]
         /\ target' \in [Procs -> Counters \cup {NoCounter}]
         /\ cur' \in [Procs -> Int64]
         /\ txVal' \in [Procs -> Int64]
         /\ txOp' \in [Procs -> OpRows \cup {NoOp}]
         /\ writes' \in [Procs -> SUBSET {"row", "value", "audit"}]
         /\ resp' \in [Procs -> Responses]
         /\ \A q \in Procs : Busy(q)'
         /\ LockOwned'
         /\ pc'[p] \in {"committed", "done"} /\ txOp'[p] = NoOp /\ writes'[p] = {}
         /\ resp'[p].status = "ok" => resp'[p] = resp[p]
         /\ \A q \in Procs : q # p =>
              /\ pc'[q] = pc[q] /\ req'[q] = req[q] /\ target'[q] = target[q]
              /\ cur'[q] = cur[q] /\ txVal'[q] = txVal[q] /\ txOp'[q] = txOp[q]
              /\ writes'[q] = writes[q] /\ resp'[q] = resp[q]
              /\ \A c \in Counters : rowLock[c] = q => rowLock'[c] = q
<1> USE DEF Ended, Release
<1>1. /\ rowLock' \in [Counters -> Procs \cup {NoProc}]
      /\ pc' \in [Procs -> Stages]
      /\ req' \in [Procs -> Requests \cup {NoReq}]
      /\ target' \in [Procs -> Counters \cup {NoCounter}]
      /\ cur' \in [Procs -> Int64]
      /\ txVal' \in [Procs -> Int64]
      /\ txOp' \in [Procs -> OpRows \cup {NoOp}]
      /\ writes' \in [Procs -> SUBSET {"row", "value", "audit"}]
  BY DEF IInv, TypeOK, Stages, Int64, MinInt
<1>2. resp' \in [Procs -> Responses]
  <2>1. Failure("unavailable") \in Responses
    BY DEF Failure, Result, Responses, Statuses, Int64, MinInt
  <2> QED BY <2>1 DEF IInv, TypeOK
<1>3. \A q \in Procs : Busy(q)'
  BY DEF IInv, TypeOK, Busy, Mutating, Creating
<1>4. LockOwned'
  BY DEF IInv, TypeOK, LockOwned, Mutates, Holding
<1>5. /\ pc'[p] \in {"committed", "done"} /\ txOp'[p] = NoOp /\ writes'[p] = {}
      /\ resp'[p].status = "ok" => resp'[p] = resp[p]
  BY DEF IInv, TypeOK, Failure, Result
<1>6. \A q \in Procs : q # p =>
              /\ pc'[q] = pc[q] /\ req'[q] = req[q] /\ target'[q] = target[q]
              /\ cur'[q] = cur[q] /\ txVal'[q] = txVal[q] /\ txOp'[q] = txOp[q]
              /\ writes'[q] = writes[q] /\ resp'[q] = resp[q]
              /\ \A c \in Counters : rowLock[c] = q => rowLock'[c] = q
  BY DEF IInv, TypeOK
<1> QED BY <1>1, <1>2, <1>3, <1>4, <1>5, <1>6

\* Ending a transaction that creates no counter leaves the creations alone.
LEMMA CreateFrame ==
  ASSUME IInv, NEW p \in Procs, Ended(p), live' = live, label' = label
  PROVE  CreateExclusive'
<1>1. \A x \in Procs : Creates(x)' => x # p /\ Creates(x) /\ target'[x] = target[x]
  BY EndedSlots DEF Creates, Creating
<1>2. \A x \in Procs : "row" \in writes'[x] => x # p /\ "row" \in writes[x] /\ req'[x] = req[x]
  BY EndedSlots
<1>3. \A x \in Procs : req'[x] = req[x] => (LabelTaken(x)' <=> LabelTaken(x))
  BY DEF LabelTaken
<1> QED
  BY <1>1, <1>2, <1>3 DEF IInv, CreateExclusive

\* An answered mutation repeats its row.
LEMMA AnswerRepeats ==
  ASSUME AnswerTruthful, NEW q \in Procs, pc[q] \in {"committed", "done"},
         resp[q].status = "ok", req[q].kind # "create"
  PROVE  Repeats(q)
  BY DEF AnswerTruthful, Repeats

\* Ending a replay publishes nothing.
LEMMA PublishedNothingIInv ==
  ASSUME IInv, NEW p \in Procs, Ended(p), PublishedNothing(p)
  PROVE  IInv'
<1> USE DEF PublishedNothing
<1>1. TypeOK'
  BY EndedSlots DEF IInv, TypeOK
<1>2. (\A q \in Procs : Locked(q))'
  <2> SUFFICES ASSUME NEW q \in Procs, Mutates(q)' PROVE Locked(q)'
    BY DEF Locked
  <2>1. q # p /\ Mutates(q)
    BY EndedSlots DEF Mutates, Holding
  <2>2. target[q] \in Counters
    BY <2>1 DEF IInv, Busy, Mutates, Holding
  <2> QED
    BY <2>1, <2>2, EndedSlots DEF IInv, Locked
<1>3. (\A q \in Procs : Written(q))'
  <2> SUFFICES ASSUME NEW q \in Procs PROVE Written(q)'
    OBVIOUS
  <2>1. CASE q = p
    BY <2>1, EndedSlots DEF Written, Unwritten, Creates, Creating
  <2>2. CASE q # p
    BY <2>2, EndedSlots, WrittenFrame DEF IInv
  <2> QED BY <2>1, <2>2
<1>4. KeyExclusive'
  <2>1. \A q \in Procs : Reserves(q)' => Reserves(q) /\ req'[q] = req[q]
    BY EndedSlots DEF Reserves
  <2>2. KeyExclusive /\ ops' = ops
    BY DEF IInv
  <2> QED BY <2>1, <2>2 DEF KeyExclusive
<1>5. AuditExclusive'
  <2>1. \A q \in Procs : "audit" \in writes'[q] => "audit" \in writes[q] /\ req'[q] = req[q]
    BY EndedSlots
  <2>2. AuditExclusive /\ audit' = audit
    BY DEF IInv
  <2> QED BY <2>1, <2>2 DEF AuditExclusive
<1>6. CreateExclusive'
  BY CreateFrame
<1>7. AnswerTruthful'
  <2> SUFFICES ASSUME NEW q \in Procs, pc'[q] \in {"committed", "done"},
                      resp'[q].status = "ok", req'[q].kind # "create"
               PROVE  Repeats(q)'
    BY DEF AnswerTruthful, Repeats
  <2>1. Repeats(q) /\ req'[q] = req[q] /\ resp'[q] = resp[q]
    <3>1. CASE q = p
      BY <3>1, EndedSlots DEF Ended
    <3>2. CASE q # p
      <4>1. pc[q] = pc'[q] /\ req'[q] = req[q] /\ resp'[q] = resp[q]
        BY <3>2, EndedSlots
      <4>2. AnswerTruthful
        BY DEF IInv
      <4>3. Repeats(q)
        BY <4>1, <4>2, AnswerRepeats
      <4> QED BY <4>1, <4>3
    <3> QED BY <3>1, <3>2
  <2> QED BY <2>1 DEF Repeats
<1>8. AuditMatchesHistory'
  BY DEF IInv, AuditMatchesHistory
<1> QED
  BY <1>1, <1>2, <1>3, <1>4, <1>5, <1>6, <1>7, <1>8, EndedSlots DEF IInv

\* Publishing a mutation moves one counter, which nobody else has locked, and
\* fills one key, which nobody else has reserved.
LEMMA PublishedMutationIInv ==
  ASSUME IInv, NEW p \in Procs, Ended(p), PublishedMutation(p)
  PROVE  IInv'
<1>0. /\ req[p] \in Requests /\ target[p] \in Counters
      /\ req[p].tenant \in Tenants /\ req[p].key \in Keys /\ req[p].key \in OpIds
      /\ MutationRow(req[p], cur[p]) \in OpRows /\ MutationRow(req[p], cur[p]) # NoOp
      /\ txVal[p] \in Int64
      /\ rowLock[target[p]] = p /\ Mutates(p)
      /\ txOp[p] # NoOp
  BY RequestType, MutationRowType
  DEF Ended, PublishedMutation, Completed, IInv, TypeOK, Busy, Locked, Mutates, Holding
<1>a. /\ \A t \in Tenants, k \in OpIds : ops[t][k] # NoOp => ops'[t][k] = ops[t][k]
      /\ \A t \in Tenants, k \in OpIds :
            t # req[p].tenant \/ k # req[p].key => ops'[t][k] = ops[t][k]
      /\ ops'[req[p].tenant][req[p].key] = MutationRow(req[p], cur[p])
      /\ ops' \in [Tenants -> [OpIds -> OpRows \cup {NoOp}]]
  BY <1>0 DEF PublishedMutation, IInv, TypeOK
<1>1. TypeOK'
  BY <1>0, <1>a, EndedSlots DEF PublishedMutation, IInv, TypeOK
<1>2. (\A q \in Procs : Locked(q))'
  <2> SUFFICES ASSUME NEW q \in Procs, Mutates(q)' PROVE Locked(q)'
    BY DEF Locked
  <2>1. q # p /\ Mutates(q)
    BY EndedSlots DEF Mutates, Holding
  <2>2. target[q] # target[p]
    BY <1>0, <2>1 DEF IInv, Locked
  <2>3. target[q] \in Counters
    BY <2>1 DEF IInv, Busy, Mutates, Holding
  <2>4. value'[target[q]] = value[target[q]]
    BY <1>0, <2>2, <2>3 DEF PublishedMutation, IInv, TypeOK
  <2> QED
    BY <2>1, <2>3, <2>4, EndedSlots DEF PublishedMutation, IInv, Locked
<1>3. (\A q \in Procs : Written(q))'
  <2> SUFFICES ASSUME NEW q \in Procs PROVE Written(q)'
    OBVIOUS
  <2>1. CASE q = p
    BY <2>1, EndedSlots DEF Written, Unwritten, Creates, Creating
  <2>2. CASE q # p /\ pc[q] # "idle"
    <3>1. req[q].tenant \in Tenants /\ req[q].key \in OpIds
      BY <2>2, RequestType DEF IInv, Busy
    <3>2. ops[req[q].tenant][req[q].key] # NoOp =>
             ops'[req[q].tenant][req[q].key] = ops[req[q].tenant][req[q].key]
      BY <3>1, <1>a
    <3>3. Written(q)
      BY DEF IInv
    <3>4. /\ pc'[q] = pc[q] /\ req'[q] = req[q] /\ target'[q] = target[q]
          /\ cur'[q] = cur[q] /\ txVal'[q] = txVal[q] /\ txOp'[q] = txOp[q]
          /\ writes'[q] = writes[q] /\ resp'[q] = resp[q]
      BY <2>2, EndedSlots
    <3> QED
      BY <3>2, <3>3, <3>4, WrittenFrame
  <2>3. CASE q # p /\ pc[q] = "idle"
    BY <2>3, EndedSlots DEF IInv, Written, Unwritten, Creates, Creating
  <2> QED BY <2>1, <2>2, <2>3
<1>4. KeyExclusive'
  <2> SUFFICES ASSUME NEW q \in Procs, Reserves(q)'
               PROVE  /\ ops'[req'[q].tenant][req'[q].key] = NoOp
                      /\ \A x \in Procs : x # q /\ Reserves(x)' /\ req'[x].tenant = req'[q].tenant
                                          => req'[x].key # req'[q].key
    BY DEF KeyExclusive
  <2>1. \A x \in Procs : Reserves(x)' => x # p /\ Reserves(x) /\ req'[x] = req[x]
    BY EndedSlots DEF Reserves
  <2>2. Reserves(p)
    BY <1>0 DEF Reserves, Mutates
  <2>3. req[q].tenant # req[p].tenant \/ req[q].key # req[p].key
    BY <2>1, <2>2 DEF IInv, KeyExclusive
  <2>4. req[q].tenant \in Tenants /\ req[q].key \in OpIds
    BY <2>1, RequestType DEF IInv, Busy, Reserves, Written, Unwritten
  <2>5. ops'[req[q].tenant][req[q].key] = NoOp
    BY <1>a, <2>1, <2>3, <2>4 DEF IInv, KeyExclusive
  <2>6. \A x \in Procs : x # q /\ Reserves(x) /\ req[x].tenant = req[q].tenant
                          => req[x].key # req[q].key
    BY <2>1 DEF IInv, KeyExclusive
  <2> QED
    BY <2>1, <2>5, <2>6
<1>5. AuditExclusive'
  <2> SUFFICES ASSUME NEW q \in Procs, "audit" \in writes'[q]
               PROVE  /\ audit'[req'[q].key] = NoTenant
                      /\ \A x \in Procs : x # q /\ "audit" \in writes'[x]
                                          => req'[x].key # req'[q].key
    BY DEF AuditExclusive
  <2>1. \A x \in Procs : "audit" \in writes'[x] =>
             x # p /\ "audit" \in writes[x] /\ req'[x] = req[x]
    BY EndedSlots
  <2>2. Audited(req[p]) => "audit" \in writes[p]
    BY <1>0 DEF IInv, Written, Ended, Mutates
  <2>3. audit'[req[q].key] = audit[req[q].key]
    <3>1. CASE Audited(req[p])
      BY <3>1, <2>1, <2>2, <1>0 DEF IInv, TypeOK, AuditExclusive, PublishedMutation
    <3>2. CASE ~Audited(req[p])
      BY <3>2 DEF PublishedMutation
    <3> QED BY <3>1, <3>2
  <2> QED
    BY <2>1, <2>3 DEF IInv, AuditExclusive
<1>6. CreateExclusive'
  BY CreateFrame DEF PublishedMutation
<1>7. AnswerTruthful'
  <2> SUFFICES ASSUME NEW q \in Procs, pc'[q] \in {"committed", "done"},
                      resp'[q].status = "ok", req'[q].kind # "create"
               PROVE  Repeats(q)'
    BY DEF AnswerTruthful, Repeats
  <2>1. CASE q = p
    <3>1. req'[p] = req[p] /\ resp'[p] = resp[p]
      BY <2>1, EndedSlots DEF Ended
    <3>2. resp[p] = Result("ok", DeltaOf(req[p], cur[p]), cur[p] + DeltaOf(req[p], cur[p]), FALSE)
      BY DEF PublishedMutation, Completed
    <3>3. /\ MutationRow(req[p], cur[p]).state = "completed"
          /\ MutationRow(req[p], cur[p]).hash = RequestHash(req[p])
          /\ MutationRow(req[p], cur[p]).counter = req[p].counter
          /\ MutationRow(req[p], cur[p]).delta = resp[p].delta
          /\ MutationRow(req[p], cur[p]).after = resp[p].value
      BY <3>2 DEF MutationRow, Result
    <3> QED
      BY <2>1, <3>1, <3>3, <1>0, <1>a DEF Repeats, RequestHash
  <2>2. CASE q # p
    <3>1. Repeats(q)
      BY <2>2, EndedSlots DEF IInv, AnswerTruthful, Repeats
    <3>2. req[q].tenant \in Tenants /\ req[q].key \in OpIds
      BY <2>2, RequestType, EndedSlots DEF IInv, Busy
    <3> QED
      BY <2>2, <3>1, <3>2, <1>a, EndedSlots DEF Repeats
  <2> QED BY <2>1, <2>2
<1>8. AuditMatchesHistory'
  <2> SUFFICES ASSUME NEW t \in Tenants, NEW k \in Keys
               PROVE  audit'[k] = t <=> /\ ops'[t][k] # NoOp
                                        /\ ops'[t][k].kind = "set_adjustment"
                                        /\ ops'[t][k].actor # "anonymous"
    BY DEF AuditMatchesHistory
  <2>0. k \in OpIds /\ (audit[k] = t <=> /\ ops[t][k] # NoOp
                                         /\ ops[t][k].kind = "set_adjustment"
                                         /\ ops[t][k].actor # "anonymous")
    BY DEF IInv, AuditMatchesHistory, OpIds
  <2>1. CASE k # req[p].key
    BY <2>0, <2>1, <1>0, <1>a DEF PublishedMutation, IInv, TypeOK
  <2>2. CASE k = req[p].key /\ t # req[p].tenant
    BY <2>0, <2>2, <1>0, <1>a DEF PublishedMutation, IInv, TypeOK
  <2>3. CASE k = req[p].key /\ t = req[p].tenant
    <3>1. /\ MutationRow(req[p], cur[p]).kind = req[p].kind
          /\ MutationRow(req[p], cur[p]).actor = req[p].actor
      BY DEF MutationRow
    <3> QED
      BY <2>0, <2>3, <3>1, <1>0, <1>a DEF PublishedMutation, IInv, TypeOK, Audited
  <2> QED BY <2>1, <2>2, <2>3
<1> QED
  BY <1>1, <1>2, <1>3, <1>4, <1>5, <1>6, <1>7, <1>8, EndedSlots DEF IInv

\* Publishing a counter adds an id nobody else creates or has locked, a label
\* nobody else uses, and an opening row.
LEMMA PublishedCounterIInv ==
  ASSUME IInv, NEW p \in Procs, Ended(p), PublishedCounter(p)
  PROVE  IInv'
<1>0. /\ req[p] \in Requests /\ target[p] \in Counters
      /\ req[p].tenant \in Tenants /\ req[p].label \in Labels /\ req[p].arg \in Int64
      /\ InitialKey(target[p]) \in OpIds /\ InitialKey(target[p]) \notin Keys
      /\ InitialRow(target[p], req[p].arg) \in OpRows
      /\ Creates(p) /\ Owner[target[p]] = req[p].tenant
      /\ "row" \in writes[p]
  BY RequestType, InitialRowType
  DEF Ended, PublishedCounter, IInv, Busy, Creates, OpIds, Written
<1>a. /\ \A t \in Tenants, k \in Keys : ops'[t][k] = ops[t][k]
      /\ ops' \in [Tenants -> [OpIds -> OpRows \cup {NoOp}]]
  <2>1. ops \in [Tenants -> [OpIds -> OpRows \cup {NoOp}]]
    BY DEF IInv, TypeOK
  <2>2. ops' = [ops EXCEPT ![req[p].tenant][InitialKey(target[p])]
                          = InitialRow(target[p], req[p].arg)]
    BY DEF PublishedCounter
  <2>3. ops' \in [Tenants -> [OpIds -> OpRows \cup {NoOp}]]
    BY <1>0, <2>1, <2>2
  <2>4. ASSUME NEW t \in Tenants, NEW k \in Keys PROVE ops'[t][k] = ops[t][k]
    <3>1. k \in OpIds /\ k # InitialKey(target[p])
      BY <1>0 DEF OpIds
    <3> QED BY <1>0, <2>1, <2>2, <3>1
  <2> QED BY <2>3, <2>4
<1>1. TypeOK'
  BY <1>0, <1>a, EndedSlots DEF PublishedCounter, IInv, TypeOK
<1>2. (\A q \in Procs : Locked(q))'
  <2> SUFFICES ASSUME NEW q \in Procs, Mutates(q)' PROVE Locked(q)'
    BY DEF Locked
  <2>1. q # p /\ Mutates(q)
    BY EndedSlots DEF Mutates, Holding
  <2>2. target[q] \in live /\ target[q] # target[p]
    BY <2>1 DEF IInv, Locked, PublishedCounter
  <2>3. target[q] \in Counters
    BY <2>1 DEF IInv, Busy, Mutates, Holding
  <2>4. value'[target[q]] = value[target[q]]
    BY <1>0, <2>2, <2>3 DEF PublishedCounter, IInv, TypeOK
  <2> QED
    BY <2>1, <2>2, <2>3, <2>4, EndedSlots DEF PublishedCounter, IInv, Locked
<1>3. (\A q \in Procs : Written(q))'
  <2> SUFFICES ASSUME NEW q \in Procs PROVE Written(q)'
    OBVIOUS
  <2>1. CASE q = p
    BY <2>1, EndedSlots DEF Written, Unwritten, Creates, Creating
  <2>2. CASE q # p /\ pc[q] # "idle"
    <3>1. req[q].tenant \in Tenants /\ req[q].key \in Keys
      BY <2>2, RequestType DEF IInv, Busy
    <3>2. ops'[req[q].tenant][req[q].key] = ops[req[q].tenant][req[q].key]
      BY <3>1, <1>a
    <3>3. Written(q)
      BY DEF IInv
    <3>4. /\ pc'[q] = pc[q] /\ req'[q] = req[q] /\ target'[q] = target[q]
          /\ cur'[q] = cur[q] /\ txVal'[q] = txVal[q] /\ txOp'[q] = txOp[q]
          /\ writes'[q] = writes[q] /\ resp'[q] = resp[q]
      BY <2>2, EndedSlots
    <3> QED
      BY <3>2, <3>3, <3>4, WrittenFrame
  <2>3. CASE q # p /\ pc[q] = "idle"
    BY <2>3, EndedSlots DEF IInv, Written, Unwritten, Creates, Creating
  <2> QED BY <2>1, <2>2, <2>3
<1>4. KeyExclusive'
  <2> SUFFICES ASSUME NEW q \in Procs, Reserves(q)'
               PROVE  /\ ops'[req'[q].tenant][req'[q].key] = NoOp
                      /\ \A x \in Procs : x # q /\ Reserves(x)' /\ req'[x].tenant = req'[q].tenant
                                          => req'[x].key # req'[q].key
    BY DEF KeyExclusive
  <2>1. \A x \in Procs : Reserves(x)' => x # p /\ Reserves(x) /\ req'[x] = req[x]
    BY EndedSlots DEF Reserves
  <2>2. req[q].tenant \in Tenants /\ req[q].key \in Keys
    BY <2>1, RequestType DEF IInv, Busy, Reserves, Written, Unwritten
  <2>3. ops'[req[q].tenant][req[q].key] = NoOp
    BY <1>a, <2>1, <2>2 DEF IInv, KeyExclusive
  <2>4. \A x \in Procs : x # q /\ Reserves(x) /\ req[x].tenant = req[q].tenant
                          => req[x].key # req[q].key
    BY <2>1 DEF IInv, KeyExclusive
  <2> QED
    BY <2>1, <2>3, <2>4
<1>5. AuditExclusive'
  <2>1. \A x \in Procs : "audit" \in writes'[x] =>
             x # p /\ "audit" \in writes[x] /\ req'[x] = req[x]
    BY EndedSlots
  <2>2. audit' = audit
    BY DEF PublishedCounter
  <2> QED
    BY <2>1, <2>2 DEF IInv, AuditExclusive
<1>6. CreateExclusive'
  <2>1. \A x \in Procs : Creates(x)' => x # p /\ Creates(x) /\ target'[x] = target[x]
    BY EndedSlots DEF Creates, Creating
  <2>2. \A x \in Procs : "row" \in writes'[x] => x # p /\ "row" \in writes[x] /\ req'[x] = req[x]
    BY EndedSlots
  <2>3. \A x \in Procs : Creates(x) /\ x # p => target[x] \notin live'
    BY <1>0 DEF IInv, CreateExclusive, PublishedCounter
  <2>4. ASSUME NEW x \in Procs, x # p, "row" \in writes[x], req'[x] = req[x]
        PROVE  ~LabelTaken(x)'
    <3>1. ~LabelTaken(x) /\ (req[x].tenant = req[p].tenant => req[x].label # req[p].label)
      BY <1>0, <2>4 DEF IInv, CreateExclusive
    <3>2. label'[target[p]] = req[p].label
      BY <1>0 DEF PublishedCounter, IInv, TypeOK
    <3>3. \A d \in live : label'[d] = label[d]
      BY <1>0 DEF PublishedCounter, IInv, TypeOK
    <3> QED
      BY <1>0, <2>4, <3>1, <3>2, <3>3 DEF LabelTaken, PublishedCounter
  <2> QED
    BY <2>1, <2>2, <2>3, <2>4 DEF IInv, CreateExclusive
<1>7. AnswerTruthful'
  <2> SUFFICES ASSUME NEW q \in Procs, pc'[q] \in {"committed", "done"},
                      resp'[q].status = "ok", req'[q].kind # "create"
               PROVE  Repeats(q)'
    BY DEF AnswerTruthful, Repeats
  <2>1. q # p
    BY DEF Ended, PublishedCounter
  <2>2. Repeats(q)
    BY <2>1, EndedSlots DEF IInv, AnswerTruthful, Repeats
  <2>3. req[q].tenant \in Tenants /\ req[q].key \in Keys
    BY <2>1, RequestType, EndedSlots DEF IInv, Busy
  <2>4. req'[q] = req[q] /\ resp'[q] = resp[q]
    BY <2>1, EndedSlots
  <2>5. ops'[req[q].tenant][req[q].key] = ops[req[q].tenant][req[q].key]
    BY <2>3, <1>a
  <2> QED
    BY <2>2, <2>4, <2>5 DEF Repeats
<1>8. AuditMatchesHistory'
  BY <1>a DEF IInv, AuditMatchesHistory, PublishedCounter
<1> QED
  BY <1>1, <1>2, <1>3, <1>4, <1>5, <1>6, <1>7, <1>8, EndedSlots DEF IInv

\* Both endings of a commit are endings in that sense.
LEMMA CommitIInv ==
  ASSUME IInv, NEW p \in Procs, Commit(p) \/ CommitUnacknowledged(p)
  PROVE  IInv'
<1>1. Ended(p) /\ Publish(p)
  BY DEF Commit, CommitUnacknowledged, Publish, GoTo, Ended
<1>2. pc[p] = "commit"
  BY DEF Commit, CommitUnacknowledged
<1> QED
  BY <1>1, <1>2, CommitCases, PublishedNothingIInv, PublishedMutationIInv, PublishedCounterIInv

\* The refusals and the failures: every one rolls its transaction back.
LEMMA RollbackIInv ==
  ASSUME IInv, NEW p \in Procs,
         \/ LockMissing(p) \/ SetOutOfRange(p) \/ ResolveRefuse(p) \/ IncrementRefused(p)
         \/ AuditClash(p) \/ InsertConflict(p) \/ Fail(p)
  PROVE  IInv'
<1>1. \E s \in Statuses \ {"ok"} : pc[p] \in InTx /\ Abort(p, s)
  <2>1. CASE LockMissing(p)
    BY <2>1 DEF LockMissing, Statuses, InTx, Mutating
  <2>2. CASE SetOutOfRange(p)
    BY <2>2 DEF SetOutOfRange, Statuses, InTx, Mutating
  <2>3. CASE ResolveRefuse(p)
    <3>1. ResolveStatus(req[p], ops[req[p].tenant][req[p].key]) \in {"ok", "reused", "in_progress"}
      BY DEF ResolveStatus
    <3> QED
      BY <2>3, <3>1 DEF ResolveRefuse, Statuses, InTx, Mutating
  <2>4. CASE IncrementRefused(p)
    <3>1. IncrementFault(req[p], cur[p]) \in {"none", "delta_exceeds", "overflow"}
      BY DEF IncrementFault
    <3> QED
      BY <2>4, <3>1 DEF IncrementRefused, Statuses, InTx, Mutating
  <2>5. CASE AuditClash(p)
    BY <2>5 DEF AuditClash, Statuses, InTx, Mutating
  <2>6. CASE InsertConflict(p)
    BY <2>6 DEF InsertConflict, Statuses, InTx, Creating
  <2>7. CASE Fail(p)
    BY <2>7 DEF Fail, Statuses
  <2> QED BY <2>1, <2>2, <2>3, <2>4, <2>5, <2>6, <2>7
<1> QED BY <1>1, AbortIInv

LEMMA StutterIInv == IInv /\ UNCHANGED vars => IInv'
<1> SUFFICES ASSUME IInv, UNCHANGED vars PROVE IInv'
  OBVIOUS
<1> USE DEF vars, IInv
<1>1. TypeOK'
  BY DEF TypeOK
<1>2. (\A p \in Procs : Busy(p))' /\ (\A p \in Procs : Locked(p))'
  BY DEF Busy, Locked, Mutates
<1>3. LockOwned'
  BY DEF LockOwned, Mutates
<1>4. (\A p \in Procs : Written(p))'
  BY WrittenFrame
<1>5. KeyExclusive' /\ AuditExclusive'
  BY DEF KeyExclusive, Reserves, AuditExclusive
<1>6. CreateExclusive'
  BY DEF CreateExclusive, Creates, LabelTaken
<1>7. AnswerTruthful' /\ AuditMatchesHistory'
  BY DEF AnswerTruthful, AuditMatchesHistory
<1> QED BY <1>1, <1>2, <1>3, <1>4, <1>5, <1>6, <1>7

\* Every step of every process keeps the invariant.
LEMMA NextIInv == IInv /\ [Next]_vars => IInv'
<1> SUFFICES ASSUME IInv, [Next]_vars PROVE IInv'
  OBVIOUS
<1>1. CASE UNCHANGED vars
  BY <1>1, StutterIInv
<1>2. ASSUME NEW p \in Procs, NEW r \in Requests, StartMutation(p, r) \/ StartCreate(p, r)
      PROVE  IInv'
  BY <1>2, StartMutationIInv, StartCreateIInv
<1>3. ASSUME NEW p \in Procs, Advance(p)
      PROVE  IInv'
  <2>1. CASE \/ LockMissing(p) \/ SetOutOfRange(p) \/ ResolveRefuse(p) \/ IncrementRefused(p)
             \/ AuditClash(p) \/ InsertConflict(p)
    BY <2>1, RollbackIInv
  <2>2. CASE LockCounter(p) \/ Reserve(p) \/ ResolveReplay(p) \/ UpdateCounter(p)
    BY <2>2, LockCounterIInv, ReserveIInv, ResolveReplayIInv, UpdateCounterIInv
  <2>3. CASE CompleteOperation(p) \/ AuditSet(p) \/ InsertCounter(p) \/ RecordInitial(p)
    BY <2>3, CompleteOperationIInv, AuditSetIInv, InsertCounterIInv, RecordInitialIInv
  <2>4. CASE Commit(p) \/ Respond(p)
    BY <2>4, CommitIInv, RespondIInv
  <2> QED BY <1>3, <2>1, <2>2, <2>3, <2>4 DEF Advance
<1>4. ASSUME NEW p \in Procs, Fail(p) \/ CommitUnacknowledged(p) \/ Recycle(p)
      PROVE  IInv'
  BY <1>4, RollbackIInv, CommitIInv, RecycleIInv
<1> QED BY <1>1, <1>2, <1>3, <1>4 DEF Next

LEMMA Invariance == Spec => []IInv
  BY InitIInv, NextIInv, PTL DEF Spec

\* Type correctness: in particular every committed value, delta and answer is
\* an int64, so the additions of incrementCounter and
\* setCounterValueWithOperation never wrap.
THEOREM TypeCorrect == Spec => []TypeOK
<1>1. IInv => TypeOK
  BY DEF IInv
<1> QED BY <1>1, Invariance, PTL

\* A success answer repeats the committed operation of its key.
THEOREM Truthful == Spec => []AnswerTruthful
<1>1. IInv => AnswerTruthful
  BY DEF IInv
<1> QED BY <1>1, Invariance, PTL

\* The audit trail has exactly the sets by known actors.
THEOREM AuditCorrect == Spec => []AuditMatchesHistory
<1>1. IInv => AuditMatchesHistory
  BY DEF IInv
<1> QED BY <1>1, Invariance, PTL

\* Whom a request can wait for: the holder is always at a later statement, in
\* the order lock and insert, reserve, audit, the rest.
LEMMA WaitsForLater ==
  ASSUME IInv, NEW p \in Procs, NEW q \in Procs, WaitsFor(p, q)
  PROVE  /\ pc[p] \in {"lock", "insert", "reserve", "audit"}
         /\ pc[q] \notin {"lock", "insert"}
         /\ pc[p] \in {"reserve", "audit"} => pc[q] # "reserve"
         /\ pc[p] = "audit" => pc[q] # "audit"
<1>1. txOp[q] # NoOp => pc[q] \notin {"lock", "insert", "reserve"}
  BY DEF IInv, Written, Unwritten
<1>2. writes[q] # {} => pc[q] \notin {"lock", "insert", "reserve"}
  BY DEF IInv, Written, Unwritten
<1>3. "audit" \in writes[q] => pc[q] # "audit"
  BY DEF IInv, Written
<1>4. CASE pc[p] = "lock" /\ Visible(p) /\ HoldsCounter(q, target[p])
  <2>1. target[p] \in Counters
    BY <1>4 DEF IInv, Busy
  <2>2. rowLock[target[p]] = q => pc[q] \in Holding
    BY <2>1 DEF IInv, LockOwned, Mutates
  <2> QED BY <1>1, <1>4, <2>2 DEF HoldsCounter, Holding
<1>5. CASE pc[p] = "reserve" /\ HoldsKey(q, req[p].tenant, req[p].key)
  BY <1>1, <1>5 DEF HoldsKey
<1>6. CASE pc[p] = "audit" /\ HoldsAudit(q, req[p].key)
  BY <1>2, <1>3, <1>6 DEF HoldsAudit
<1>7. CASE pc[p] = "insert" /\ HoldsLabel(q, req[p].tenant, req[p].label)
  BY <1>2, <1>7 DEF HoldsLabel
<1> QED BY <1>4, <1>5, <1>6, <1>7 DEF WaitsFor

\* No set of requests waits in a cycle, whatever their number.
THEOREM DeadlockFree == Spec => []NoWaitCycle
<1>1. IInv => NoWaitCycle
  <2> SUFFICES ASSUME IInv, NEW S \in SUBSET Procs, S # {}
               PROVE  \E p \in S : \A q \in S : ~WaitsFor(p, q)
    BY DEF NoWaitCycle
  <2>1. CASE \E p \in S : pc[p] \notin {"lock", "insert", "reserve", "audit"}
    BY <2>1, WaitsForLater
  <2>2. CASE /\ \A p \in S : pc[p] \in {"lock", "insert", "reserve", "audit"}
             /\ \E p \in S : pc[p] = "audit"
    BY <2>2, WaitsForLater
  <2>3. CASE /\ \A p \in S : pc[p] \in {"lock", "insert", "reserve"}
             /\ \E p \in S : pc[p] = "reserve"
    BY <2>3, WaitsForLater
  <2>4. CASE \A p \in S : pc[p] \in {"lock", "insert"}
    BY <2>4, WaitsForLater
  <2> QED BY <2>1, <2>2, <2>3, <2>4
<1> QED BY <1>1, Invariance, PTL

-----------------------------------------------------------------------------
(* The store implements the ledger: a committed transaction is one atomic  *)
(* step of CounterLedger, everything else leaves the tables alone.         *)

LEMMA MutationPosts ==
  ASSUME IInv, NEW p \in Procs, Ended(p), PublishedMutation(p)
  PROVE  req[p] \in Requests /\ Ledger!Post(req[p])
<1>1. /\ req[p] \in Requests /\ target[p] = req[p].counter /\ Mutates(p)
      /\ cur[p] \in Int64
  BY DEF Ended, PublishedMutation, IInv, TypeOK, Busy, Mutates, Holding
<1>2. /\ req[p].counter \in live /\ Owner[req[p].counter] = req[p].tenant
      /\ cur[p] = value[req[p].counter]
      /\ DeltaOf(req[p], cur[p]) \in Int64
  BY <1>1 DEF IInv, Locked
<1>3. txVal[p] = cur[p] + DeltaOf(req[p], cur[p]) /\ txVal[p] \in Int64
  BY DEF PublishedMutation, Completed, IInv, TypeOK
<1>4. /\ MutationRow(req[p], cur[p]).delta = DeltaOf(req[p], cur[p])
      /\ MutationRow(req[p], cur[p]).after = txVal[p]
  BY <1>3 DEF MutationRow
<1>5. req[p].kind = "increment" => req[p].arg <= MaxDelta[req[p].counter]
  <2>1. IncrementFault(req[p], cur[p]) = "none"
    BY DEF PublishedMutation, Completed
  <2>2. req[p].arg \in Int64 /\ MaxDelta[req[p].counter] \in Int
    BY <1>1, RequestType
  <2> QED BY <2>1, <2>2 DEF IncrementFault, Int64, MinInt
<1>6. Ledger!MutationRow(req[p], value[req[p].counter]) = MutationRow(req[p], cur[p])
  BY <1>2 DEF Ledger!MutationRow, MutationRow, Ledger!DeltaOf, DeltaOf,
              Ledger!RequestHash, RequestHash
<1>7. Ledger!Int64 = Int64
  BY DEF Ledger!Int64, Int64, Ledger!MinInt, MinInt
<1> QED
  BY <1>1, <1>2, <1>3, <1>4, <1>5, <1>6, <1>7 DEF Ledger!Post, PublishedMutation, Audited

LEMMA CounterOpens ==
  ASSUME IInv, NEW p \in Procs, Ended(p), PublishedCounter(p)
  PROVE  req[p] \in Requests /\ target[p] \in Counters /\ Ledger!Open(target[p], req[p])
<1>1. /\ req[p] \in Requests /\ target[p] \in Counters
      /\ Owner[target[p]] = req[p].tenant
  BY DEF Ended, PublishedCounter, IInv, Busy
<1>2. /\ Ledger!InitialKey(target[p]) = InitialKey(target[p])
      /\ Ledger!InitialRow(target[p], req[p].arg) = InitialRow(target[p], req[p].arg)
  BY DEF Ledger!InitialKey, InitialKey, Ledger!InitialRow, InitialRow,
         Ledger!InitialHash, InitialHash
<1> QED
  BY <1>1, <1>2 DEF Ledger!Open, PublishedCounter, LabelTaken

LEMMA StepImplements == IInv /\ [Next]_vars => [Ledger!Next]_(Ledger!lvars)
<1> SUFFICES ASSUME IInv, [Next]_vars PROVE [Ledger!Next]_(Ledger!lvars)
  OBVIOUS
<1> USE DEF Ledger!lvars
<1>1. CASE UNCHANGED vars
  BY <1>1 DEF vars
<1>2. ASSUME NEW p \in Procs, NEW r \in Requests, StartMutation(p, r) \/ StartCreate(p, r)
      PROVE  UNCHANGED Ledger!lvars
  BY <1>2 DEF StartMutation, StartCreate, tables
<1>3. ASSUME NEW p \in Procs, Commit(p) \/ CommitUnacknowledged(p)
      PROVE  Ledger!Next \/ UNCHANGED Ledger!lvars
  <2>1. Ended(p) /\ Publish(p) /\ pc[p] = "commit"
    BY <1>3 DEF Commit, CommitUnacknowledged, Publish, GoTo, Ended
  <2>2. CASE PublishedNothing(p)
    BY <2>2 DEF PublishedNothing
  <2>3. CASE PublishedMutation(p)
    BY <2>1, <2>3, MutationPosts DEF Ledger!Next
  <2>4. CASE PublishedCounter(p)
    BY <2>1, <2>4, CounterOpens DEF Ledger!Next
  <2> QED BY <2>1, <2>2, <2>3, <2>4, CommitCases
<1>4. ASSUME NEW p \in Procs, Fail(p) \/ Recycle(p)
      PROVE  UNCHANGED Ledger!lvars
  BY <1>4 DEF Fail, Abort, Recycle, tables
<1>5. ASSUME NEW p \in Procs, Advance(p), ~Commit(p)
      PROVE  UNCHANGED Ledger!lvars
  <2>1. CASE \/ LockMissing(p) \/ SetOutOfRange(p) \/ ResolveRefuse(p) \/ IncrementRefused(p)
             \/ AuditClash(p) \/ InsertConflict(p)
    BY <2>1 DEF LockMissing, SetOutOfRange, ResolveRefuse, IncrementRefused, AuditClash,
                InsertConflict, Abort
  <2>2. CASE LockCounter(p) \/ Reserve(p) \/ ResolveReplay(p) \/ UpdateCounter(p)
    BY <2>2 DEF LockCounter, Reserve, ResolveReplay, UpdateCounter, tables
  <2>3. CASE \/ CompleteOperation(p) \/ AuditSet(p) \/ InsertCounter(p) \/ RecordInitial(p)
             \/ Respond(p)
    BY <2>3 DEF CompleteOperation, AuditSet, InsertCounter, RecordInitial, Respond, tables
  <2> QED BY <1>5, <2>1, <2>2, <2>3 DEF Advance
<1> QED BY <1>1, <1>2, <1>3, <1>4, <1>5 DEF Next, Advance

\* Whatever interleaves and whatever fails, the tables of the store change only
\* by opening a counter or posting one whole mutation.
THEOREM Refinement == Spec => RefinesLedger
<1>1. Init => Ledger!Init
  <2>1. Ledger!SeedOps = SeedOps
    BY DEF Ledger!SeedOps, SeedOps, Ledger!OpIds, OpIds, Ledger!InitialKey, InitialKey,
           Ledger!InitialRow, InitialRow, Ledger!InitialHash, InitialHash
  <2> QED BY <2>1 DEF Init, Ledger!Init
<1> QED
  BY <1>1, StepImplements, Invariance, PTL DEF Spec, RefinesLedger, Ledger!Spec

-----------------------------------------------------------------------------
(* Retries.  A committed row says which request wrote it.                  *)

\* The row under a client's key came from a request of that tenant on a
\* counter that exists and is the tenant's.
FromRequest(t, k) ==
    LET row == ops[t][k] IN
    \E r \in Requests :
        /\ row.hash = RequestHash(r)
        /\ row.kind = r.kind
        /\ row.counter = r.counter
        /\ r.kind = "increment" => row.delta = r.arg
        /\ row.state = "completed"
        /\ r.counter \in live
        /\ Owner[r.counter] = t

RowsCoherent == \A t \in Tenants, k \in Keys : ops[t][k] # NoOp => FromRequest(t, k)

LEMMA CoherentInit == Init => RowsCoherent
<1> SUFFICES ASSUME Init, NEW t \in Tenants, NEW k \in Keys PROVE ops[t][k] = NoOp
  BY DEF RowsCoherent
<1>1. k \in OpIds /\ \A c \in Seeded : k # InitialKey(c)
  BY DEF OpIds
<1> QED BY <1>1 DEF Init, SeedOps

LEMMA CoherentNext == IInv /\ RowsCoherent /\ [Next]_vars => RowsCoherent'
<1> SUFFICES ASSUME IInv, RowsCoherent, [Next]_vars PROVE RowsCoherent'
  OBVIOUS
<1>1. CASE UNCHANGED <<live, ops>>
  BY <1>1 DEF RowsCoherent, FromRequest
<1>2. ASSUME NEW r \in Requests, Ledger!Post(r) PROVE RowsCoherent'
  <2>1. /\ live' = live /\ r.counter \in live /\ Owner[r.counter] = r.tenant
        /\ ops' = [ops EXCEPT ![r.tenant][r.key] = MutationRow(r, value[r.counter])]
    <3>1. Ledger!MutationRow(r, value[r.counter]) = MutationRow(r, value[r.counter])
      BY DEF Ledger!MutationRow, MutationRow, Ledger!DeltaOf, DeltaOf,
             Ledger!RequestHash, RequestHash
    <3> QED BY <1>2, <3>1 DEF Ledger!Post
  <2> SUFFICES ASSUME NEW t \in Tenants, NEW k \in Keys, ops'[t][k] # NoOp
               PROVE  FromRequest(t, k)'
    BY DEF RowsCoherent
  <2>2. CASE t = r.tenant /\ k = r.key
    <3>1. ops'[t][k] = MutationRow(r, value[r.counter])
      <4>1. ops \in [Tenants -> [OpIds -> OpRows \cup {NoOp}]]
        BY DEF IInv, TypeOK
      <4>2. k \in OpIds
        BY DEF OpIds
      <4> QED BY <2>1, <2>2, <4>1, <4>2
    <3>2. /\ ops'[t][k].hash = RequestHash(r) /\ ops'[t][k].kind = r.kind
          /\ ops'[t][k].counter = r.counter /\ ops'[t][k].state = "completed"
          /\ r.kind = "increment" => ops'[t][k].delta = r.arg
      BY <3>1 DEF MutationRow, DeltaOf
    <3> QED BY <2>1, <2>2, <3>2 DEF FromRequest
  <2>3. CASE ~(t = r.tenant /\ k = r.key)
    <3>1. ops'[t][k] = ops[t][k]
      BY <2>1, <2>3, RequestType DEF IInv, TypeOK, OpIds
    <3> QED BY <2>1, <3>1 DEF RowsCoherent, FromRequest
  <2> QED BY <2>2, <2>3
<1>3. ASSUME NEW c \in Counters, NEW r \in Requests, Ledger!Open(c, r) PROVE RowsCoherent'
  <2>1. /\ live' = live \cup {c}
        /\ \E row : ops' = [ops EXCEPT ![r.tenant][InitialKey(c)] = row]
    BY <1>3 DEF Ledger!Open, Ledger!InitialKey, InitialKey
  <2>2. \A t \in Tenants, k \in Keys : ops'[t][k] = ops[t][k]
    <3> SUFFICES ASSUME NEW t \in Tenants, NEW k \in Keys PROVE ops'[t][k] = ops[t][k]
      OBVIOUS
    <3>1. k \in OpIds /\ k # InitialKey(c)
      BY DEF OpIds
    <3> QED BY <2>1, <3>1 DEF IInv, TypeOK
  <2> QED BY <2>1, <2>2 DEF RowsCoherent, FromRequest
<1>4. CASE Ledger!Next
  BY <1>2, <1>3, <1>4 DEF Ledger!Next
<1> QED BY <1>1, <1>4, StepImplements DEF Ledger!lvars

\* What a retry finds: its counter is there, and the row says yes.
LEMMA RetryResolves ==
  ASSUME IInv, RowsCoherent, NEW p \in Procs, pc[p] \in Mutating,
         req[p].kind # "create", req[p].spelling = "canonical", AlreadyDone(p)
  PROVE  /\ target[p] = req[p].counter
         /\ Visible(p)
         /\ ResolveStatus(req[p], ops[req[p].tenant][req[p].key]) = "ok"
         /\ txOp[p] = NoOp
<1> DEFINE row == ops[req[p].tenant][req[p].key]
<1>1. /\ req[p] \in Requests /\ target[p] = req[p].counter
      /\ req[p].tenant \in Tenants /\ req[p].key \in Keys
  BY RequestType DEF IInv, Busy, Mutating
<1>2. row # NoOp /\ row.hash = RequestHash(req[p])
  BY DEF AlreadyDone
<1>3. PICK r \in Requests : /\ row.hash = RequestHash(r)
                            /\ row.kind = r.kind
                            /\ row.counter = r.counter
                            /\ r.kind = "increment" => row.delta = r.arg
                            /\ row.state = "completed"
                            /\ r.counter \in live
                            /\ Owner[r.counter] = req[p].tenant
  BY <1>1, <1>2 DEF RowsCoherent, FromRequest
<1>4. r.kind = req[p].kind /\ r.counter = req[p].counter /\ r.arg = req[p].arg
  <2>1. RequestHash(r) = RequestHash(req[p])
    BY <1>2, <1>3
  <2> HIDE DEF row
  <2> QED BY ONLY <2>1 DEF RequestHash
<1>5. Visible(p)
  BY <1>1, <1>3, <1>4 DEF Visible
<1>6. ResolveStatus(req[p], row) = "ok"
  BY <1>2, <1>3, <1>4 DEF ResolveStatus
<1>7. txOp[p] = NoOp
  BY <1>2 DEF IInv, KeyExclusive, Reserves
<1> QED BY <1>1, <1>5, <1>6, <1>7

\* A retry of a committed mutation, spelled canonically, is answered with the
\* original result, whatever has happened since and runs beside it; it can be
\* refused only if the counter is so far from the value it sets that the
\* distance does not fit int64.
THEOREM RetriesHonoured == Spec => CanonicalRetryHonoured
<1> DEFINE TooFar(p) == /\ resp'[p].status = "overflow"
                        /\ DeltaOf(req[p], value[req[p].counter]) \notin Int64
           Retry(p)  == pc[p] # "idle" /\ req[p].spelling = "canonical" =>
                            \/ RetryAnswered(p)
                            \/ /\ resp'[p].status = "overflow"
                               /\ DeltaOf(req[p], value[req[p].counter]) \notin Int64
<1>1. ASSUME IInv, RowsCoherent, [Next]_vars, NEW p \in Procs PROVE Retry(p)
  <2> SUFFICES ASSUME pc[p] \in Mutating, req[p].kind # "create", pc'[p] = "done",
                      AlreadyDone(p), req[p].spelling = "canonical"
               PROVE  resp'[p].status \in {"ok", "unavailable"} \/ TooFar(p)
    BY DEF RetryAnswered
  <2>0. /\ target[p] = req[p].counter
        /\ Visible(p)
        /\ ResolveStatus(req[p], ops[req[p].tenant][req[p].key]) = "ok"
        /\ txOp[p] = NoOp
        /\ pc[p] \notin {"update", "audit", "insert", "committed", "idle", "done"}
    <3>1. /\ target[p] = req[p].counter
          /\ Visible(p)
          /\ ResolveStatus(req[p], ops[req[p].tenant][req[p].key]) = "ok"
          /\ txOp[p] = NoOp
      BY <1>1, RetryResolves
    <3>2. pc[p] \in Holding => cur[p] \in Int64 /\ DeltaOf(req[p], cur[p]) \in Int64
      BY <1>1 DEF IInv, TypeOK, Locked, Mutates
    <3>3. req[p] \in Requests
      BY <1>1 DEF IInv, Busy, Mutating
    <3>4. pc[p] = "update" => txOp[p] # NoOp
      BY <1>1, <3>2, <3>3, PendingRowType DEF IInv, Written, Holding
    <3>5. ASSUME pc[p] = "audit" PROVE txOp[p] # NoOp
      <4>1. Completed(p)
        BY <1>1, <3>5 DEF IInv, Written
      <4>2. txOp[p] = MutationRow(req[p], cur[p]) /\ IncrementFault(req[p], cur[p]) = "none"
        BY <4>1 DEF Completed
      <4> QED BY <3>2, <3>3, <3>5, <4>2, MutationRowType DEF Holding
    <3> QED BY <3>1, <3>4, <3>5 DEF Mutating
  <2>1. PICK q \in Procs : \/ \E r \in Requests : StartMutation(q, r) \/ StartCreate(q, r)
                           \/ Advance(q) \/ Fail(q) \/ CommitUnacknowledged(q) \/ Recycle(q)
    BY <1>1, <2>0 DEF Next, vars, Mutating
  <2>2. pc'[p] = pc[p] \/ q = p
    BY <1>1, <2>1 DEF StartMutation, StartCreate, Advance, LockMissing, LockCounter,
       SetOutOfRange, Reserve, ResolveRefuse, ResolveReplay, IncrementRefused, UpdateCounter,
       CompleteOperation, AuditSet, AuditClash, InsertCounter, InsertConflict, RecordInitial,
       Commit, Respond, Fail, CommitUnacknowledged, Recycle, Abort, GoTo, IInv, TypeOK
  <2>3. q = p
    BY <2>2 DEF Mutating
  <2>4. CASE Fail(p) \/ CommitUnacknowledged(p)
    BY <1>1, <2>4 DEF Fail, CommitUnacknowledged, Abort, Failure, Result, IInv, TypeOK
  <2>5. CASE SetOutOfRange(p)
    BY <1>1, <2>0, <2>5 DEF SetOutOfRange, Abort, Failure, Result, IInv, TypeOK
  <2>6. CASE Advance(p) /\ ~Commit(p) /\ ~SetOutOfRange(p)
    <3>1. ~LockMissing(p)
      BY <2>0 DEF LockMissing
    <3>2. ~ResolveRefuse(p)
      BY <2>0 DEF ResolveRefuse
    <3>3. LockCounter(p) \/ Reserve(p) \/ ResolveReplay(p) \/ CompleteOperation(p) \/ RecordInitial(p)
      BY <2>0, <2>6, <3>1, <3>2 DEF Advance, LockMissing, SetOutOfRange, IncrementRefused,
         UpdateCounter, AuditSet, AuditClash, InsertCounter, InsertConflict, Respond
    <3> QED
      BY <1>1, <3>3 DEF LockCounter, Reserve, ResolveReplay, CompleteOperation, RecordInitial,
         GoTo, Order, IInv, TypeOK
  <2>7. CASE Commit(p)
    BY <1>1, <2>7 DEF Commit, GoTo, IInv, TypeOK
  <2>8. ~Recycle(p) /\ \A r \in Requests : ~StartMutation(p, r) /\ ~StartCreate(p, r)
    BY <2>0 DEF Recycle, StartMutation, StartCreate
  <2> QED BY <2>1, <2>3, <2>4, <2>5, <2>6, <2>7, <2>8
<1>2. IInv /\ RowsCoherent /\ [Next]_vars => [\A p \in Procs : Retry(p)]_vars
  BY <1>1
<1> QED
  BY <1>2, CoherentInit, CoherentNext, Invariance, PTL DEF Spec, CanonicalRetryHonoured

USE HistoryAssumption

-----------------------------------------------------------------------------
(* Pages.  Listings of counters (of = NoCounter) ascend, those of the      *)
(* operations of a counter descend.                                        *)

RowOrder(of) ==
    {p \in Entries \X Entries :
        IF of = NoCounter THEN Precedes(p[1], p[2]) ELSE Precedes(p[2], p[1])}

\* Time stamps may be equal, ids of one kind may not.
LEMMA OrderStrict ==
  ASSUME NEW of, NEW I \in {Counters, OpIds}, NEW S, S \subseteq [at : Times, id : I]
  PROVE  StrictTotal(RowOrder(of), S)
<1>1. \A a \in S : a \in Entries /\ a.at \in Int /\ Rank[a.id] \in Int /\ a.id \in I
  BY DEF Entries, Times
<1>2. \A a, b \in S : a.at = b.at /\ Rank[a.id] = Rank[b.id] => a = b
  <2> SUFFICES ASSUME NEW a \in S, NEW b \in S, a.at = b.at, Rank[a.id] = Rank[b.id]
               PROVE  a = b
    OBVIOUS
  <2>1. a.id = b.id
    BY <1>1
  <2>2. a \in [at : Times, id : I] /\ b \in [at : Times, id : I]
    OBVIOUS
  <2> QED BY <2>1, <2>2
<1>3. \A a, b \in S : <<a, b>> \in RowOrder(of) <=>
          IF of = NoCounter THEN Precedes(a, b) ELSE Precedes(b, a)
  BY <1>1 DEF RowOrder
<1>4. \A a \in S : <<a, a>> \notin RowOrder(of)
  BY <1>1, <1>3 DEF Precedes
<1>5. \A a, b, c \in S : Precedes(a, b) /\ Precedes(b, c) => Precedes(a, c)
  BY <1>1 DEF Precedes
<1>6. \A a, b \in S : a = b \/ Precedes(a, b) \/ Precedes(b, a)
  BY <1>1, <1>2 DEF Precedes
<1>7. \A a, b, c \in S : <<a, b>> \in RowOrder(of) /\ <<b, c>> \in RowOrder(of) => <<a, c>> \in RowOrder(of)
  BY <1>3, <1>5
<1>8. \A a, b \in S : a = b \/ <<a, b>> \in RowOrder(of) \/ <<b, a>> \in RowOrder(of)
  BY <1>3, <1>6
<1> QED BY <1>4, <1>7, <1>8 DEF StrictTotal

\* What ORDER BY promises of its choice.
Enumerates(s, S, R) ==
    /\ s \in [1 .. Cardinality(S) -> S]
    /\ \A i, j \in 1 .. Cardinality(S) : i # j => s[i] # s[j]
    /\ \A i, j \in 1 .. Cardinality(S) : i < j => <<s[j], s[i]>> \notin R

\* There is such an enumeration, and it lists the set in order.
LEMMA EnumerationExists ==
  ASSUME NEW S, IsFiniteSet(S), NEW R, StrictTotal(R, S)
  PROVE  \E s : Enumerates(s, S, R)
<1>1. PICK s \in [1 .. Cardinality(S) -> S] :
          \A i, j \in 1 .. Cardinality(S) : i < j => <<s[i], s[j]>> \in R
  BY SortedExists
<1>2. Cardinality(S) \in Nat
  BY FS_CardinalityType
<1>3. \A i, j \in 1 .. Cardinality(S) : i # j => i < j \/ j < i
  BY <1>2
<1>4. \A i, j \in 1 .. Cardinality(S) : i # j => s[i] # s[j]
  BY <1>1, <1>3 DEF StrictTotal
<1>5. \A i, j \in 1 .. Cardinality(S) : i < j => <<s[j], s[i]>> \notin R
  BY <1>1 DEF StrictTotal
<1> QED BY <1>1, <1>4, <1>5 DEF Enumerates

LEMMA EnumerationLists ==
  ASSUME NEW S, IsFiniteSet(S), NEW R, StrictTotal(R, S), NEW s, Enumerates(s, S, R)
  PROVE  Lists(s, S, R)
<1>1. s \in [1 .. Cardinality(S) -> S]
  BY DEF Enumerates
<1>2. \A i, j \in 1 .. Cardinality(S) : i # j => s[i] # s[j]
  BY DEF Enumerates
<1>3. Cardinality(S) \in Nat
  BY FS_CardinalityType
<1>4. \A i, j \in 1 .. Cardinality(S) : i < j => i # j
  BY <1>3
<1>5. \A i, j \in 1 .. Cardinality(S) : i < j => <<s[i], s[j]>> \in R
  BY <1>1, <1>2, <1>4 DEF Enumerates, StrictTotal
<1> QED BY <1>1, <1>2, <1>5, SortedLists

\* ORDER BY created_at, id, and ORDER BY created_at DESC, operation_id DESC.
LEMMA Ascending ==
  ASSUME NEW I \in {Counters, OpIds}, NEW S, S \subseteq [at : Times, id : I], IsFiniteSet(S)
  PROVE  Lists(OrderBy(S, Precedes), S, RowOrder(NoCounter))
<1>1. StrictTotal(RowOrder(NoCounter), S)
  BY OrderStrict
<1>2. \A a, b \in S : <<a, b>> \in RowOrder(NoCounter) <=> Precedes(a, b)
  BY DEF RowOrder, Entries
<1> DEFINE Fits(s) == \A i, j \in 1 .. Cardinality(S) : i < j => ~ Precedes(s[j], s[i])
<1>3. \A s : Enumerates(s, S, RowOrder(NoCounter)) <=> s \in SetToSeqs(S) /\ Fits(s)
  BY <1>2 DEF Enumerates, SetToSeqs
<1>4. OrderBy(S, Precedes) = CHOOSE s \in SetToSeqs(S) : Fits(s)
  BY DEF OrderBy
<1>5. PICK s : s \in SetToSeqs(S) /\ Fits(s)
  BY <1>1, <1>3, EnumerationExists
<1> HIDE DEF Fits
<1>6. LET o == OrderBy(S, Precedes) IN o \in SetToSeqs(S) /\ Fits(o)
  BY <1>4, <1>5
<1> QED BY <1>1, <1>3, <1>6, EnumerationLists

LEMMA Descending ==
  ASSUME NEW of, of # NoCounter,
         NEW I \in {Counters, OpIds}, NEW S, S \subseteq [at : Times, id : I], IsFiniteSet(S)
  PROVE  Lists(OrderBy(S, LAMBDA a, b : Precedes(b, a)), S, RowOrder(of))
<1>1. StrictTotal(RowOrder(of), S)
  BY OrderStrict
<1>2. \A a, b \in S : <<a, b>> \in RowOrder(of) <=> Precedes(b, a)
  BY DEF RowOrder, Entries
<1> DEFINE Fits(s) == \A i, j \in 1 .. Cardinality(S) : i < j => ~ Precedes(s[i], s[j])
<1>3. \A s : Enumerates(s, S, RowOrder(of)) <=> s \in SetToSeqs(S) /\ Fits(s)
  BY <1>2 DEF Enumerates, SetToSeqs
<1>4. OrderBy(S, LAMBDA a, b : Precedes(b, a)) = CHOOSE s \in SetToSeqs(S) : Fits(s)
  BY DEF OrderBy
<1>5. PICK s : s \in SetToSeqs(S) /\ Fits(s)
  BY <1>1, <1>3, EnumerationExists
<1> HIDE DEF Fits
<1>6. PICK o : o = OrderBy(S, LAMBDA a, b : Precedes(b, a))
  OBVIOUS
<1>7. o \in SetToSeqs(S) /\ Fits(o)
  BY <1>4, <1>5, <1>6
<1>8. Lists(o, S, RowOrder(of))
  BY <1>1, <1>3, <1>7, EnumerationLists
<1> QED BY <1>6, <1>8

-----------------------------------------------------------------------------
(* The inductive invariant of History.                                     *)

\* Committed rows are complete, belong to a counter of their tenant, and only
\* the row that opens a history is of kind initial_value.
RowFits(t, k) ==
    ops[t][k] # NoOp =>
        /\ ops[t][k].state = "completed"
        /\ ops[t][k].counter \in live
        /\ Owner[ops[t][k].counter] = t
        /\ k \in Keys => ops[t][k].kind # "initial_value"
        /\ \A c \in Counters : k = InitialKey(c) =>
              ops[t][k].counter = c /\ ops[t][k].kind = "initial_value"

AllFit == \A t \in Tenants, k \in OpIds : RowFits(t, k)
RowsFinite == \A t \in Tenants, c \in Counters : IsFiniteSet(OperationsOf(t, c))

Headless(c) == c \in Seeded /\ damage[c] = "headless"
Drift(c)    == IF c \in Seeded THEN DriftOf(c) ELSE 0

\* A counter's opening row is there unless it was lost, and its value is the
\* sum of its history, off by the damage done to it before.
Tallies(c) ==
    /\ ops[Owner[c]][InitialKey(c)] = NoOp <=> Headless(c)
    /\ value[c] = TotalDelta(c) + Drift(c)

LedgerInv ==
    /\ Seeded \subseteq live
    /\ IsFiniteSet(live)
    /\ AllFit
    /\ RowsFinite
    /\ \A c \in live : Tallies(c)

\* What a walk lists.
Scope(t, of) == IF of = NoCounter THEN CounterEntries(t) ELSE OperationEntries(t, of)

\* A walk has listed rows of its scope in order, the cursor is the last of
\* them, and what it has to see and has not seen comes after the cursor.
WalkInv ==
    walk.pc # "off" =>
        /\ walk.tenant \in Tenants
        /\ Range(walk.listed) \cup walk.prior \subseteq Scope(walk.tenant, walk.of)
        /\ \A i, j \in 1 .. Len(walk.listed) :
              i < j => <<walk.listed[i], walk.listed[j]>> \in RowOrder(walk.of)
        /\ walk.of # NoCounter /\ (walk.pc = "found" \/ walk.listed # <<>>)
              => Owner[walk.of] = walk.tenant
        /\ walk.pc # "end" /\ walk.cursor = NoCursor => walk.listed = <<>>
        /\ walk.cursor # NoCursor =>
              /\ Len(walk.listed) > 0
              /\ walk.cursor = walk.listed[Len(walk.listed)]
              /\ \A e \in walk.prior : e \in Range(walk.listed)
                                       \/ <<walk.cursor, e>> \in RowOrder(walk.of)
        /\ walk.pc = "end" => walk.prior \subseteq Range(walk.listed)

\* A scan has checked counters up to the last of its last batch; what it has
\* to check and has not checked comes after it.
ScanInv ==
    scan.pc # "off" =>
        /\ Seeded \subseteq scan.present
        /\ scan.present \cup scan.checked \subseteq live
        /\ ~ scan.again
        /\ scan.last = NoCounter => scan.checked = {}
        /\ scan.last # NoCounter => \A c \in scan.checked : c = scan.last \/ Sooner(c, scan.last)
        /\ \A c \in scan.present : c \in scan.checked \/ After(scan.last, c)
        /\ scan.mismatches = {c \in scan.checked : Drift(c) # 0}
        /\ scan.violations = {c \in scan.checked : Headless(c)}
        /\ scan.pc = "end" /\ scan.exit # "failed" =>
              /\ scan.present \subseteq scan.checked
              /\ scan.exit = "ok" <=> scan.mismatches = {} /\ scan.violations = {}

HInv == HistoryTypeOK /\ LedgerInv /\ WalkInv /\ ScanInv

-----------------------------------------------------------------------------
(* Writers.                                                                *)

OpsTyped == ops \in [Tenants -> [OpIds -> OpRows \cup {NoOp}]]

\* Tables of the right types, with rows that belong where they are.
TablesSound ==
    /\ live \subseteq Counters
    /\ value \in [Counters -> Int64]
    /\ OpsTyped
    /\ AllFit
    /\ RowsFinite

\* The invariant of History makes the tables sound.
LEMMA HistorySound ==
  ASSUME HistoryTypeOK, LedgerInv
  PROVE  TablesSound
  BY DEF HistoryTypeOK, LedgerInv, TablesSound, OpsTyped

\* What a writer commits: one complete row, under an id that was not used.
Commits(t, k, row) ==
    /\ t \in Tenants
    /\ k \in OpIds
    /\ ops[t][k] = NoOp
    /\ row \in OpRows
    /\ row.state = "completed"
    /\ row.counter \in live'
    /\ Owner[row.counter] = t
    /\ ops' = [ops EXCEPT ![t][k] = row]

\* A mutation commits one row; a create, one that opens a history.
LEMMA PostCommits ==
  ASSUME TablesSound, NEW r \in Requests, Tables!Post(r)
  PROVE  \E row :
            /\ Commits(r.tenant, r.key, row)
            /\ r.counter \in live
            /\ row.counter = r.counter
            /\ row.kind # "initial_value"
            /\ value' = [value EXCEPT ![r.counter] = value[r.counter] + row.delta]
            /\ row.delta \in Int64
            /\ value[r.counter] + row.delta \in Int64
<1> DEFINE v == value[r.counter]
           row == MutationRow(r, v)
<1>1. /\ r.kind # "create"
      /\ r.counter \in live
      /\ Owner[r.counter] = r.tenant
      /\ ops[r.tenant][r.key] = NoOp
      /\ {row.delta, row.after} \subseteq Int64
      /\ value' = [value EXCEPT ![r.counter] = row.after]
      /\ ops' = [ops EXCEPT ![r.tenant][r.key] = row]
      /\ live' = live
  BY DEF Tables!Post, Tables!MutationRow, Tables!DeltaOf,
         Tables!RequestHash, Tables!Int64, Tables!MinInt,
         MutationRow, DeltaOf, RequestHash, Int64, MinInt
<1>2. /\ r.kind \in {"increment", "set_adjustment"}
      /\ r.tenant \in Tenants /\ r.key \in OpIds /\ r.counter \in Counters
      /\ r.actor \in Actors /\ RequestHash(r) \in Hashes
  BY <1>1 DEF RequestShape, ReqKinds, OpIds, Hashes
<1>3. v \in Int64
  BY <1>2 DEF TablesSound
<1>4. /\ row.kind = r.kind /\ row.counter = r.counter /\ row.state = "completed"
      /\ row.after = v + row.delta
  BY DEF MutationRow
<1>5. row \in OpRows
  BY <1>1, <1>2, <1>3 DEF MutationRow, OpRows, OpKinds, OpStates
<1> HIDE DEF row
<1>6. Commits(r.tenant, r.key, row)
  BY <1>1, <1>2, <1>4, <1>5 DEF Commits
<1>7. row.kind # "initial_value"
  BY <1>2, <1>4
<1>8. row.delta \in Int64 /\ v + row.delta \in Int64
  BY <1>1, <1>4
<1>9. value' = [value EXCEPT ![r.counter] = v + row.delta]
  BY <1>1, <1>4
<1> QED BY <1>1, <1>4, <1>6, <1>7, <1>8, <1>9

LEMMA OpenCommits ==
  ASSUME TablesSound, NEW r \in Requests, NEW c \in Counters, Tables!Open(c, r)
  PROVE  \E row :
            /\ Commits(r.tenant, InitialKey(c), row)
            /\ c \notin live
            /\ live' = live \cup {c}
            /\ row.counter = c
            /\ row.kind = "initial_value"
            /\ value' = [value EXCEPT ![c] = row.delta]
            /\ row.delta \in Int64
<1> DEFINE row == InitialRow(c, r.arg)
<1>1. /\ c \notin live
      /\ Owner[c] = r.tenant
      /\ live' = live \cup {c}
      /\ value' = [value EXCEPT ![c] = r.arg]
      /\ ops' = [ops EXCEPT ![r.tenant][InitialKey(c)] = row]
  BY DEF Tables!Open, Tables!InitialRow, Tables!InitialKey,
         Tables!InitialHash, InitialRow, InitialKey, InitialHash
<1>2. r.tenant \in Tenants /\ r.arg \in Int64
  BY DEF RequestShape
<1>3. InitialKey(c) \in OpIds
  BY DEF OpIds
<1>4. ops[r.tenant][InitialKey(c)] = NoOp
  BY <1>1, <1>2, <1>3 DEF TablesSound, AllFit, RowFits
<1>5. row \in OpRows
  BY <1>2 DEF InitialRow, OpRows, OpKinds, OpStates, Actors, Hashes, Int64, MinInt
<1>6. row.kind = "initial_value" /\ row.counter = c /\ row.state = "completed" /\ row.delta = r.arg
  BY DEF InitialRow
<1> HIDE DEF row
<1> QED BY <1>1, <1>2, <1>3, <1>4, <1>5, <1>6 DEF Commits

\* Rows of other counters are as they were; the one of the new row has it, too.
LEMMA CommitAdds ==
  ASSUME OpsTyped, NEW t, NEW k, NEW row, Commits(t, k, row),
         NEW u \in Tenants, NEW c \in Counters
  PROVE  /\ k \notin OperationsOf(t, c)
         /\ u = t /\ c = row.counter => OperationsOf(u, c)' = OperationsOf(u, c) \cup {k}
         /\ ~ (u = t /\ c = row.counter) => OperationsOf(u, c)' = OperationsOf(u, c)
         /\ \A j \in OperationsOf(u, c) : ops'[u][j] = ops[u][j]
<1>1. ops \in [Tenants -> [OpIds -> OpRows \cup {NoOp}]]
  BY DEF OpsTyped
<1>2. /\ t \in Tenants /\ k \in OpIds /\ ops[t][k] = NoOp
      /\ row # NoOp /\ row.state = "completed"
      /\ ops' = [ops EXCEPT ![t][k] = row]
  BY DEF Commits
<1>3. \A v \in Tenants, j \in OpIds :
        ops'[v][j] = IF v = t /\ j = k THEN row ELSE ops[v][j]
  BY <1>1, <1>2
<1>4. \A v \in Tenants : OperationsOf(v, c) = {j \in OpIds : ops[v][j] # NoOp /\ ops[v][j].counter = c /\ ops[v][j].state = "completed"}
  BY DEF OperationsOf
<1>5. OperationsOf(u, c)' = {j \in OpIds : ops'[u][j] # NoOp /\ ops'[u][j].counter = c /\ ops'[u][j].state = "completed"}
  BY DEF OperationsOf, OpIds, InitialKey
<1>6. k \notin OperationsOf(t, c)
  BY <1>2, <1>4
<1>7. \A j \in OperationsOf(u, c) : ops'[u][j] = ops[u][j]
  BY <1>2, <1>3, <1>4
<1>8. u = t /\ c = row.counter => OperationsOf(u, c)' = OperationsOf(u, c) \cup {k}
  BY <1>2, <1>3, <1>4, <1>5
<1>9. ~ (u = t /\ c = row.counter) => OperationsOf(u, c)' = OperationsOf(u, c)
  BY <1>2, <1>3, <1>4, <1>5
<1> QED BY <1>6, <1>7, <1>8, <1>9

\* SUM(delta), in this state and in the next.
LEMMA TotalIsSum ==
  \A c : TotalDelta(c) = DeltaSum(ops[Owner[c]], OperationsOf(Owner[c], c))
  BY DEF TotalDelta, DeltaSum

LEMMA TotalIsSumNext ==
  \A c : TotalDelta(c)' = DeltaSum(ops'[Owner[c]], OperationsOf(Owner[c], c)')
  BY DEF TotalDelta, DeltaSum, MapThenSumSet, MapThenFoldSet

\* Deltas are integers.
LEMMA DeltasIntegral ==
  ASSUME OpsTyped, NEW t \in Tenants, NEW c \in Counters
  PROVE  Integral(ops[t], OperationsOf(t, c))
<1>1. ops \in [Tenants -> [OpIds -> OpRows \cup {NoOp}]]
  BY DEF OpsTyped
<1>2. \A k \in OperationsOf(t, c) : ops[t][k] \in OpRows
  BY <1>1 DEF OperationsOf
<1>3. \A o \in OpRows : o.delta \in Int
  BY DEF OpRows, Int64, MinInt
<1> QED BY <1>2, <1>3 DEF Integral

\* The sum over a counter's rows moves by the delta of its new row.
LEMMA CommitSums ==
  ASSUME OpsTyped, NEW t, NEW k, NEW row, Commits(t, k, row),
         NEW u \in Tenants, NEW c \in Counters, IsFiniteSet(OperationsOf(u, c))
  PROVE  /\ IsFiniteSet(OperationsOf(u, c)')
         /\ u = t /\ c = row.counter =>
              DeltaSum(ops'[u], OperationsOf(u, c)')
                = DeltaSum(ops[u], OperationsOf(u, c)) + row.delta
         /\ ~ (u = t /\ c = row.counter) =>
              DeltaSum(ops'[u], OperationsOf(u, c)')
                = DeltaSum(ops[u], OperationsOf(u, c))
<1>1. PICK S : S = OperationsOf(u, c)
  OBVIOUS
<1>2. IsFiniteSet(S) /\ Integral(ops[u], S)
  BY <1>1, DeltasIntegral
<1>3. \A j \in S : ops'[u][j] = ops[u][j]
  BY <1>1, CommitAdds
<1>4. CASE u = t /\ c = row.counter
  <2>1. OperationsOf(u, c)' = S \cup {k} /\ k \notin S
    BY <1>1, <1>4, CommitAdds
  <2>2. ops'[u][k] = row
    BY <1>4 DEF Commits, OpsTyped
  <2>3. row.delta \in Int
    BY DEF Commits, OpRows, Int64, MinInt
  <2>4. \A j \in S : ops'[u][j].delta = ops[u][j].delta
    BY <1>3
  <2>5. ops'[u][k].delta \in Int
    BY <2>2, <2>3
  <2>6. DeltaSum(ops'[u], S \cup {k}) = DeltaSum(ops[u], S) + ops'[u][k].delta
    BY <1>2, <2>1, <2>4, <2>5, SumAdds
  <2>7. IsFiniteSet(S \cup {k})
    BY <1>2, FS_AddElement
  <2> QED BY <1>1, <1>4, <2>1, <2>2, <2>6, <2>7
<1>5. CASE ~ (u = t /\ c = row.counter)
  <2>1. OperationsOf(u, c)' = S
    BY <1>1, <1>5, CommitAdds
  <2>2. DeltaSum(ops'[u], S) = DeltaSum(ops[u], S)
    BY <1>2, <1>3, SumSame
  <2> QED BY <1>1, <1>2, <1>5, <2>1, <2>2
<1> QED BY <1>4, <1>5

\* The rows stay as they should be when a row that fits is committed.
LEMMA CommitFits ==
  ASSUME OpsTyped, AllFit, live \subseteq live',
         NEW t, NEW k, NEW row, Commits(t, k, row),
         k \in Keys => row.kind # "initial_value",
         \A c \in Counters : k = InitialKey(c) =>
            row.counter = c /\ row.kind = "initial_value"
  PROVE  AllFit'
<1> SUFFICES ASSUME NEW u \in Tenants, NEW j \in OpIds PROVE RowFits(u, j)'
  BY DEF AllFit, OpIds, InitialKey
<1>1. ops \in [Tenants -> [OpIds -> OpRows \cup {NoOp}]]
  BY DEF OpsTyped
<1>2. RowFits(u, j)
  BY DEF AllFit
<1>3. PICK o : o = ops'[u][j]
  OBVIOUS
<1>4. CASE u = t /\ j = k
  <2>1. o = row
    BY <1>1, <1>3, <1>4 DEF Commits
  <2> QED BY <1>3, <1>4, <2>1 DEF RowFits, Commits, InitialKey
<1>5. CASE ~ (u = t /\ j = k)
  <2>1. o = ops[u][j]
    BY <1>1, <1>3, <1>5 DEF Commits
  <2> QED BY <1>2, <1>3, <2>1 DEF RowFits, InitialKey
<1> QED BY <1>4, <1>5

\* A mutation moves a counter's value and the sum of its history alike ...
LEMMA PostMoves ==
  ASSUME TablesSound, NEW r \in Requests, Tables!Post(r)
  PROVE  /\ live' = live /\ AllFit' /\ RowsFinite'
         /\ \A c \in live, x \in Int : value[c] = TotalDelta(c) + x
                                      => value'[c] = TotalDelta(c)' + x
         /\ \A c \in live : TotalDelta(c)' \in Int
         /\ \A c \in live : ops'[Owner[c]][InitialKey(c)] = ops[Owner[c]][InitialKey(c)]
<1>1. PICK row :
        /\ Commits(r.tenant, r.key, row)
        /\ r.counter \in live
        /\ row.counter = r.counter
        /\ row.kind # "initial_value"
        /\ value' = [value EXCEPT ![r.counter] = value[r.counter] + row.delta]
        /\ row.delta \in Int64
        /\ value[r.counter] + row.delta \in Int64
  BY PostCommits
<1>2. live' = live
  BY DEF Tables!Post
<1>3. r.key \in Keys /\ r.tenant = Owner[r.counter]
  BY <1>1 DEF RequestShape, Commits
<1>4. AllFit'
  <2>1. \A c \in Counters : r.key # InitialKey(c)
    BY <1>3
  <2> QED BY <1>1, <1>2, <2>1, CommitFits DEF TablesSound
<1>5. RowsFinite'
  <2>1. \A u \in Tenants, c \in Counters : IsFiniteSet(OperationsOf(u, c)')
    BY <1>1, CommitSums DEF TablesSound, RowsFinite
  <2> QED BY <2>1 DEF RowsFinite, IsFiniteSet
<1>6. ASSUME NEW c \in live
      PROVE  /\ TotalDelta(c)' \in Int
             /\ \A x \in Int : value[c] = TotalDelta(c) + x => value'[c] = TotalDelta(c)' + x
  <2>1. c \in Counters /\ Owner[c] \in Tenants /\ r.counter \in Counters
    BY <1>1 DEF TablesSound
  <2>2. OpsTyped /\ IsFiniteSet(OperationsOf(Owner[c], c))
    BY <2>1 DEF TablesSound, RowsFinite
  <2>3. PICK s : s = DeltaSum(ops[Owner[c]], OperationsOf(Owner[c], c))
    OBVIOUS
  <2>4. TotalDelta(c) = s
    BY <2>3, TotalIsSum
  <2>5. s \in Int
    BY <2>1, <2>2, <2>3, SumType, DeltasIntegral
  <2>6. value \in [Counters -> Int64]
    BY DEF TablesSound
  <2>7. CASE c = r.counter
    <3>1. TotalDelta(c)' = s + row.delta
      BY <1>1, <1>3, <2>1, <2>2, <2>3, <2>7, CommitSums, TotalIsSumNext
    <3>2. value'[c] = value[c] + row.delta
      BY <1>1, <2>1, <2>6, <2>7
    <3>3. row.delta \in Int
      BY <1>1 DEF Int64, MinInt
    <3> QED BY <2>4, <2>5, <3>1, <3>2, <3>3
  <2>8. CASE c # r.counter
    <3>1. TotalDelta(c)' = s
      BY <1>1, <2>1, <2>2, <2>3, <2>8, CommitSums, TotalIsSumNext
    <3>2. value'[c] = value[c]
      BY <1>1, <2>1, <2>6, <2>8
    <3> QED BY <2>4, <2>5, <3>1, <3>2
  <2> QED BY <2>7, <2>8
<1>7. ASSUME NEW c \in live PROVE ops'[Owner[c]][InitialKey(c)] = ops[Owner[c]][InitialKey(c)]
  <2>1. /\ c \in Counters /\ Owner[c] \in Tenants
        /\ ops \in [Tenants -> [OpIds -> OpRows \cup {NoOp}]]
    BY DEF TablesSound, OpsTyped
  <2>2. InitialKey(c) \in OpIds /\ InitialKey(c) # r.key
    BY <1>3, <2>1 DEF OpIds
  <2> QED BY <1>1, <2>1, <2>2 DEF Commits
<1> QED BY <1>2, <1>4, <1>5, <1>6, <1>7

\* ... and a new counter starts with both at its initial value.
LEMMA OpenMoves ==
  ASSUME TablesSound, NEW r \in Requests, NEW d \in Counters, Tables!Open(d, r)
  PROVE  /\ live' = live \cup {d} /\ d \notin live /\ AllFit' /\ RowsFinite'
         /\ value'[d] = TotalDelta(d)'
         /\ ops'[Owner[d]][InitialKey(d)] # NoOp
         /\ \A c \in live : /\ value'[c] = value[c]
                            /\ TotalDelta(c)' = TotalDelta(c)
                            /\ ops'[Owner[c]][InitialKey(c)] = ops[Owner[c]][InitialKey(c)]
<1>1. PICK row :
        /\ Commits(r.tenant, InitialKey(d), row)
        /\ d \notin live
        /\ live' = live \cup {d}
        /\ row.counter = d
        /\ row.kind = "initial_value"
        /\ value' = [value EXCEPT ![d] = row.delta]
        /\ row.delta \in Int64
  BY OpenCommits
<1>2. /\ r.tenant = Owner[d] /\ Owner[d] \in Tenants
      /\ InitialKey(d) \in OpIds /\ InitialKey(d) \notin Keys
  BY <1>1 DEF Commits, OpIds
<1>3. AllFit'
  <2>1. \A c \in Counters : InitialKey(d) = InitialKey(c) => c = d
    BY DEF InitialKey
  <2>2. live \subseteq live'
    BY <1>1
  <2> QED BY <1>1, <1>2, <2>1, <2>2, CommitFits DEF TablesSound
<1>4. RowsFinite'
  <2>1. \A u \in Tenants, c \in Counters : IsFiniteSet(OperationsOf(u, c)')
    BY <1>1, CommitSums DEF TablesSound, RowsFinite
  <2> QED BY <2>1 DEF RowsFinite, IsFiniteSet
<1>5. /\ OpsTyped /\ ops \in [Tenants -> [OpIds -> OpRows \cup {NoOp}]]
      /\ value \in [Counters -> Int64]
      /\ \A c \in Counters : IsFiniteSet(OperationsOf(Owner[c], c))
  BY DEF TablesSound, OpsTyped, RowsFinite
<1>6. value'[d] = TotalDelta(d)' /\ ops'[Owner[d]][InitialKey(d)] # NoOp
  <2>1. OperationsOf(Owner[d], d) = {}
    BY <1>1, <1>2 DEF TablesSound, AllFit, RowFits, OperationsOf
  <2>2. TotalDelta(d)' = DeltaSum(ops[Owner[d]], OperationsOf(Owner[d], d)) + row.delta
    BY <1>1, <1>2, <1>5, CommitSums, TotalIsSumNext
  <2>3. TotalDelta(d)' = 0 + row.delta
    BY <2>1, <2>2, SumEmpty
  <2>4. value'[d] = row.delta
    BY <1>1, <1>5
  <2>5. row.delta \in Int
    BY <1>1 DEF Int64, MinInt
  <2>6. ops'[Owner[d]][InitialKey(d)] # NoOp
    BY <1>1, <1>2, <1>5 DEF Commits
  <2> QED BY <2>3, <2>4, <2>5, <2>6
<1>7. ASSUME NEW c \in live
      PROVE  /\ value'[c] = value[c]
             /\ TotalDelta(c)' = TotalDelta(c)
             /\ ops'[Owner[c]][InitialKey(c)] = ops[Owner[c]][InitialKey(c)]
  <2>1. c \in Counters /\ Owner[c] \in Tenants /\ InitialKey(c) \in OpIds /\ c # d
    BY <1>1 DEF TablesSound, OpIds
  <2>2. TotalDelta(c)' = DeltaSum(ops[Owner[c]], OperationsOf(Owner[c], c))
    BY <1>1, <1>5, <2>1, CommitSums, TotalIsSumNext
  <2>3. value'[c] = value[c]
    BY <1>1, <1>5, <2>1
  <2>4. InitialKey(c) # InitialKey(d)
    BY <2>1 DEF InitialKey
  <2>5. ops'[Owner[c]][InitialKey(c)] = ops[Owner[c]][InitialKey(c)]
    BY <1>1, <1>2, <1>5, <2>1, <2>4 DEF Commits
  <2> QED BY <2>2, <2>3, <2>5, TotalIsSum
<1> QED BY <1>1, <1>3, <1>4, <1>6, <1>7

\* Damage done before is there to stay.
LEMMA DamageKept ==
  ASSUME damage' = damage
  PROVE  \A c : (Drift(c)' = Drift(c)) /\ (Headless(c)' <=> Headless(c))
  BY DEF Drift, Headless, DriftOf

\* Damage moves a value by an integer.
LEMMA DriftType ==
  ASSUME HistoryTypeOK, NEW c \in Counters
  PROVE  Drift(c) \in Int
<1>1. CASE c \in Seeded
  <2>1. damage[c] \in Kinds /\ SeedValue[c] \in Int
    BY <1>1 DEF HistoryTypeOK, MinInt
  <2> QED BY <1>1, <2>1 DEF Drift, DriftOf, Kinds
<1>2. CASE c \notin Seeded
  BY <1>2 DEF Drift
<1> QED BY <1>1, <1>2

\* Writers keep the tables as they should be.
LEMMA PostLedger ==
  ASSUME HistoryTypeOK, LedgerInv, NEW r \in Requests, LandMutation(r)
  PROVE  LedgerInv'
<1>1. TablesSound /\ Tables!Post(r) /\ damage' = damage
  BY HistorySound DEF LandMutation
<1>2. /\ live' = live /\ AllFit' /\ RowsFinite'
      /\ \A c \in live, x \in Int : value[c] = TotalDelta(c) + x
                                   => value'[c] = TotalDelta(c)' + x
      /\ \A c \in live : ops'[Owner[c]][InitialKey(c)] = ops[Owner[c]][InitialKey(c)]
  BY <1>1, PostMoves
<1>3. \A c \in live : Tallies(c)'
  <2> SUFFICES ASSUME NEW c \in live PROVE Tallies(c)'
    OBVIOUS
  <2>1. Tallies(c) /\ Drift(c) \in Int
    BY DriftType DEF LedgerInv, HistoryTypeOK
  <2>2. (Drift(c)' = Drift(c)) /\ (Headless(c)' <=> Headless(c))
    BY <1>1, DamageKept
  <2>3. value'[c] = TotalDelta(c)' + Drift(c)
    BY <1>2, <2>1 DEF Tallies
  <2> QED BY <1>2, <2>1, <2>2, <2>3 DEF Tallies, InitialKey
<1> QED BY <1>2, <1>3 DEF LedgerInv, IsFiniteSet

LEMMA OpenLedger ==
  ASSUME HistoryTypeOK, LedgerInv, NEW r \in Requests, NEW d \in Counters, LandCreate(r, d)
  PROVE  LedgerInv'
<1>1. TablesSound /\ Tables!Open(d, r) /\ damage' = damage
  BY HistorySound DEF LandCreate
<1>2. /\ live' = live \cup {d} /\ d \notin live /\ AllFit' /\ RowsFinite'
      /\ value'[d] = TotalDelta(d)'
      /\ ops'[Owner[d]][InitialKey(d)] # NoOp
      /\ \A c \in live : /\ value'[c] = value[c]
                         /\ TotalDelta(c)' = TotalDelta(c)
                         /\ ops'[Owner[c]][InitialKey(c)] = ops[Owner[c]][InitialKey(c)]
  BY <1>1, OpenMoves
<1>3. Seeded \subseteq live' /\ d \notin Seeded
  BY <1>2 DEF LedgerInv
<1>4. IsFiniteSet(live')
  <2>1. IsFiniteSet(live \cup {d})
    BY FS_AddElement DEF LedgerInv
  <2> QED BY <1>2, <2>1
<1>5. \A c \in live' : Tallies(c)'
  <2> SUFFICES ASSUME NEW c \in live' PROVE Tallies(c)'
    OBVIOUS
  <2>1. (Drift(c)' = Drift(c)) /\ (Headless(c)' <=> Headless(c))
    BY <1>1, DamageKept
  <2>2. CASE c = d
    <3>1. Drift(c) = 0 /\ ~ Headless(c)
      BY <1>3, <2>2 DEF Drift, Headless
    <3>2. TotalDelta(c)' \in Int
      <4>1. value' = [value EXCEPT ![d] = r.arg] /\ r.arg \in Int
        BY <1>1 DEF Tables!Open, RequestShape, Int64, MinInt
      <4>2. value'[d] \in Int
        BY <1>1, <4>1 DEF TablesSound
      <4> QED BY <1>2, <2>2, <4>2
    <3> QED BY <1>2, <2>1, <2>2, <3>1, <3>2 DEF Tallies, InitialKey
  <2>3. CASE c # d
    <3>1. Tallies(c) /\ c \in live
      BY <1>2, <2>3 DEF LedgerInv
    <3> QED BY <1>2, <2>1, <3>1 DEF Tallies, InitialKey
  <2> QED BY <2>2, <2>3
<1> QED BY <1>2, <1>3, <1>4, <1>5 DEF LedgerInv, IsFiniteSet

\* Readers do not touch the tables.
LEMMA SameLedger ==
  ASSUME LedgerInv, UNCHANGED <<live, value, ops, damage>>
  PROVE  LedgerInv'
<1>1. \A t, c : OperationsOf(t, c)' = OperationsOf(t, c)
  BY DEF OperationsOf, OpIds, InitialKey
<1>2. \A t, k : RowFits(t, k)' <=> RowFits(t, k)
  BY DEF RowFits, InitialKey
<1>3. \A c : TotalDelta(c)' = TotalDelta(c)
  BY <1>1, TotalIsSum, TotalIsSumNext
<1>4. \A c : Tallies(c)' <=> Tallies(c)
  BY <1>3 DEF Tallies, Drift, Headless, DriftOf, InitialKey
<1> QED BY <1>1, <1>2, <1>4 DEF LedgerInv, AllFit, RowsFinite, OpIds, InitialKey, IsFiniteSet

\* The seeded database: opening rows only, except the ones that were lost.
LEMMA SeededTables ==
  ASSUME NEW dam \in [Seeded -> Kinds],
         live = Seeded,
         \A t \in Tenants, k \in OpIds :
            ops[t][k] = IF \E c \in Seeded : k = InitialKey(c) /\ dam[c] = "headless"
                        THEN NoOp ELSE SeedOps[t][k]
  PROVE  /\ AllFit
         /\ RowsFinite
         /\ \A c \in Seeded :
               /\ ops[Owner[c]][InitialKey(c)] = NoOp <=> dam[c] = "headless"
               /\ TotalDelta(c) = IF dam[c] = "headless" THEN 0 ELSE SeedValue[c]
<1>3. \A t \in Tenants, k \in OpIds :
        /\ ops[t][k] # NoOp => \E c \in Seeded : Owner[c] = t /\ k = InitialKey(c)
        /\ \A c \in Seeded : k = InitialKey(c) =>
              ops[t][k] = IF dam[c] = "headless" \/ Owner[c] # t
                          THEN NoOp ELSE InitialRow(c, SeedValue[c])
  <2> SUFFICES ASSUME NEW t \in Tenants, NEW k \in OpIds
               PROVE  /\ ops[t][k] # NoOp => \E c \in Seeded : Owner[c] = t /\ k = InitialKey(c)
                      /\ \A c \in Seeded : k = InitialKey(c) =>
                            ops[t][k] = IF dam[c] = "headless" \/ Owner[c] # t
                                        THEN NoOp ELSE InitialRow(c, SeedValue[c])
    OBVIOUS
  <2>1. ops[t][k] = IF \E c \in Seeded : k = InitialKey(c) /\ dam[c] = "headless"
                    THEN NoOp ELSE SeedOps[t][k]
    OBVIOUS
  <2>2. SeedOps[t][k] = IF \E c \in Seeded : Owner[c] = t /\ k = InitialKey(c)
                        THEN LET c == CHOOSE x \in Seeded : Owner[x] = t /\ k = InitialKey(x)
                             IN  InitialRow(c, SeedValue[c])
                        ELSE NoOp
    BY DEF SeedOps
  <2>3. \A c, x \in Seeded : k = InitialKey(c) /\ k = InitialKey(x) => c = x
    BY DEF InitialKey
  <2>4. ops[t][k] # NoOp => \E c \in Seeded : Owner[c] = t /\ k = InitialKey(c)
    BY <2>1, <2>2
  <2>5. ASSUME NEW c \in Seeded, k = InitialKey(c)
        PROVE  ops[t][k] = IF dam[c] = "headless" \/ Owner[c] # t
                           THEN NoOp ELSE InitialRow(c, SeedValue[c])
    <3>1. CASE dam[c] = "headless"
      BY <2>1, <2>5, <3>1
    <3>2. CASE dam[c] # "headless" /\ Owner[c] # t
      <4>1. ~ \E x \in Seeded : Owner[x] = t /\ k = InitialKey(x)
        BY <2>3, <2>5, <3>2
      <4> QED BY <2>1, <2>2, <3>2, <4>1
    <3>3. CASE dam[c] # "headless" /\ Owner[c] = t
      <4>1. ops[t][k] = SeedOps[t][k]
        BY <2>1, <2>3, <2>5, <3>3
      <4>2. \E x \in Seeded : Owner[x] = t /\ k = InitialKey(x)
        BY <2>5, <3>3
      <4>3. PICK y : y = CHOOSE x \in Seeded : Owner[x] = t /\ k = InitialKey(x)
        OBVIOUS
      <4>4. y = c
        BY <2>3, <2>5, <4>2, <4>3
      <4>5. SeedOps[t][k] = InitialRow(y, SeedValue[y])
        BY <2>2, <4>2, <4>3
      <4> QED BY <3>3, <4>1, <4>4, <4>5
    <3> QED BY <3>1, <3>2, <3>3
  <2> QED BY <2>4, <2>5
<1>4. AllFit
  <2> SUFFICES ASSUME NEW t \in Tenants, NEW k \in OpIds, ops[t][k] # NoOp
               PROVE  RowFits(t, k)
    BY DEF AllFit, RowFits
  <2>1. PICK c \in Seeded : Owner[c] = t /\ k = InitialKey(c)
    BY <1>3
  <2>2. ops[t][k] = InitialRow(c, SeedValue[c])
    BY <1>3, <2>1
  <2>3. PICK o : o = ops[t][k]
    OBVIOUS
  <2>4. o.state = "completed" /\ o.counter = c /\ o.kind = "initial_value"
    BY <2>2, <2>3 DEF InitialRow
  <2>5. c \in Counters /\ k \notin Keys /\ \A d \in Counters : k = InitialKey(d) => d = c
    BY <2>1 DEF InitialKey
  <2> QED BY <2>1, <2>3, <2>4, <2>5 DEF RowFits
<1>5. \A t \in Tenants, c \in Counters :
        OperationsOf(t, c) = IF ops[t][InitialKey(c)] # NoOp THEN {InitialKey(c)} ELSE {}
  <2> SUFFICES ASSUME NEW t \in Tenants, NEW c \in Counters
               PROVE  OperationsOf(t, c)
                        = IF ops[t][InitialKey(c)] # NoOp THEN {InitialKey(c)} ELSE {}
    OBVIOUS
  <2>1. \A k \in OpIds : ops[t][k] # NoOp /\ ops[t][k].counter = c => k = InitialKey(c)
    BY <1>3, <1>4 DEF AllFit, RowFits
  <2>2. InitialKey(c) \in OpIds
    BY DEF OpIds
  <2>3. ops[t][InitialKey(c)] # NoOp =>
          ops[t][InitialKey(c)].counter = c /\ ops[t][InitialKey(c)].state = "completed"
    BY <1>4, <2>2 DEF AllFit, RowFits
  <2>4. OperationsOf(t, c) = {k \in OpIds : ops[t][k] # NoOp /\ ops[t][k].counter = c
                                              /\ ops[t][k].state = "completed"}
    BY DEF OperationsOf
  <2> QED BY <2>1, <2>2, <2>3, <2>4
<1>6. RowsFinite
  <2>1. IsFiniteSet({}) /\ \A k : IsFiniteSet({k})
    BY FS_EmptySet, FS_Singleton
  <2> SUFFICES ASSUME NEW t \in Tenants, NEW c \in Counters
               PROVE  IsFiniteSet(OperationsOf(t, c))
    BY DEF RowsFinite
  <2>2. OperationsOf(t, c) = {InitialKey(c)} \/ OperationsOf(t, c) = {}
    BY <1>5
  <2>3. IsFiniteSet({InitialKey(c)})
    BY <2>1
  <2> QED BY ONLY <2>1, <2>2, <2>3, Zenon
<1>7. ASSUME NEW c \in Seeded
      PROVE  /\ ops[Owner[c]][InitialKey(c)] = NoOp <=> dam[c] = "headless"
             /\ TotalDelta(c) = IF dam[c] = "headless" THEN 0 ELSE SeedValue[c]
  <2>1. c \in Counters /\ Owner[c] \in Tenants /\ InitialKey(c) \in OpIds
    BY DEF OpIds
  <2>2. SeedValue[c] \in Int
    BY <2>1 DEF MinInt
  <2>4. CASE dam[c] = "headless"
    <3>1. ops[Owner[c]][InitialKey(c)] = NoOp
      BY <1>3, <2>1, <2>4
    <3>2. OperationsOf(Owner[c], c) = {}
      BY <1>5, <2>1, <3>1
    <3>3. TotalDelta(c) = 0
      BY <3>2, TotalIsSum, SumEmpty
    <3> QED BY <2>4, <3>1, <3>3
  <2>5. CASE dam[c] # "headless"
    <3>1. ops[Owner[c]][InitialKey(c)] = InitialRow(c, SeedValue[c])
      BY <1>3, <2>1, <2>5
    <3>2. InitialRow(c, SeedValue[c]) # NoOp
      <4>1. InitialRow(c, SeedValue[c]) \in OpRows
        BY <2>1 DEF InitialRow, OpRows, OpKinds, OpStates, Actors, Hashes, Int64, MinInt
      <4> QED BY <4>1
    <3>3. OperationsOf(Owner[c], c) = {InitialKey(c)}
      BY <1>5, <2>1, <3>1, <3>2
    <3>4. ops[Owner[c]][InitialKey(c)].delta = SeedValue[c]
      BY <3>1 DEF InitialRow
    <3>5. DeltaSum(ops[Owner[c]], {InitialKey(c)}) = ops[Owner[c]][InitialKey(c)].delta
      BY <2>2, <3>4, SumSingle
    <3>6. TotalDelta(c) = SeedValue[c]
      BY <3>3, <3>4, <3>5, TotalIsSum
    <3> QED BY <2>5, <3>1, <3>2, <3>6
  <2> QED BY <2>4, <2>5
<1> QED BY <1>4, <1>6, <1>7

\* So are the tables the readers may find.
LEMMA InitLedger == HistoryInit => LedgerInv
<1> SUFFICES ASSUME HistoryInit PROVE LedgerInv
  OBVIOUS
<1>1. damage \in [Seeded -> Kinds] /\ live = Seeded /\ IsFiniteSet(live)
  BY DEF HistoryInit
<1>2. \A t \in Tenants, k \in OpIds :
        ops[t][k] = IF \E c \in Seeded : k = InitialKey(c) /\ damage[c] = "headless"
                    THEN NoOp ELSE SeedOps[t][k]
  BY DEF HistoryInit
<1>3. /\ AllFit /\ RowsFinite
      /\ \A c \in Seeded :
            /\ ops[Owner[c]][InitialKey(c)] = NoOp <=> damage[c] = "headless"
            /\ TotalDelta(c) = IF damage[c] = "headless" THEN 0 ELSE SeedValue[c]
  <2>1. PICK dam : dam = damage
    OBVIOUS
  <2> QED BY <1>1, <1>2, <2>1, SeededTables
<1>4. \A c \in live : Tallies(c)
  <2> SUFFICES ASSUME NEW c \in Seeded PROVE Tallies(c)
    BY <1>1
  <2>1. c \in Counters /\ damage[c] \in Kinds /\ SeedValue[c] \in Int
    BY <1>1 DEF MinInt
  <2>2. value[c] = IF damage[c] = "drift" THEN SeedValue[c] + 1 ELSE SeedValue[c]
    BY <2>1 DEF HistoryInit
  <2>3. Headless(c) <=> damage[c] = "headless"
    BY DEF Headless
  <2>4. Drift(c) = IF damage[c] = "headless" THEN SeedValue[c]
                   ELSE IF damage[c] = "drift" THEN 1 ELSE 0
    BY <2>1 DEF Drift, DriftOf, Kinds
  <2> QED BY <1>3, <2>1, <2>2, <2>3, <2>4 DEF Tallies
<1> QED BY <1>1, <1>3, <1>4 DEF LedgerInv

\* Two steps that write nothing but the clock and the stamps of requests.
LEMMA ClockType ==
  ASSUME HistoryTypeOK,
         \/ \E r \in Requests : Arrive(r) \/ Fall(r)
         \/ Tick
  PROVE  HistoryTypeOK'
<1>1. CASE \E r \in Requests : Arrive(r)
  BY <1>1 DEF HistoryTypeOK, Arrive, tables
<1>2. CASE \E r \in Requests : Fall(r)
  BY <1>2 DEF HistoryTypeOK, Fall, tables
<1>3. CASE Tick
  <2>1. now' \in Times
    BY <1>3 DEF HistoryTypeOK, Tick, Times
  <2> QED BY <1>3, <2>1 DEF HistoryTypeOK, Tick, tables
<1> QED BY <1>1, <1>2, <1>3

\* Writers keep the types: a stamp is a time that has been.
LEMMA PostType ==
  ASSUME HistoryTypeOK, LedgerInv, NEW r \in Requests, LandMutation(r)
  PROVE  HistoryTypeOK'
<1>1. PICK row :
        /\ Commits(r.tenant, r.key, row)
        /\ value' = [value EXCEPT ![r.counter] = value[r.counter] + row.delta]
        /\ value[r.counter] + row.delta \in Int64
  BY HistorySound, PostCommits DEF LandMutation
<1>2. r.tenant \in Tenants /\ r.key \in OpIds /\ r.key \in Keys
  BY DEF RequestShape, OpIds
<1>3. ops' \in [Tenants -> [OpIds -> OpRows \cup {NoOp}]]
  BY <1>1 DEF HistoryTypeOK, Commits
<1>4. value' \in [Counters -> Int64]
  BY <1>1 DEF HistoryTypeOK
<1>5. audit' \in [Keys -> Tenants \cup {NoTenant}]
  <2>1. \/ audit' = audit
        \/ audit' = [audit EXCEPT ![r.key] = r.tenant]
    BY DEF LandMutation, Tables!Post
  <2>2. audit \in [Keys -> Tenants \cup {NoTenant}]
    BY DEF HistoryTypeOK
  <2> QED BY <1>2, <2>1, <2>2
<1>6. live' = live /\ label' = label
  BY DEF LandMutation, Tables!Post
<1>7. flying[r] \in Times
  BY DEF HistoryTypeOK, LandMutation
<1>8. stamp' \in [Tenants -> [OpIds -> Times]]
  BY <1>2, <1>7 DEF HistoryTypeOK, LandMutation
<1>9. flying' \in [Requests -> Times \cup {OnGround}]
  BY DEF HistoryTypeOK, LandMutation
<1>10. UNCHANGED <<born, now, damage, walk, scan>>
  BY DEF LandMutation
<1> QED BY <1>3, <1>4, <1>5, <1>6, <1>8, <1>9, <1>10 DEF HistoryTypeOK

LEMMA OpenType ==
  ASSUME HistoryTypeOK, LedgerInv, NEW r \in Requests, NEW c \in Counters, LandCreate(r, c)
  PROVE  HistoryTypeOK'
<1>1. PICK row :
        /\ Commits(r.tenant, InitialKey(c), row)
        /\ live' = live \cup {c}
        /\ value' = [value EXCEPT ![c] = row.delta]
        /\ row.delta \in Int64
  BY HistorySound, OpenCommits DEF LandCreate
<1>2. r.tenant \in Tenants /\ InitialKey(c) \in OpIds /\ r.label \in Labels
  BY DEF RequestShape, OpIds
<1>3. ops' \in [Tenants -> [OpIds -> OpRows \cup {NoOp}]]
  BY <1>1 DEF HistoryTypeOK, Commits
<1>4. value' \in [Counters -> Int64]
  BY <1>1 DEF HistoryTypeOK
<1>5. label' \in [Counters -> Labels] /\ audit' = audit
  BY <1>2 DEF HistoryTypeOK, LandCreate, Tables!Open
<1>6. live' \in SUBSET Counters
  BY <1>1 DEF HistoryTypeOK
<1>7. flying[r] \in Times
  BY DEF HistoryTypeOK, LandCreate
<1>8. stamp' \in [Tenants -> [OpIds -> Times]]
  BY <1>2, <1>7 DEF HistoryTypeOK, LandCreate
<1>9. born' \in [Counters -> Times]
  BY <1>7 DEF HistoryTypeOK, LandCreate
<1>10. flying' \in [Requests -> Times \cup {OnGround}]
  BY DEF HistoryTypeOK, LandCreate
<1>11. UNCHANGED <<now, damage, walk, scan>>
  BY DEF LandCreate
<1> QED BY <1>3, <1>4, <1>5, <1>6, <1>8, <1>9, <1>10, <1>11 DEF HistoryTypeOK

\* The rows a listing reads: finitely many, with ids of one kind.
LEMMA ScopeType ==
  ASSUME HistoryTypeOK, LedgerInv, NEW t \in Tenants, NEW of \in Counters \cup {NoCounter}
  PROVE  /\ IsFiniteSet(Scope(t, of))
         /\ Scope(t, of) \subseteq Entries
         /\ \E I \in {Counters, OpIds} : Scope(t, of) \subseteq [at : Times, id : I]
<1>1. /\ born \in [Counters -> Times] /\ live \subseteq Counters
      /\ stamp \in [Tenants -> [OpIds -> Times]]
  BY DEF HistoryTypeOK
<1>2. CASE of = NoCounter
  <2>0. PICK D : D = {d \in live : Owner[d] = t}
    OBVIOUS
  <2> DEFINE f == [d \in D |-> Entry(born[d], d)]
  <2>1. Scope(t, of) = {f[d] : d \in D}
    <3>1. Scope(t, of) = {Entry(born[d], d) : d \in D}
      BY <1>2, <2>0, Zenon DEF Scope, CounterEntries
    <3> QED BY <3>1
  <2>2. IsFiniteSet(D) /\ D \subseteq Counters
    BY <1>1, <2>0, FS_Subset DEF LedgerInv
  <2>3. f \in Surjection(D, Scope(t, of))
    BY <2>1 DEF Surjection
  <2>4. IsFiniteSet(Scope(t, of))
    <3> HIDE DEF f
    <3> QED BY <2>2, <2>3, FS_Surjection
  <2>5. Scope(t, of) \subseteq [at : Times, id : Counters]
    BY <1>1, <2>1, <2>2 DEF Entry
  <2>6. [at : Times, id : Counters] \subseteq Entries
    BY DEF Entries
  <2> HIDE DEF f
  <2> QED BY <2>4, <2>5, <2>6
<1>3. CASE of # NoCounter
  <2> DEFINE D == OperationsOf(t, of)
             f == [k \in D |-> Entry(stamp[t][k], k)]
  <2>1. Scope(t, of) = {f[k] : k \in D}
    BY <1>3 DEF Scope, OperationEntries
  <2>2. IsFiniteSet(D) /\ D \subseteq OpIds
    BY <1>3 DEF LedgerInv, RowsFinite, OperationsOf
  <2>3. f \in Surjection(D, Scope(t, of))
    BY <2>1 DEF Surjection
  <2>4. IsFiniteSet(Scope(t, of))
    <3> HIDE DEF D, f
    <3> QED BY <2>2, <2>3, FS_Surjection
  <2>5. Scope(t, of) \subseteq [at : Times, id : OpIds]
    BY <1>1, <2>1, <2>2 DEF Entry
  <2>6. [at : Times, id : OpIds] \subseteq Entries
    BY DEF Entries
  <2> HIDE DEF D, f
  <2> QED BY <2>4, <2>5, <2>6
<1> QED BY <1>2, <1>3

-----------------------------------------------------------------------------
(* Walks.                                                                  *)

\* Committed rows keep their place: a listing only ever gains rows.
Grows == \A t \in Tenants, of \in Counters \cup {NoCounter} : Scope(t, of) \subseteq Scope(t, of)'

\* Whoever writes, and whoever does not, removes no row and moves none.
LEMMA SameGrows ==
  ASSUME UNCHANGED <<live, ops, born, stamp>>
  PROVE  Grows
  BY DEF Grows, Scope, CounterEntries, OperationEntries, OperationsOf, Entry

LEMMA PostGrows ==
  ASSUME HistoryTypeOK, LedgerInv, NEW r \in Requests, LandMutation(r)
  PROVE  Grows
<1> SUFFICES ASSUME NEW t \in Tenants, NEW of \in Counters \cup {NoCounter}
             PROVE  Scope(t, of) \subseteq Scope(t, of)'
  BY DEF Grows
<1>1. PICK row : Commits(r.tenant, r.key, row)
  BY HistorySound, PostCommits DEF LandMutation
<1>2. live' = live /\ born' = born /\ stamp' = [stamp EXCEPT ![r.tenant][r.key] = flying[r]]
  BY DEF LandMutation, Tables!Post
<1>3. CASE of = NoCounter
  BY <1>2, <1>3 DEF Scope, CounterEntries, Entry
<1>4. CASE of # NoCounter
  <2>1. OperationsOf(t, of) \subseteq OperationsOf(t, of)' /\ r.key \notin OperationsOf(r.tenant, of)
    BY <1>1, <1>4, HistorySound, CommitAdds DEF TablesSound
  <2>2. \A k \in OperationsOf(t, of) : stamp'[t][k] = stamp[t][k]
    <3>1. r.tenant \in Tenants /\ r.key \in OpIds
      BY <1>1 DEF Commits
    <3>2. stamp \in [Tenants -> [OpIds -> Times]] /\ OperationsOf(t, of) \subseteq OpIds
      BY DEF HistoryTypeOK, OperationsOf
    <3> QED BY <1>2, <2>1, <3>1, <3>2
  <2> QED BY <1>4, <2>1, <2>2 DEF Scope, OperationEntries, Entry
<1> QED BY <1>3, <1>4

LEMMA OpenGrows ==
  ASSUME HistoryTypeOK, LedgerInv, NEW r \in Requests, NEW c \in Counters, LandCreate(r, c)
  PROVE  Grows
<1> SUFFICES ASSUME NEW t \in Tenants, NEW of \in Counters \cup {NoCounter}
             PROVE  Scope(t, of) \subseteq Scope(t, of)'
  BY DEF Grows
<1>1. PICK row : Commits(r.tenant, InitialKey(c), row) /\ c \notin live /\ live' = live \cup {c}
  BY HistorySound, OpenCommits DEF LandCreate
<1>2. /\ born' = [born EXCEPT ![c] = flying[r]]
      /\ stamp' = [stamp EXCEPT ![r.tenant][InitialKey(c)] = flying[r]]
  BY DEF LandCreate
<1>3. CASE of = NoCounter
  <2>1. \A d \in live : d \in live' /\ born'[d] = born[d]
    BY <1>1, <1>2 DEF HistoryTypeOK
  <2> QED BY <1>3, <2>1 DEF Scope, CounterEntries, Entry
<1>4. CASE of # NoCounter
  <2>1. /\ OperationsOf(t, of) \subseteq OperationsOf(t, of)'
        /\ InitialKey(c) \notin OperationsOf(r.tenant, of)
    BY <1>1, <1>4, HistorySound, CommitAdds DEF TablesSound
  <2>2. \A k \in OperationsOf(t, of) : stamp'[t][k] = stamp[t][k]
    BY <1>2, <2>1 DEF HistoryTypeOK, OperationsOf
  <2> QED BY <1>4, <2>1, <2>2 DEF Scope, OperationEntries, Entry
<1> QED BY <1>3, <1>4

\* So a walk that does not move stays faithful.
LEMMA WalkKept ==
  ASSUME HistoryTypeOK, WalkInv, walk' = walk, Grows
  PROVE  WalkInv'
<1> SUFFICES ASSUME walk.pc # "off" PROVE WalkInv'
  BY DEF WalkInv
<1>1. Scope(walk.tenant, walk.of) \subseteq Scope(walk.tenant, walk.of)'
  <2>1. walk.tenant \in Tenants /\ walk.of \in Counters \cup {NoCounter}
    BY DEF WalkInv, HistoryTypeOK
  <2>2. PICK t, of : t = walk.tenant /\ of = walk.of
    OBVIOUS
  <2>3. Scope(t, of) \subseteq Scope(t, of)'
    BY <2>1, <2>2 DEF Grows
  <2>4. Scope(walk.tenant, walk.of)' = Scope(t, of)'
    BY <2>2 DEF Scope, CounterEntries, OperationEntries, OperationsOf, Entry
  <2> QED BY <2>2, <2>3, <2>4
<1>2. RowOrder(walk.of)' = RowOrder(walk.of)
  BY DEF RowOrder, Precedes
<1>3. Range(walk.listed)' = Range(walk.listed)
  BY DEF Range
<1> QED BY <1>1, <1>2, <1>3 DEF WalkInv

\* A step of a client: nothing else moves.
Walks == UNCHANGED <<live, value, label, ops, audit, born, stamp, now, flying, damage, scan>>

\* The types hold if the walk has its type.
LEMMA WalkType ==
  ASSUME HistoryTypeOK, Walks,
         walk' \in [pc : {"off", "ask", "found", "not_found", "end"},
                    of : Counters \cup {NoCounter}, tenant : Tenants \cup {NoTenant},
                    cursor : Entries \cup {NoCursor}, listed : Seq(Entries),
                    prior : SUBSET Entries]
  PROVE  HistoryTypeOK'
  BY DEF HistoryTypeOK, Walks

\* Nothing is listed yet, and everything committed is still to come.
LEMMA BeginWalkStep ==
  ASSUME HistoryTypeOK, LedgerInv, NEW t \in Tenants, NEW of \in Counters \cup {NoCounter},
         BeginWalk(t, of)
  PROVE  HistoryTypeOK' /\ WalkInv'
<1>1. Walks
  BY DEF BeginWalk, tables, Walks
<1>2. walk' = [pc |-> "ask", of |-> of, tenant |-> t, cursor |-> NoCursor, listed |-> <<>>,
               prior |-> Scope(t, of)]
  BY DEF BeginWalk, Scope
<1>3. Scope(t, of) \subseteq Entries
  BY ScopeType
<1>4. HistoryTypeOK'
  BY <1>1, <1>2, <1>3, WalkType
<1>5. Scope(t, of)' = Scope(t, of)
  BY <1>1 DEF Walks, Scope, CounterEntries, OperationEntries, OperationsOf, Entry
<1>6. Range(walk.listed)' = {}
  BY <1>2 DEF Range
<1>7. Scope(walk.tenant, walk.of)' = Scope(t, of)
  <2>1. Scope(walk.tenant, walk.of)' = Scope(t, of)'
    BY <1>2 DEF Scope, CounterEntries, OperationEntries, OperationsOf, Entry
  <2> QED BY <1>5, <2>1
<1>8. WalkInv'
  BY <1>2, <1>6, <1>7 DEF WalkInv
<1> QED BY <1>4, <1>8

\* A step that lists nothing: the look-up, or a page that is lost.
LEMMA WalkPlaces ==
  ASSUME HistoryTypeOK, WalkInv, Walks, walk.pc # "off", walk'.pc # "off",
         walk' = [walk EXCEPT !.pc = walk'.pc],
         walk'.pc = "found" /\ walk.of # NoCounter => Owner[walk.of] = walk.tenant,
         walk.pc # "end", walk'.pc # "end",
         walk'.pc \in {"ask", "found", "not_found"}
  PROVE  HistoryTypeOK' /\ WalkInv'
<1>1. /\ walk'.of = walk.of /\ walk'.tenant = walk.tenant /\ walk'.cursor = walk.cursor
      /\ walk'.listed = walk.listed /\ walk'.prior = walk.prior
  BY DEF HistoryTypeOK
<1>2. HistoryTypeOK'
  BY WalkType DEF HistoryTypeOK
<1>3. Scope(walk.tenant, walk.of)' = Scope(walk.tenant, walk.of)
  BY <1>1 DEF Walks, Scope, CounterEntries, OperationEntries, OperationsOf, Entry
<1>4. RowOrder(walk.of)' = RowOrder(walk.of)
  BY <1>1 DEF RowOrder, Precedes
<1>5. Range(walk.listed)' = Range(walk.listed)
  BY <1>1 DEF Range
<1>6. WalkInv'
  BY <1>1, <1>3, <1>4, <1>5 DEF WalkInv
<1> QED BY <1>2, <1>6

LEMMA LookupStep ==
  ASSUME HistoryTypeOK, WalkInv, Lookup \/ PageFails
  PROVE  HistoryTypeOK' /\ WalkInv'
<1>1. Walks
  BY DEF Lookup, PageFails, tables, Walks
<1>2. /\ walk.pc \in {"ask", "found"}
      /\ walk'.pc \in {"ask", "found", "not_found"}
      /\ walk' = [walk EXCEPT !.pc = walk'.pc]
      /\ walk'.pc = "found" /\ walk.of # NoCounter => Owner[walk.of] = walk.tenant
  <2>1. CASE Lookup /\ walk'.pc = "found"
    BY <2>1 DEF Lookup, HistoryTypeOK
  <2>2. CASE Lookup /\ walk'.pc # "found"
    BY <2>2 DEF Lookup, HistoryTypeOK
  <2>3. CASE PageFails
    BY <2>3 DEF PageFails, HistoryTypeOK
  <2> QED BY <2>1, <2>2, <2>3
<1> QED BY <1>1, <1>2, WalkPlaces

\* What is left of a listing after the cursor.
Rest(t, of, cursor) == {e \in Scope(t, of) : cursor = NoCursor \/ <<cursor, e>> \in RowOrder(of)}

\* One row more than the limit is read and cut off: a page of what is left.
LEMMA ReadsPage ==
  ASSUME HistoryTypeOK, LedgerInv, NEW n \in Limits, ReadPage(n), walk.tenant \in Tenants
  PROVE  \E page :
            /\ PageOf(page, Rest(walk.tenant, walk.of, walk.cursor), RowOrder(walk.of))
            /\ walk' = [walk EXCEPT !.pc = IF page.next = NoCursor THEN "end" ELSE "ask",
                                    !.cursor = page.next,
                                    !.listed = @ \o page.rows]
<1>1. PICK t, of, from : t = walk.tenant /\ of = walk.of /\ from = walk.cursor
  OBVIOUS
<1>2. /\ t \in Tenants /\ of \in Counters \cup {NoCounter} /\ from \in Entries \cup {NoCursor}
      /\ n \in Nat \ {0}
  BY <1>1 DEF HistoryTypeOK
<1>3. PICK S : S = Rest(t, of, from)
  OBVIOUS
<1>4. PICK I \in {Counters, OpIds} : Scope(t, of) \subseteq [at : Times, id : I]
  BY <1>2, ScopeType
<1>5. /\ S \subseteq [at : Times, id : I]
      /\ S \subseteq Entries
      /\ NoCursor \notin S
  <2>1. S \subseteq Scope(t, of)
    BY <1>3 DEF Rest
  <2>2. Scope(t, of) \subseteq Entries
    BY <1>2, ScopeType
  <2> QED BY <1>4, <2>1, <2>2
<1>6. IsFiniteSet(S)
  <2>1. IsFiniteSet(Scope(t, of)) /\ S \in SUBSET Scope(t, of)
    BY <1>2, <1>3, ScopeType DEF Rest
  <2> QED BY <2>1, FS_Subset
<1>7. CASE of = NoCounter
  <2>1. ListCounters(t, from, n + 1) = LimitTo(OrderBy(S, Precedes), n + 1)
    <3>1. S = {e \in CounterEntries(t) : from = NoCursor \/ Precedes(from, e)}
      <4>1. \A e \in Scope(t, of) : e \in Entries
        BY <1>2, ScopeType
      <4> QED BY <1>2, <1>3, <1>7, <4>1 DEF Rest, Scope, RowOrder
    <3> QED BY <3>1 DEF ListCounters
  <2>2. PICK s : s = OrderBy(S, Precedes)
    OBVIOUS
  <2>3. Lists(s, S, RowOrder(of))
    BY <1>5, <1>6, <1>7, <2>2, Ascending
  <2>4. PICK page : page = CutPage(LimitTo(s, n + 1), n)
    OBVIOUS
  <2>5. PageOf(page, S, RowOrder(of))
    BY <1>2, <1>5, <2>3, <2>4, PageFacts
  <2>6. walk' = [walk EXCEPT !.pc = IF page.next = NoCursor THEN "end" ELSE "ask",
                             !.cursor = page.next, !.listed = @ \o page.rows]
    BY <1>1, <1>7, <2>1, <2>2, <2>4 DEF ReadPage
  <2> QED BY <1>1, <1>3, <2>5, <2>6
<1>8. CASE of # NoCounter
  <2>2. PICK s : s = OrderBy(S, LAMBDA a, b : Precedes(b, a))
    OBVIOUS
  <2>1. ListOperations(t, of, from, n + 1) = LimitTo(s, n + 1)
    <3>1. S = {e \in OperationEntries(t, of) : from = NoCursor \/ Precedes(e, from)}
      <4>1. \A e \in Scope(t, of) : e \in Entries
        BY <1>2, ScopeType
      <4> QED BY <1>2, <1>3, <1>8, <4>1 DEF Rest, Scope, RowOrder
    <3> QED BY <2>2, <3>1 DEF ListOperations
  <2>3. Lists(s, S, RowOrder(of))
    BY <1>5, <1>6, <1>8, <2>2, Descending
  <2>4. PICK page : page = CutPage(LimitTo(s, n + 1), n)
    OBVIOUS
  <2>5. PageOf(page, S, RowOrder(of))
    BY <1>2, <1>5, <2>3, <2>4, PageFacts
  <2>6. walk' = [walk EXCEPT !.pc = IF page.next = NoCursor THEN "end" ELSE "ask",
                             !.cursor = page.next, !.listed = @ \o page.rows]
    BY <1>1, <1>8, <2>1, <2>4 DEF ReadPage
  <2> QED BY <1>1, <1>3, <2>5, <2>6
<1> QED BY <1>7, <1>8

\* The page follows what has been listed, and misses nothing before the new
\* cursor.
LEMMA PageStep ==
  ASSUME HistoryTypeOK, LedgerInv, WalkInv, NEW n \in Limits, ReadPage(n)
  PROVE  HistoryTypeOK' /\ WalkInv'
<1>1. walk.pc = "found" /\ Walks
  BY DEF ReadPage, tables, Walks
<1>2. PICK t, of, from, l, prior :
        t = walk.tenant /\ of = walk.of /\ from = walk.cursor /\ l = walk.listed /\ prior = walk.prior
  OBVIOUS
<1>3. /\ t \in Tenants /\ of \in Counters \cup {NoCounter}
      /\ from \in Entries \cup {NoCursor} /\ l \in Seq(Entries) /\ prior \subseteq Entries
  BY <1>1, <1>2 DEF HistoryTypeOK, WalkInv
<1>4. PICK page :
        /\ PageOf(page, Rest(t, of, from), RowOrder(of))
        /\ walk' = [walk EXCEPT !.pc = IF page.next = NoCursor THEN "end" ELSE "ask",
                                !.cursor = page.next,
                                !.listed = @ \o page.rows]
  BY <1>2, <1>3, ReadsPage
<1>5. PICK m, next : m = page.rows /\ next = page.next
  OBVIOUS
<1>6. PICK R, S : R = RowOrder(of) /\ S = Rest(t, of, from)
  OBVIOUS
<1>7. /\ m \in Seq(S)
      /\ \A i, j \in 1 .. Len(m) : i < j => <<m[i], m[j]>> \in R
      /\ next = NoCursor => \A e \in S : \E i \in 1 .. Len(m) : m[i] = e
      /\ next # NoCursor =>
            /\ Len(m) > 0
            /\ next = m[Len(m)]
            /\ \A e \in S : (\E i \in 1 .. Len(m) : m[i] = e) \/ <<next, e>> \in R
  BY <1>4, <1>5, <1>6 DEF PageOf
<1>8. /\ walk'.pc = IF next = NoCursor THEN "end" ELSE "ask"
      /\ walk'.cursor = next
      /\ walk'.listed = l \o m
      /\ walk'.of = of /\ walk'.tenant = t /\ walk'.prior = prior
      /\ walk' = [walk EXCEPT !.pc = walk'.pc, !.cursor = next, !.listed = l \o m]
  BY <1>2, <1>4, <1>5 DEF HistoryTypeOK
<1>9. /\ Range(l) \cup prior \subseteq Scope(t, of)
      /\ \A i, j \in 1 .. Len(l) : i < j => <<l[i], l[j]>> \in R
      /\ of # NoCounter => Owner[of] = t
      /\ from = NoCursor => l = <<>>
      /\ from # NoCursor =>
            /\ Len(l) > 0
            /\ from = l[Len(l)]
            /\ \A e \in prior : e \in Range(l) \/ <<from, e>> \in R
  BY <1>1, <1>2, <1>6 DEF WalkInv
<1>10. PICK I \in {Counters, OpIds} : Scope(t, of) \subseteq [at : Times, id : I]
  BY <1>3, ScopeType
<1>11. StrictTotal(R, Scope(t, of))
  BY <1>6, <1>10, OrderStrict
<1>12. S \subseteq Scope(t, of) /\ Scope(t, of) \subseteq Entries
  BY <1>3, <1>6, ScopeType DEF Rest
<1>13. \A i \in 1 .. Len(l) : l[i] \in Range(l) /\ l[i] \in Scope(t, of)
  BY <1>3, <1>9 DEF Range
<1>14. \A e \in S : from = NoCursor \/ <<from, e>> \in R
  BY <1>6 DEF Rest
<1>15. \A i \in 1 .. Len(l), e \in S : <<l[i], e>> \in R
  <2> SUFFICES ASSUME NEW i \in 1 .. Len(l), NEW e \in S PROVE <<l[i], e>> \in R
    OBVIOUS
  <2>1. from # NoCursor
    BY <1>9
  <2>2. Len(l) \in Nat /\ Len(l) \in 1 .. Len(l) /\ from = l[Len(l)] /\ <<from, e>> \in R
    BY <1>3, <1>9, <1>14, <2>1
  <2>3. CASE i = Len(l)
    BY <2>2, <2>3
  <2>4. CASE i < Len(l)
    <3>1. <<l[i], from>> \in R /\ from \in Scope(t, of) /\ l[i] \in Scope(t, of) /\ e \in Scope(t, of)
      BY <1>9, <1>12, <1>13, <2>2, <2>4
    <3> QED BY <1>11, <2>2, <3>1 DEF StrictTotal
  <2> QED BY <2>2, <2>3, <2>4
<1>16. m \in Seq(Entries) /\ \A j \in 1 .. Len(m) : m[j] \in S
  <2>1. \A j \in 1 .. Len(m) : m[j] \in S
    BY <1>7
  <2> QED BY <1>7, <1>12, <2>1
<1>17. \A i \in 1 .. Len(l), j \in 1 .. Len(m) : <<l[i], m[j]>> \in R
  BY <1>15, <1>16
<1>18. PICK k : k = l \o m
  OBVIOUS
<1>19. /\ k \in Seq(Entries)
       /\ Ordered(k, R)
       /\ Range(k) = Range(l) \cup Range(m)
       /\ Len(m) > 0 => Len(k) > 0 /\ k[Len(k)] = m[Len(m)]
  <2>1. l \in Seq(Entries) /\ m \in Seq(Entries)
    BY <1>3, <1>16
  <2>2. Ordered(l, R) /\ Ordered(m, R) /\ Follows(m, l, R)
    BY <1>7, <1>9, <1>17 DEF Ordered, Follows
  <2>3. k \in Seq(Entries) /\ Joins(k, l, m)
    BY <1>18, <2>1 DEF Joins
  <2> QED BY <2>1, <2>2, <2>3, OrderedAppend
<1>20. Range(m) \subseteq S /\ \A j \in 1 .. Len(m) : m[j] \in Range(m)
  BY <1>16 DEF Range
<1>21. next \in Entries \cup {NoCursor}
  BY <1>7, <1>12, <1>16
<1>22. HistoryTypeOK'
  <2>1. walk'.pc \in {"ask", "end"}
    BY <1>8
  <2>2. walk \in [pc : {"off", "ask", "found", "not_found", "end"},
                  of : Counters \cup {NoCounter}, tenant : Tenants \cup {NoTenant},
                  cursor : Entries \cup {NoCursor}, listed : Seq(Entries),
                  prior : SUBSET Entries]
    BY DEF HistoryTypeOK
  <2>3. walk' \in [pc : {"off", "ask", "found", "not_found", "end"},
                   of : Counters \cup {NoCounter}, tenant : Tenants \cup {NoTenant},
                   cursor : Entries \cup {NoCursor}, listed : Seq(Entries),
                   prior : SUBSET Entries]
    BY <1>8, <1>18, <1>19, <1>21, <2>1, <2>2
  <2> QED BY <1>1, <2>3, WalkType
<1>23. Scope(walk.tenant, walk.of)' = Scope(t, of)
  <2>1. Scope(t, of)' = Scope(t, of)
    BY <1>1 DEF Walks, Scope, CounterEntries, OperationEntries, OperationsOf, Entry
  <2>2. Scope(walk.tenant, walk.of)' = Scope(t, of)'
    BY <1>8 DEF Scope, CounterEntries, OperationEntries, OperationsOf, Entry
  <2> QED BY <2>1, <2>2
<1>24. RowOrder(walk.of)' = R
  BY <1>6, <1>8 DEF RowOrder, Precedes
<1>25. Range(walk.listed)' = Range(k)
  BY <1>8, <1>18 DEF Range
<1>26. \A e \in prior : e \in Range(l) \/ e \in S
  <2>1. CASE from = NoCursor
    BY <1>6, <1>9, <2>1 DEF Rest
  <2>2. CASE from # NoCursor
    BY <1>6, <1>9, <2>2 DEF Rest
  <2> QED BY <2>1, <2>2
<1>27. /\ next = NoCursor => prior \subseteq Range(k)
       /\ next # NoCursor => \A e \in prior : e \in Range(k) \/ <<next, e>> \in R
  <2>1. Range(k) = Range(l) \cup Range(m)
    BY <1>18, <1>19
  <2>2. \A e \in S : (\E i \in 1 .. Len(m) : m[i] = e) => e \in Range(m)
    BY <1>20
  <2> QED BY <1>7, <1>26, <2>1, <2>2
<1>28. Range(k) \cup prior \subseteq Scope(t, of)
  BY <1>9, <1>12, <1>18, <1>19, <1>20
<1>29. next # NoCursor => Len(k) > 0 /\ next = k[Len(k)]
  BY <1>7, <1>18, <1>19
<1>30. \A i, j \in 1 .. Len(k) : i < j => <<k[i], k[j]>> \in R
  BY <1>19 DEF Ordered
<1>31. walk'.listed = k /\ (walk'.pc = "end" <=> next = NoCursor) /\ walk'.pc # "found"
  BY <1>8, <1>18
<1>32. WalkInv'
  <2>1. /\ walk'.tenant \in Tenants
        /\ Range(walk.listed)' \cup walk'.prior \subseteq Scope(walk.tenant, walk.of)'
    BY <1>3, <1>8, <1>23, <1>25, <1>28
  <2>2. \A i, j \in 1 .. Len(walk'.listed) :
            i < j => <<walk'.listed[i], walk'.listed[j]>> \in RowOrder(walk.of)'
    BY <1>24, <1>30, <1>31
  <2>3. walk'.of # NoCounter => Owner[walk'.of] = walk'.tenant
    BY <1>8, <1>9
  <2>4. walk'.pc # "end" => walk'.cursor # NoCursor
    BY <1>8, <1>31
  <2>5. walk'.cursor # NoCursor =>
          /\ Len(walk'.listed) > 0
          /\ walk'.cursor = walk'.listed[Len(walk'.listed)]
          /\ \A e \in walk'.prior : e \in Range(walk.listed)'
                                     \/ <<walk'.cursor, e>> \in RowOrder(walk.of)'
    BY <1>8, <1>24, <1>25, <1>27, <1>29, <1>31
  <2>6. walk'.pc = "end" => walk'.prior \subseteq Range(walk.listed)'
    BY <1>8, <1>25, <1>27, <1>31
  <2> QED BY <2>1, <2>2, <2>3, <2>4, <2>5, <2>6 DEF WalkInv
<1> QED BY <1>22, <1>32

-----------------------------------------------------------------------------
(* Reconciliation.                                                         *)

SoonerThan == {p \in Counters \X Counters : Sooner(p[1], p[2])}

\* (tenant_id, id) orders the counters strictly.
LEMMA SoonerStrict ==
  ASSUME NEW S, S \subseteq Counters
  PROVE  /\ StrictTotal(SoonerThan, S)
         /\ \A c, d \in S : <<c, d>> \in SoonerThan <=> Sooner(c, d)
<1>1. \A c \in S : c \in Counters /\ Owner[c] \in Tenants /\ Rank[c] \in Int /\ Rank[Owner[c]] \in Int
  OBVIOUS
<1>2. \A c, d \in S : <<c, d>> \in SoonerThan <=> Sooner(c, d)
  BY DEF SoonerThan
<1>3. \A c, d \in S : /\ Rank[c] = Rank[d] => c = d
                      /\ Rank[Owner[c]] = Rank[Owner[d]] => Owner[c] = Owner[d]
  BY <1>1
<1>4. \A c \in S : ~ Sooner(c, c)
  BY <1>1 DEF Sooner
<1>5. \A b, c, d \in S : Sooner(b, c) /\ Sooner(c, d) => Sooner(b, d)
  BY <1>1 DEF Sooner
<1>6. \A c, d \in S : c = d \/ Sooner(c, d) \/ Sooner(d, c)
  BY <1>1, <1>3 DEF Sooner
<1> QED BY <1>2, <1>4, <1>5, <1>6 DEF StrictTotal

\* A finite set that is not empty has a first and a last element.
LEMMA Ends ==
  ASSUME NEW S, IsFiniteSet(S), S # {}, NEW R, StrictTotal(R, S)
  PROVE  /\ \E e \in S : Place(R, S, e) = 0
         /\ \E e \in S : \A d \in S \ {e} : <<d, e>> \in R
<1>1. Cardinality(S) \in Nat /\ Cardinality(S) # 0
  BY FS_CardinalityType, FS_EmptySet
<1>2. 0 \in 0 .. Cardinality(S) - 1 /\ Cardinality(S) - 1 \in 0 .. Cardinality(S) - 1
  BY <1>1
<1>3. \E e \in S : Place(R, S, e) = 0
  BY <1>2, PlaceTaken
<1>4. PICK e \in S : Place(R, S, e) = Cardinality(S) - 1
  BY <1>2, PlaceTaken
<1>5. ASSUME NEW d \in S \ {e} PROVE <<d, e>> \in R
  <2>1. <<d, e>> \in R \/ <<e, d>> \in R
    BY DEF StrictTotal
  <2>2. ASSUME <<e, d>> \in R PROVE FALSE
    <3>1. Place(R, S, e) < Place(R, S, d)
      BY <2>2, PlaceGrows
    <3>2. Place(R, S, d) \in 0 .. Cardinality(S) - 1
      BY PlaceType
    <3> QED BY <1>1, <1>4, <3>1, <3>2
  <2> QED BY <2>1, <2>2
<1> QED BY <1>3, <1>5

\* The counters a query finds, of which a batch is the first BatchSize.
Due(last) == {c \in live : After(last, c)}

\* A batch is the start of what is due: it is empty only if nothing is, and
\* what is left comes after its last counter.
LEMMA BatchFacts ==
  ASSUME HistoryTypeOK, LedgerInv, NEW last, NEW B, B = Batch(last)
  PROVE  /\ B \subseteq Due(last)
         /\ Due(last) # {} => B # {}
         /\ \A c \in Due(last) \ B, b \in B : Sooner(b, c)
         /\ B # {} => /\ LastOf(B) \in B
                      /\ \A d \in B \ {LastOf(B)} : Sooner(d, LastOf(B))
<1>1. PICK S : S = Due(last)
  OBVIOUS
<1>2. S \subseteq live /\ live \subseteq Counters
  BY <1>1 DEF Due, HistoryTypeOK
<1>3. IsFiniteSet(S)
  BY <1>2, FS_Subset DEF LedgerInv
<1>4. /\ StrictTotal(SoonerThan, S)
      /\ \A c, d \in S : <<c, d>> \in SoonerThan <=> Sooner(c, d)
  BY <1>2, SoonerStrict
<1>5. \A c \in S : Cardinality({d \in S : Sooner(d, c)}) = Place(SoonerThan, S, c)
  <2> SUFFICES ASSUME NEW c \in S
               PROVE  Cardinality({d \in S : Sooner(d, c)}) = Place(SoonerThan, S, c)
    OBVIOUS
  <2>1. {d \in S : Sooner(d, c)} = Below(SoonerThan, S, c)
    BY <1>4 DEF Below
  <2> QED BY <2>1 DEF Place
<1>6. B = {c \in S : Place(SoonerThan, S, c) < BatchSize}
  <2>1. B = {c \in S : Cardinality({d \in S : Sooner(d, c)}) < BatchSize}
    BY <1>1 DEF Batch, Due
  <2> QED BY <1>5, <2>1
<1>7. B \subseteq S
  BY <1>6
<1>8. ASSUME S # {} PROVE B # {}
  <2>1. PICK e \in S : Place(SoonerThan, S, e) = 0
    BY <1>3, <1>4, <1>8, Ends
  <2>2. 0 < BatchSize
    OBVIOUS
  <2> QED BY <1>6, <2>1, <2>2
<1>9. ASSUME NEW c \in S \ B, NEW b \in B PROVE Sooner(b, c)
  <2>1. Place(SoonerThan, S, b) < BatchSize /\ ~ (Place(SoonerThan, S, c) < BatchSize) /\ b # c /\ b \in S
    BY <1>6, <1>9
  <2>2. ASSUME <<c, b>> \in SoonerThan PROVE FALSE
    <3>1. Place(SoonerThan, S, c) < Place(SoonerThan, S, b)
      BY <1>3, <1>4, <2>1, <2>2, PlaceGrows
    <3>2. Cardinality(S) \in Nat
      BY <1>3, FS_CardinalityType
    <3>3. \A e \in S : Place(SoonerThan, S, e) \in 0 .. Cardinality(S) - 1
      BY <1>3, <1>4, PlaceType
    <3>4. Place(SoonerThan, S, c) \in Int /\ Place(SoonerThan, S, b) \in Int
      BY <2>1, <3>2, <3>3
    <3> QED BY <2>1, <3>1, <3>4
  <2> QED BY <1>4, <2>1, <2>2 DEF StrictTotal
<1>10. ASSUME B # {}
       PROVE  LastOf(B) \in B /\ \A d \in B \ {LastOf(B)} : Sooner(d, LastOf(B))
  <2>1. IsFiniteSet(B)
    BY <1>3, <1>7, FS_Subset
  <2>2. /\ StrictTotal(SoonerThan, B)
        /\ \A c, d \in B : <<c, d>> \in SoonerThan <=> Sooner(c, d)
    BY <1>2, <1>7, SoonerStrict
  <2>3. PICK e \in B : \A d \in B \ {e} : <<d, e>> \in SoonerThan
    BY <1>10, <2>1, <2>2, Ends
  <2>4. \A d \in B \ {e} : Sooner(d, e)
    BY <2>2, <2>3
  <2> QED BY <2>4 DEF LastOf
<1> QED BY <1>1, <1>7, <1>8, <1>9, <1>10

\* What the scan computes of a counter is the damage done to it, however many
\* operations have been added since.
LEMMA CheckExact ==
  ASSUME HistoryTypeOK, LedgerInv, NEW c \in live
  PROVE  /\ Mismatch(c) <=> Drift(c) # 0
         /\ InitialValueCount(c) # 1 <=> Headless(c)
<1>1. c \in Counters /\ Owner[c] \in Tenants /\ Tallies(c)
  BY DEF HistoryTypeOK, LedgerInv
<1>2. TotalDelta(c) \in Int
  <2>1. IsFiniteSet(OperationsOf(Owner[c], c))
    BY <1>1 DEF LedgerInv, RowsFinite
  <2>2. Integral(ops[Owner[c]], OperationsOf(Owner[c], c))
    BY <1>1, HistorySound, DeltasIntegral DEF TablesSound
  <2>3. PICK S, f : S = OperationsOf(Owner[c], c) /\ f = ops[Owner[c]]
    OBVIOUS
  <2>4. DeltaSum(f, S) \in Int
    BY <2>1, <2>2, <2>3, SumType
  <2> QED BY <2>3, <2>4, TotalIsSum
<1>3. Drift(c) \in Int
  BY <1>1, DriftType
<1>4. Mismatch(c) <=> Drift(c) # 0
  <2>1. value[c] = TotalDelta(c) + Drift(c)
    BY <1>1 DEF Tallies
  <2>2. Mismatch(c) <=> TotalDelta(c) # value[c]
    BY DEF Mismatch
  <2>3. PICK a, b : a = TotalDelta(c) /\ b = Drift(c)
    OBVIOUS
  <2> QED BY <1>2, <1>3, <2>1, <2>2, <2>3
<1>5. PICK t, i : t = Owner[c] /\ i = InitialKey(c)
  OBVIOUS
<1>6. PICK K : K = {k \in OperationsOf(t, c) : ops[t][k].kind = "initial_value"}
  OBVIOUS
<1>7. \A k \in K : k = i
  <2> SUFFICES ASSUME NEW k \in K PROVE k = i
    OBVIOUS
  <2>1. /\ k \in OpIds /\ ops[t][k] # NoOp /\ ops[t][k].counter = c
        /\ ops[t][k].kind = "initial_value"
    BY <1>6 DEF OperationsOf
  <2>2. RowFits(t, k)
    BY <1>1, <1>5, <2>1 DEF LedgerInv, AllFit
  <2>3. PICK d \in Counters : k = InitialKey(d)
    BY <2>1, <2>2 DEF RowFits, OpIds
  <2>4. d = c
    BY <2>1, <2>2, <2>3 DEF RowFits
  <2> QED BY <1>5, <2>3, <2>4
<1>8. i \in K <=> ops[t][i] # NoOp
  <2>1. RowFits(t, i) /\ i \in OpIds
    BY <1>1, <1>5 DEF LedgerInv, AllFit, OpIds
  <2>2. ops[t][i] # NoOp => /\ ops[t][i].state = "completed" /\ ops[t][i].counter = c
                            /\ ops[t][i].kind = "initial_value"
    BY <1>1, <1>5, <2>1 DEF RowFits
  <2> QED BY <1>6, <2>1, <2>2 DEF OperationsOf
<1>9. InitialValueCount(c) = Cardinality(K)
  BY <1>5, <1>6 DEF InitialValueCount
<1>10. CASE Headless(c)
  <2>1. K = {}
    BY <1>1, <1>5, <1>7, <1>8, <1>10 DEF Tallies
  <2>2. Cardinality(K) = 0
    BY <2>1, FS_EmptySet
  <2> QED BY <1>4, <1>9, <1>10, <2>2
<1>11. CASE ~ Headless(c)
  <2>1. K = {i}
    BY <1>1, <1>5, <1>7, <1>8, <1>11 DEF Tallies
  <2>2. Cardinality({i}) = 1
    BY FS_Singleton
  <2> QED BY <1>4, <1>9, <1>11, <2>1, <2>2
<1> QED BY <1>10, <1>11

\* A step of an operator's scan: nothing else moves.
Scans == UNCHANGED <<live, value, label, ops, audit, born, stamp, now, flying, damage, walk>>

\* The types hold if the scan has its type.
LEMMA ScanType ==
  ASSUME HistoryTypeOK, Scans,
         scan' \in [pc : {"off", "batch", "end"}, last : Counters \cup {NoCounter},
                    present : SUBSET Counters, checked : SUBSET Counters, again : BOOLEAN,
                    mismatches : SUBSET Counters, violations : SUBSET Counters,
                    exit : {"none", "ok", "inconsistent", "failed"}],
         scan'.mismatches \cup scan'.violations \subseteq scan'.checked
  PROVE  HistoryTypeOK'
  BY DEF HistoryTypeOK, Scans

\* A scan that does not move stays exact while writers add counters.
LEMMA ScanKept ==
  ASSUME ScanInv, scan' = scan, damage' = damage, live \subseteq live'
  PROVE  ScanInv'
<1> SUFFICES ASSUME scan.pc # "off" PROVE ScanInv'
  BY DEF ScanInv
<1>1. \A c : (Drift(c)' = Drift(c)) /\ (Headless(c)' <=> Headless(c))
  BY DamageKept
<1> QED BY <1>1 DEF ScanInv, Sooner, After

\* Nothing is checked yet, and every counter there is comes after no counter.
LEMMA BeginScanStep ==
  ASSUME HistoryTypeOK, LedgerInv, BeginScan
  PROVE  HistoryTypeOK' /\ ScanInv'
<1>1. Scans
  BY DEF BeginScan, tables, Scans
<1>2. scan' = [pc |-> "batch", last |-> NoCounter, present |-> live, checked |-> {},
               again |-> FALSE, mismatches |-> {}, violations |-> {}, exit |-> "none"]
  BY DEF BeginScan, NoScan
<1>3. live \subseteq Counters /\ Seeded \subseteq live
  BY DEF HistoryTypeOK, LedgerInv
<1>4. HistoryTypeOK'
  BY <1>1, <1>2, <1>3, ScanType
<1>5. live' = live
  BY <1>1 DEF Scans
<1>6. ScanInv'
  BY <1>2, <1>3, <1>5 DEF ScanInv, After
<1> QED BY <1>4, <1>6

\* A batch follows what has been checked, so no counter is checked twice, and
\* none is left behind.
LEMMA ScanBatchStep ==
  ASSUME HistoryTypeOK, LedgerInv, ScanInv, ScanBatch
  PROVE  HistoryTypeOK' /\ ScanInv'
<1>1. Scans
  BY DEF ScanBatch, tables, Scans
<1>2. PICK B, last : B = Batch(last) /\ last = scan.last
  OBVIOUS
<1>3. PICK e : e = LastOf(B)
  OBVIOUS
<1>4. /\ B # {}
      /\ scan.pc = "batch"
      /\ scan' = [scan EXCEPT
             !.last = e,
             !.again = @ \/ B \cap scan.checked # {},
             !.checked = @ \cup B,
             !.mismatches = @ \cup {c \in B : Mismatch(c)},
             !.violations = @ \cup {c \in B : InitialValueCount(c) # 1}]
  BY <1>2, <1>3 DEF ScanBatch
<1>5. /\ B \subseteq Due(last)
      /\ \A c \in Due(last) \ B, b \in B : Sooner(b, c)
      /\ e \in B
      /\ \A d \in B \ {e} : Sooner(d, e)
  BY <1>2, <1>3, <1>4, BatchFacts
<1>6. /\ live \subseteq Counters /\ live' = live /\ Due(last) \subseteq live
      /\ \A c \in Due(last) : last = NoCounter \/ Sooner(last, c)
      /\ last \in Counters \cup {NoCounter}
  BY <1>1, <1>2 DEF HistoryTypeOK, Due, After, Scans
<1>7. /\ \A c \in Counters : ~ Sooner(c, c)
      /\ \A b, c, d \in Counters : Sooner(b, c) /\ Sooner(c, d) => Sooner(b, d)
  <2>1. /\ StrictTotal(SoonerThan, Counters)
        /\ \A c, d \in Counters : <<c, d>> \in SoonerThan <=> Sooner(c, d)
    BY SoonerStrict
  <2> QED BY <2>1 DEF StrictTotal
<1>8. PICK M, V : /\ M = {c \in B : Drift(c) # 0}
                  /\ V = {c \in B : Headless(c)}
  OBVIOUS
<1>9. M = {c \in B : Mismatch(c)} /\ V = {c \in B : InitialValueCount(c) # 1}
  <2>1. \A c \in B : /\ Mismatch(c) <=> Drift(c) # 0
                     /\ InitialValueCount(c) # 1 <=> Headless(c)
    BY <1>5, <1>6, CheckExact
  <2> QED BY <1>8, <2>1
<1>10. /\ Seeded \subseteq scan.present
       /\ scan.present \cup scan.checked \subseteq live
       /\ ~ scan.again
       /\ last = NoCounter => scan.checked = {}
       /\ last # NoCounter => \A c \in scan.checked : c = last \/ Sooner(c, last)
       /\ \A c \in scan.present : c \in scan.checked \/ After(last, c)
       /\ scan.mismatches = {c \in scan.checked : Drift(c) # 0}
       /\ scan.violations = {c \in scan.checked : Headless(c)}
  BY <1>2, <1>4 DEF ScanInv
<1>11. \A c \in scan.checked, b \in B : Sooner(c, b)
  <2> SUFFICES ASSUME NEW c \in scan.checked, NEW b \in B PROVE Sooner(c, b)
    OBVIOUS
  <2>1. c \in Counters /\ b \in Counters /\ last \in Counters /\ last # NoCounter
    BY <1>5, <1>6, <1>10
  <2>2. Sooner(last, b) /\ (c = last \/ Sooner(c, last))
    BY <1>5, <1>6, <1>10, <2>1
  <2> QED BY <1>7, <2>1, <2>2
<1>12. B \cap scan.checked = {}
  BY <1>5, <1>6, <1>7, <1>11
<1>13. scan \in [pc : {"off", "batch", "end"}, last : Counters \cup {NoCounter},
                 present : SUBSET Counters, checked : SUBSET Counters, again : BOOLEAN,
                 mismatches : SUBSET Counters, violations : SUBSET Counters,
                 exit : {"none", "ok", "inconsistent", "failed"}]
  BY DEF HistoryTypeOK
<1>14. scan' = [scan EXCEPT !.last = e, !.again = FALSE, !.checked = scan.checked \cup B,
                            !.mismatches = scan.mismatches \cup M,
                            !.violations = scan.violations \cup V]
  BY <1>4, <1>9, <1>10, <1>12
<1>15. /\ scan'.pc = "batch" /\ scan'.last = e /\ scan'.again = FALSE
       /\ scan'.present = scan.present
       /\ scan'.checked = scan.checked \cup B
       /\ scan'.mismatches = scan.mismatches \cup M
       /\ scan'.violations = scan.violations \cup V
  BY <1>4, <1>13, <1>14
<1>16. B \subseteq Counters /\ M \subseteq B /\ V \subseteq B /\ e \in Counters
  BY <1>5, <1>6, <1>8
<1>17. HistoryTypeOK'
  <2>1. scan' \in [pc : {"off", "batch", "end"}, last : Counters \cup {NoCounter},
                   present : SUBSET Counters, checked : SUBSET Counters, again : BOOLEAN,
                   mismatches : SUBSET Counters, violations : SUBSET Counters,
                   exit : {"none", "ok", "inconsistent", "failed"}]
    BY <1>13, <1>14, <1>16
  <2>2. scan'.mismatches \cup scan'.violations \subseteq scan'.checked
    BY <1>10, <1>15, <1>16
  <2> QED BY <1>1, <2>1, <2>2, ScanType
<1>18. \A c : (Drift(c)' = Drift(c)) /\ (Headless(c)' <=> Headless(c))
  BY <1>1, DamageKept DEF Scans
<1>19. /\ scan'.mismatches = {c \in scan'.checked : Drift(c)' # 0}
       /\ scan'.violations = {c \in scan'.checked : Headless(c)'}
  BY <1>8, <1>10, <1>15, <1>18
<1>20. \A c \in scan'.checked : c = scan'.last \/ Sooner(c, scan'.last)
  BY <1>5, <1>11, <1>15
<1>21. \A c \in scan'.present : c \in scan'.checked \/ After(scan'.last, c)
  <2> SUFFICES ASSUME NEW c \in scan.present, c \notin scan.checked, c \notin B
               PROVE  Sooner(e, c)
    BY <1>15 DEF After
  <2>1. c \in Due(last)
    BY <1>10 DEF Due
  <2> QED BY <1>5, <2>1
<1>22. e # NoCounter /\ scan'.present \cup scan'.checked \subseteq live' /\ Seeded \subseteq scan'.present
  BY <1>5, <1>6, <1>10, <1>15, <1>16
<1>23. ScanInv'
  BY <1>15, <1>19, <1>20, <1>21, <1>22 DEF ScanInv, Sooner, After
<1> QED BY <1>17, <1>23

\* The loop ends when nothing is due, so nothing that had to be checked is left.
LEMMA ScanEndStep ==
  ASSUME HistoryTypeOK, LedgerInv, ScanInv, ScanDone \/ ScanFails
  PROVE  HistoryTypeOK' /\ ScanInv'
<1>1. Scans /\ scan.pc = "batch"
  BY DEF ScanDone, ScanFails, tables, Scans
<1>2. PICK x \in {"ok", "inconsistent", "failed"} :
        /\ scan' = [scan EXCEPT !.pc = "end", !.exit = x]
        /\ x # "failed" => /\ Batch(scan.last) = {}
                           /\ x = "ok" <=> scan.mismatches = {} /\ scan.violations = {}
  <2>1. CASE ScanFails
    BY <2>1 DEF ScanFails
  <2>2. CASE ScanDone /\ scan.mismatches = {} /\ scan.violations = {}
    BY <2>2 DEF ScanDone
  <2>3. CASE ScanDone /\ ~ (scan.mismatches = {} /\ scan.violations = {})
    BY <2>3 DEF ScanDone
  <2> QED BY <2>1, <2>2, <2>3
<1>3. /\ scan'.pc = "end" /\ scan'.exit = x
      /\ scan'.last = scan.last /\ scan'.present = scan.present /\ scan'.checked = scan.checked
      /\ scan'.again = scan.again
      /\ scan'.mismatches = scan.mismatches /\ scan'.violations = scan.violations
  BY <1>2 DEF HistoryTypeOK
<1>4. HistoryTypeOK'
  BY <1>1, <1>2, <1>3, ScanType DEF HistoryTypeOK
<1>5. x # "failed" => scan.present \subseteq scan.checked
  <2> SUFFICES ASSUME x # "failed" PROVE scan.present \subseteq scan.checked
    OBVIOUS
  <2>1. PICK last, B : last = scan.last /\ B = Batch(last)
    OBVIOUS
  <2>2. Due(last) = {}
    BY <1>2, <2>1, BatchFacts
  <2> QED BY <1>1, <2>1, <2>2 DEF ScanInv, Due
<1>6. \A c : (Drift(c)' = Drift(c)) /\ (Headless(c)' <=> Headless(c))
  BY <1>1, DamageKept DEF Scans
<1>7. live' = live
  BY <1>1 DEF Scans
<1>8. ScanInv'
  BY <1>1, <1>2, <1>3, <1>5, <1>6, <1>7 DEF ScanInv, Sooner, After
<1> QED BY <1>4, <1>8

-----------------------------------------------------------------------------
(* The theorems about History.                                             *)

\* The databases the readers may find have the right types.
LEMMA HistoryInitType == HistoryInit => HistoryTypeOK
<1> SUFFICES ASSUME HistoryInit PROVE HistoryTypeOK
  OBVIOUS
<1>1. live \in SUBSET Counters /\ label \in [Counters -> Labels] /\ damage \in Damages
  BY DEF HistoryInit
<1>2. value \in [Counters -> Int64]
  <2>1. \A c \in Counters : SeedValue[c] \in Int64 /\ SeedValue[c] + 1 \in Int64
    BY DEF Int64, MinInt
  <2> QED BY <2>1 DEF HistoryInit
<1>3. ops \in [Tenants -> [OpIds -> OpRows \cup {NoOp}]]
  <2>1. \A c \in Counters : InitialRow(c, SeedValue[c]) \in OpRows
    BY DEF InitialRow, OpRows, OpKinds, OpStates, Actors, Hashes, Int64, MinInt
  <2>2. SeedOps \in [Tenants -> [OpIds -> OpRows \cup {NoOp}]]
    BY <2>1 DEF SeedOps
  <2>3. ops = [t \in Tenants |-> [k \in OpIds |->
               IF \E c \in Seeded : k = InitialKey(c) /\ damage[c] = "headless"
               THEN NoOp ELSE SeedOps[t][k]]]
    BY DEF HistoryInit
  <2> QED BY <2>2, <2>3
<1>4. audit \in [Keys -> Tenants \cup {NoTenant}]
  BY DEF HistoryInit
<1>5. 0 \in Times
  BY DEF Times
<1>6. /\ born \in [Counters -> Times] /\ now \in Times
      /\ stamp \in [Tenants -> [OpIds -> Times]]
      /\ flying \in [Requests -> Times \cup {OnGround}]
  BY <1>5 DEF HistoryInit
<1>7. walk \in [pc : {"off", "ask", "found", "not_found", "end"},
                of : Counters \cup {NoCounter}, tenant : Tenants \cup {NoTenant},
                cursor : Entries \cup {NoCursor}, listed : Seq(Entries),
                prior : SUBSET Entries]
  BY DEF HistoryInit, NoWalk
<1>8. /\ scan \in [pc : {"off", "batch", "end"}, last : Counters \cup {NoCounter},
                   present : SUBSET Counters, checked : SUBSET Counters, again : BOOLEAN,
                   mismatches : SUBSET Counters, violations : SUBSET Counters,
                   exit : {"none", "ok", "inconsistent", "failed"}]
      /\ scan.mismatches \cup scan.violations \subseteq scan.checked
  BY DEF HistoryInit, NoScan
<1> QED BY <1>1, <1>2, <1>3, <1>4, <1>6, <1>7, <1>8 DEF HistoryTypeOK

LEMMA HInvInit == HistoryInit => HInv
<1> SUFFICES ASSUME HistoryInit PROVE HInv
  OBVIOUS
<1>1. walk.pc = "off" /\ scan.pc = "off"
  BY DEF HistoryInit, NoWalk, NoScan
<1> QED BY <1>1, HistoryInitType, InitLedger DEF HInv, WalkInv, ScanInv

\* One step per action; readers and writers disturb different parts.
LEMMA HInvNext == HInv /\ [HistoryNext]_historyVars => HInv'
<1> SUFFICES ASSUME HistoryTypeOK, LedgerInv, WalkInv, ScanInv, [HistoryNext]_historyVars
             PROVE  HInv'
  BY DEF HInv
<1>1. CASE (\E r \in Requests : Arrive(r) \/ Fall(r)) \/ Tick
  <2>1. UNCHANGED <<live, value, ops, damage, born, stamp, walk, scan>>
    BY <1>1 DEF Arrive, Fall, Tick, tables
  <2>2. HistoryTypeOK'
    BY <1>1, ClockType
  <2>3. LedgerInv'
    BY <2>1, SameLedger
  <2>4. WalkInv'
    BY <2>1, SameGrows, WalkKept
  <2>5. ScanInv'
    BY <2>1, ScanKept
  <2> QED BY <2>2, <2>3, <2>4, <2>5 DEF HInv
<1>2. ASSUME NEW r \in Requests, LandMutation(r) PROVE HInv'
  <2>1. UNCHANGED <<live, damage, walk, scan>>
    BY <1>2 DEF LandMutation, Tables!Post
  <2>2. HistoryTypeOK'
    BY <1>2, PostType
  <2>3. LedgerInv'
    BY <1>2, PostLedger
  <2>4. WalkInv'
    BY <1>2, <2>1, PostGrows, WalkKept
  <2>5. ScanInv'
    BY <2>1, ScanKept
  <2> QED BY <2>2, <2>3, <2>4, <2>5 DEF HInv
<1>3. ASSUME NEW r \in Requests, NEW c \in Counters, LandCreate(r, c) PROVE HInv'
  <2>1. UNCHANGED <<damage, walk, scan>> /\ live \subseteq live'
    BY <1>3, HistorySound, OpenCommits DEF LandCreate
  <2>2. HistoryTypeOK'
    BY <1>3, OpenType
  <2>3. LedgerInv'
    BY <1>3, OpenLedger
  <2>4. WalkInv'
    BY <1>3, <2>1, OpenGrows, WalkKept
  <2>5. ScanInv'
    BY <2>1, ScanKept
  <2> QED BY <2>2, <2>3, <2>4, <2>5 DEF HInv
<1>4. ASSUME Walks, HistoryTypeOK' /\ WalkInv' PROVE HInv'
  <2>1. UNCHANGED <<live, value, ops, damage, scan>>
    BY <1>4 DEF Walks
  <2> QED BY <1>4, <2>1, SameLedger, ScanKept DEF HInv
<1>5. ASSUME Scans, HistoryTypeOK' /\ ScanInv' PROVE HInv'
  <2>1. UNCHANGED <<live, value, ops, damage, walk, born, stamp>>
    BY <1>5 DEF Scans
  <2> QED BY <1>5, <2>1, SameLedger, SameGrows, WalkKept DEF HInv
<1>6. ASSUME NEW t \in Tenants, NEW c \in Counters \cup {NoCounter}, BeginWalk(t, c)
      PROVE  HInv'
  BY <1>4, <1>6, BeginWalkStep DEF BeginWalk, Walks, tables
<1>7. CASE Lookup \/ PageFails
  BY <1>4, <1>7, LookupStep DEF Lookup, PageFails, Walks, tables
<1>8. ASSUME NEW n \in Limits, ReadPage(n) PROVE HInv'
  BY <1>4, <1>8, PageStep DEF ReadPage, Walks, tables
<1>9. CASE BeginScan
  BY <1>5, <1>9, BeginScanStep DEF BeginScan, Scans, tables
<1>10. CASE ScanBatch
  BY <1>5, <1>10, ScanBatchStep DEF ScanBatch, Scans, tables
<1>11. CASE ScanDone \/ ScanFails
  BY <1>5, <1>11, ScanEndStep DEF ScanDone, ScanFails, Scans, tables
<1>12. CASE UNCHANGED historyVars
  <2>1. UNCHANGED <<live, value, label, ops, audit, born, stamp, now, flying, damage, walk, scan>>
    BY <1>12 DEF historyVars, tables
  <2>2. HistoryTypeOK'
    BY <2>1 DEF HistoryTypeOK
  <2> QED BY <2>1, <2>2, SameLedger, SameGrows, WalkKept, ScanKept DEF HInv
<1> QED BY <1>1, <1>2, <1>3, <1>6, <1>7, <1>8, <1>9, <1>10, <1>11, <1>12 DEF HistoryNext

LEMMA HistoryInvariance == HistorySpec => []HInv
  BY HInvInit, HInvNext, PTL DEF HistorySpec

\* Every listing, cursor, report and stamp has its type, in every reachable
\* state of the readers and writers.
THEOREM HistoryTypeCorrect == HistorySpec => []HistoryTypeOK
<1>1. HInv => HistoryTypeOK
  BY DEF HInv
<1> QED BY <1>1, HistoryInvariance, PTL

\* A client that follows next_cursor gets every row that was committed when it
\* began, each once and in order, and no row of another tenant or counter,
\* whatever ListCounters and ListOperations overlap with, for any page sizes,
\* clock and number of rows.
THEOREM WalksFaithful == HistorySpec => []WalkFaithful
<1>1. HInv => WalkFaithful
  <2> SUFFICES ASSUME HistoryTypeOK, WalkInv, walk.pc # "off" PROVE WalkFaithful
    BY DEF HInv, WalkFaithful
  <2>1. PICK t, of, l : t = walk.tenant /\ of = walk.of /\ l = walk.listed
    OBVIOUS
  <2>2. l \in Seq(Entries)
    BY <2>1 DEF HistoryTypeOK
  <2>3. Range(l) \subseteq Scope(t, of) /\ (walk.pc = "end" => walk.prior \subseteq Range(l))
    BY <2>1 DEF WalkInv
  <2>4. \A i, j \in 1 .. Len(l) : i < j =>
            IF of = NoCounter THEN Precedes(l[i], l[j]) ELSE Precedes(l[j], l[i])
    BY <2>1 DEF WalkInv, RowOrder
  <2>5. of # NoCounter /\ Range(l) # {} => Owner[of] = t
    <3>1. Range(l) # {} => l # <<>>
      BY DEF Range
    <3> QED BY <2>1, <3>1 DEF WalkInv
  <2> QED BY <2>1, <2>3, <2>4, <2>5 DEF WalkFaithful, Scope
<1> QED BY <1>1, HistoryInvariance, PTL

\* Reconcile, batch by batch beside mutations, checks every counter there was
\* once, reports exactly the damaged ones, and its exit status says whether
\* there are any, for any number of counters, operations and batches.
THEOREM ReportsExact == HistorySpec => []ReportExact
<1>1. HInv => ReportExact
  <2> SUFFICES ASSUME HistoryTypeOK, ScanInv, scan.pc = "end", scan.exit # "failed"
               PROVE  ReportExact
    BY DEF HInv, ReportExact
  <2>1. /\ Seeded \subseteq scan.checked /\ scan.present \subseteq scan.checked
        /\ ~ scan.again
        /\ scan.mismatches = {c \in scan.checked : Drift(c) # 0}
        /\ scan.violations = {c \in scan.checked : Headless(c)}
        /\ scan.exit = "ok" <=> scan.mismatches = {} /\ scan.violations = {}
    BY DEF ScanInv
  <2>2. scan.mismatches = {c \in Seeded : DriftOf(c) # 0}
    BY <2>1 DEF Drift
  <2>3. scan.violations = {c \in Seeded : damage[c] = "headless"}
    BY <2>1 DEF Headless
  <2>4. \A c \in Seeded : damage[c] = "none" <=> DriftOf(c) = 0 /\ damage[c] # "headless"
    BY DEF HistoryTypeOK, DriftOf, Kinds
  <2>5. scan.exit = "ok" <=> \A c \in Seeded : damage[c] = "none"
    BY <2>1, <2>2, <2>3, <2>4
  <2> QED BY <2>1, <2>2, <2>3, <2>5 DEF ReportExact
<1> QED BY <1>1, HistoryInvariance, PTL

\* The value of a counter is the sum of its completed operations, off by the
\* damage it started with.
ValuesTally == \A c \in live : value[c] = TotalDelta(c) + Drift(c)

\* UpdateCounter and CompleteOperation move a value and its history together,
\* so only damage done before can set them apart.
THEOREM HistoryTallies == HistorySpec => []ValuesTally
<1>1. HInv => ValuesTally
  BY DEF HInv, LedgerInv, Tallies, ValuesTally
<1> QED BY <1>1, HistoryInvariance, PTL

-----------------------------------------------------------------------------
(* Back to the transactions: because they implement the ledger, what holds *)
(* of its steps holds of them.                                             *)

\* The value of every counter is the sum of its completed operations.
Balanced == \A c \in live : value[c] = TotalDelta(c)

\* Tables that balance, with rows that belong where they are.
BalanceInv == AllFit /\ RowsFinite /\ Balanced

\* The ledger that CounterOps implements is the one History reads.
LEMMA SameLedgerSteps ==
  /\ \A r : Ledger!Post(r) => Tables!Post(r)
  /\ \A r, c : Ledger!Open(c, r) => Tables!Open(c, r)
<1>1. /\ Ledger!Int64 = Tables!Int64
      /\ \A r, v : Ledger!MutationRow(r, v) = Tables!MutationRow(r, v)
  BY DEF Ledger!Int64, Ledger!MinInt, Tables!Int64, Tables!MinInt,
         Ledger!MutationRow, Ledger!DeltaOf, Ledger!RequestHash,
         Tables!MutationRow, Tables!DeltaOf, Tables!RequestHash
<1>2. \A c, v : /\ Ledger!InitialRow(c, v) = Tables!InitialRow(c, v)
                /\ Ledger!InitialKey(c) = Tables!InitialKey(c)
  BY DEF Ledger!InitialRow, Ledger!InitialKey, Ledger!InitialHash,
         Tables!InitialRow, Tables!InitialKey, Tables!InitialHash
<1>3. \A r : Ledger!Post(r) => Tables!Post(r)
  BY <1>1 DEF Ledger!Post, Tables!Post
<1>4. \A r, c : Ledger!Open(c, r) => Tables!Open(c, r)
  BY <1>2 DEF Ledger!Open, Tables!Open
<1> QED BY <1>3, <1>4

\* Every seeded counter has its opening row, with its value.
LEMMA BalanceInit == Init => BalanceInv
<1> SUFFICES ASSUME Init PROVE BalanceInv
  OBVIOUS
<1>1. PICK dam : dam = [c \in Seeded |-> "none"]
  OBVIOUS
<1>2. dam \in [Seeded -> Kinds] /\ \A c \in Seeded : dam[c] # "headless"
  BY <1>1 DEF Kinds
<1>3. live = Seeded /\ value = SeedValue /\ ops = SeedOps
  BY DEF Init
<1>4. \A t \in Tenants, k \in OpIds :
        ops[t][k] = IF \E c \in Seeded : k = InitialKey(c) /\ dam[c] = "headless"
                    THEN NoOp ELSE SeedOps[t][k]
  BY <1>2, <1>3
<1>5. /\ AllFit /\ RowsFinite
      /\ \A c \in Seeded :
            /\ ops[Owner[c]][InitialKey(c)] = NoOp <=> dam[c] = "headless"
            /\ TotalDelta(c) = IF dam[c] = "headless" THEN 0 ELSE SeedValue[c]
  BY <1>2, <1>3, <1>4, SeededTables
<1> QED BY <1>2, <1>3, <1>5 DEF BalanceInv, Balanced

\* A commit posts a mutation or opens a counter; nothing else touches the tables.
LEMMA BalanceNext == IInv /\ BalanceInv /\ [Next]_vars => BalanceInv'
<1> SUFFICES ASSUME IInv, BalanceInv, [Next]_vars PROVE BalanceInv'
  OBVIOUS
<1>1. TablesSound
  BY DEF IInv, TypeOK, BalanceInv, TablesSound, OpsTyped
<1>2. \A c \in live : c \in Counters /\ value[c] \in Int /\ value[c] = TotalDelta(c)
  BY <1>1 DEF TablesSound, BalanceInv, Balanced, Int64, MinInt
<1>3. ASSUME NEW r \in Requests, Tables!Post(r) PROVE BalanceInv'
  <2>1. /\ live' = live /\ AllFit' /\ RowsFinite'
        /\ \A c \in live, x \in Int : value[c] = TotalDelta(c) + x
                                      => value'[c] = TotalDelta(c)' + x
        /\ \A c \in live : TotalDelta(c)' \in Int
    BY <1>1, <1>3, PostMoves
  <2>2. \A c \in live : value'[c] = TotalDelta(c)' + 0
    BY <1>2, <2>1
  <2>3. ASSUME NEW c \in live PROVE value'[c] = TotalDelta(c)'
    <3>1. PICK n : n = TotalDelta(c)'
      OBVIOUS
    <3>2. n \in Int
      BY <2>1, <3>1
    <3> QED BY <2>2, <3>1, <3>2
  <2> QED BY <2>1, <2>3 DEF BalanceInv, Balanced
<1>4. ASSUME NEW r \in Requests, NEW d \in Counters, Tables!Open(d, r) PROVE BalanceInv'
  <2>1. /\ live' = live \cup {d} /\ AllFit' /\ RowsFinite'
        /\ value'[d] = TotalDelta(d)'
        /\ \A c \in live : value'[c] = value[c] /\ TotalDelta(c)' = TotalDelta(c)
    BY <1>1, <1>4, OpenMoves
  <2>2. \A c \in live' : value'[c] = TotalDelta(c)'
    BY <1>2, <2>1
  <2> QED BY <2>1, <2>2 DEF BalanceInv, Balanced
<1>5. CASE UNCHANGED Ledger!lvars
  <2>1. UNCHANGED <<live, value, ops>>
    BY <1>5 DEF Ledger!lvars
  <2>2. \A t, c : OperationsOf(t, c)' = OperationsOf(t, c)
    BY <2>1 DEF OperationsOf, OpIds, InitialKey
  <2>3. \A c : TotalDelta(c)' = TotalDelta(c)
    BY <2>1, <2>2, TotalIsSum, TotalIsSumNext
  <2>4. AllFit' /\ RowsFinite'
    BY <2>1, <2>2 DEF BalanceInv, AllFit, RowFits, RowsFinite, OpIds, InitialKey, IsFiniteSet
  <2> QED BY <2>1, <2>3, <2>4 DEF BalanceInv, Balanced
<1>6. CASE Ledger!Next
  BY <1>3, <1>4, <1>6, SameLedgerSteps DEF Ledger!Next
<1> QED BY <1>5, <1>6, StepImplements

\* Whatever transactions interleave, fail or are retried, the value of every
\* counter is the sum of the deltas of its completed operations.
THEOREM LedgerBalances == Spec => []Balanced
<1>1. BalanceInv => Balanced
  BY DEF BalanceInv
<1> QED BY <1>1, BalanceInit, BalanceNext, Invariance, PTL DEF Spec
==============================================================================
