---------------------------- MODULE ReportProofs ----------------------------
(***************************************************************************)
(* What the report of a live comparison is worth, proved for any replicas, *)
(* routes, work and number of faults.  A total over the replicas, or over  *)
(* the rows, is a fold over a set; the first part shows that its order     *)
(* does not matter.  Induction over finite sets is by a smallest           *)
(* counterexample.                                                         *)
(***************************************************************************)
EXTENDS Report, FiniteSetTheorems, TLAPS

-----------------------------------------------------------------------------
(* Sums *)

Any(T) == CHOOSE x \in T : TRUE

LEMMA LeastNumber ==
    ASSUME NEW Bad \in SUBSET Nat, Bad # {}
    PROVE  \E n \in Bad : \A m \in Bad : n <= m
<1>1. PICK n \in Bad : \A m \in Bad : ~(<<m, n>> \in OpToRel(<, Nat))
  BY NatLessThanWellFounded, WFMin
<1>2. n \in Nat /\ \A m \in Bad : m \in Nat /\ ~(m < n)
  BY <1>1 DEF OpToRel
<1> QED
  BY <1>2

LEMMA SmallestSet ==
    ASSUME NEW S, IsFiniteSet(S), NEW Bad \in SUBSET SUBSET S, Bad # {}
    PROVE  \E T \in Bad : \A U \in SUBSET T : U # T => U \notin Bad
<1>1. Bad \subseteq FiniteSubsetsOf(S)
  BY FS_FiniteSubsetsOfFinite, Zenon
<1>2. PICK T \in Bad : \A U \in Bad : ~(<<U, T>> \in StrictSubsetOrdering(S))
  BY <1>1, FS_StrictSubsetOrderingWellFounded, WFMin, Zenon
<1> QED
  BY <1>2 DEF StrictSubsetOrdering

\* sum gives every set of dom the sum of f over it, one arbitrary element after another.
Sums(sum, dom, f) ==
    sum = [T \in dom |-> IF T = {} THEN 0 ELSE f[Any(T)] + sum[T \ {Any(T)}]]

IsSum(sum, S, f) == Sums(sum, SUBSET S, f)

LEMMA SumExists ==
    ASSUME NEW S, IsFiniteSet(S), NEW f, \A x \in S : f[x] \in Int
    PROVE  \E sum \in [SUBSET S -> Int] : IsSum(sum, S, f)
<1> DEFINE Small(n) == {T \in SUBSET S : Cardinality(T) <= n}
           Good(n) == \E sum \in [Small(n) -> Int] : Sums(sum, Small(n), f)
           Bad == {n \in Nat : ~Good(n)}
<1>1. \A T \in SUBSET S : Cardinality(T) \in Nat /\ IsFiniteSet(T)
  BY FS_Subset, FS_CardinalityType
<1>2. \A T \in SUBSET S : T # {} =>
        /\ Any(T) \in T /\ f[Any(T)] \in Int
        /\ T \ {Any(T)} \in SUBSET S /\ Cardinality(T \ {Any(T)}) = Cardinality(T) - 1
  <2> SUFFICES ASSUME NEW T \in SUBSET S, T # {}
               PROVE  /\ Any(T) \in T /\ f[Any(T)] \in Int
                      /\ Cardinality(T \ {Any(T)}) = Cardinality(T) - 1
    OBVIOUS
  <2>1. Any(T) \in T
    BY DEF Any
  <2> QED
    BY <2>1, <1>1, FS_RemoveElement
<1>3. Good(0)
  <2>1. \A T \in Small(0) : T = {}
    BY <1>1, FS_EmptySet
  <2> DEFINE sum == [T \in Small(0) |-> 0]
  <2>2. sum = [T \in Small(0) |-> IF T = {} THEN 0 ELSE f[Any(T)] + sum[T \ {Any(T)}]]
    BY <2>1
  <2>3. sum \in [Small(0) -> Int]
    OBVIOUS
  <2> HIDE DEF sum, Small
  <2> QED
    BY <2>2, <2>3 DEF Sums
<1>4. \A n \in Nat : Good(n) => Good(n + 1)
  <2> SUFFICES ASSUME NEW n \in Nat, Good(n) PROVE Good(n + 1)
    OBVIOUS
  <2>1. PICK sum \in [Small(n) -> Int] : Sums(sum, Small(n), f)
    OBVIOUS
  <2> DEFINE next == [T \in Small(n + 1) |->
                        IF T = {} THEN 0 ELSE f[Any(T)] + sum[T \ {Any(T)}]]
  <2>2. \A T \in Small(n + 1) : T # {} => T \ {Any(T)} \in Small(n)
    BY <1>1, <1>2
  <2>3. \A T \in Small(n) : T \in Small(n + 1) /\ next[T] = sum[T]
    <3>1. \A T \in Small(n) : T \in Small(n + 1)
      BY <1>1
    <3>2. \A T \in Small(n) : sum[T] = IF T = {} THEN 0 ELSE f[Any(T)] + sum[T \ {Any(T)}]
      <4> HIDE DEF Small
      <4> QED
        BY <2>1 DEF Sums
    <3> HIDE DEF Small
    <3> QED
      BY <3>1, <3>2
  <2>4. next \in [Small(n + 1) -> Int]
    BY <1>2, <2>2
  <2>5. next = [T \in Small(n + 1) |-> IF T = {} THEN 0 ELSE f[Any(T)] + next[T \ {Any(T)}]]
    <3> HIDE DEF Small
    <3> QED
      BY <2>2, <2>3
  <2> HIDE DEF next
  <2> QED
    BY <2>4, <2>5 DEF Sums
<1>5. Bad = {}
  <2> SUFFICES ASSUME Bad # {} PROVE FALSE
    OBVIOUS
  <2>1. PICK n \in Bad : \A m \in Bad : n <= m
    <3> HIDE DEF Good
    <3> QED
      BY LeastNumber
  <2> HIDE DEF Good
  <2>2. n # 0
    BY <1>3, <2>1
  <2>3. n - 1 \in Nat /\ n - 1 \notin Bad
    BY <2>1, <2>2
  <2>4. Good(n - 1 + 1)
    BY <1>4, <2>3
  <2> QED
    BY <2>1, <2>4
<1>6. Small(Cardinality(S)) = SUBSET S
  BY <1>1, FS_Subset
<1>7. Good(Cardinality(S))
  <2> HIDE DEF Good
  <2> QED
    BY <1>1, <1>5
<1> QED
  BY <1>6, <1>7, Zenon DEF IsSum

LEMMA SumIsFold ==
    ASSUME NEW S, NEW f
    PROVE  SumFunctionOnSet(f, S) = (CHOOSE sum : IsSum(sum, S, f))[S]
  BY DEF SumFunctionOnSet, FoldFunctionOnSet, MapThenFoldSet, IsSum, Sums, Any


AreInts(f, S) == \A x \in S : f[x] \in Int

LEMMA SumsAgree ==
    ASSUME NEW S, IsFiniteSet(S), NEW R, S \subseteq R,
           NEW f, NEW g, \A x \in S : f[x] = g[x],
           NEW a, IsSum(a, S, f), NEW b, IsSum(b, R, g)
    PROVE  a[S] = b[S]
<1> DEFINE Bad == {T \in SUBSET S : a[T] # b[T]}
<1>1. \A T \in SUBSET S :
        /\ a[T] = IF T = {} THEN 0 ELSE f[Any(T)] + a[T \ {Any(T)}]
        /\ b[T] = IF T = {} THEN 0 ELSE g[Any(T)] + b[T \ {Any(T)}]
  BY DEF IsSum, Sums
<1>2. Bad = {}
  <2> SUFFICES ASSUME Bad # {} PROVE FALSE
    OBVIOUS
  <2>1. PICK T \in Bad : \A U \in SUBSET T : U # T => U \notin Bad
    <3>1. Bad \in SUBSET SUBSET S
      OBVIOUS
    <3> HIDE DEF Bad
    <3> QED
      BY <3>1, SmallestSet, Zenon
  <2>2. CASE T = {}
    BY <1>1, <2>1, <2>2
  <2>3. CASE T # {}
    <3>1. Any(T) \in T
      BY <2>3 DEF Any
    <3>2. a[T \ {Any(T)}] = b[T \ {Any(T)}]
      BY <2>1, <3>1
    <3>3. f[Any(T)] = g[Any(T)]
      BY <2>1, <3>1
    <3> QED
      BY <1>1, <2>1, <2>3, <3>2, <3>3
  <2> QED
    BY <2>2, <2>3
<1> QED
  BY <1>2

\* The fold over S is a sum of that kind.
LEMMA FoldIsSum ==
    ASSUME NEW S, IsFiniteSet(S), NEW f, AreInts(f, S)
    PROVE  \E sum \in [SUBSET S -> Int] : IsSum(sum, S, f) /\ SumFunctionOnSet(f, S) = sum[S]
<1>1. PICK sum \in [SUBSET S -> Int] : IsSum(sum, S, f)
  BY SumExists DEF AreInts
<1> DEFINE fold == CHOOSE a : IsSum(a, S, f)
<1>2. IsSum(fold, S, f)
  BY <1>1
<1> HIDE DEF fold
<1>3. fold[S] = sum[S]
  <2>1. S \subseteq S /\ \A x \in S : f[x] = f[x]
    OBVIOUS
  <2> QED
    BY <1>1, <1>2, <2>1, SumsAgree
<1> QED
  BY <1>1, <1>3, SumIsFold DEF fold

LEMMA SumIsInt ==
    ASSUME NEW S, IsFiniteSet(S), NEW f, AreInts(f, S)
    PROVE  SumFunctionOnSet(f, S) \in Int
<1>1. PICK sum \in [SUBSET S -> Int] : SumFunctionOnSet(f, S) = sum[S]
  BY FoldIsSum
<1> QED
  BY <1>1

LEMMA SumOfNone ==
    ASSUME NEW f
    PROVE  SumFunctionOnSet(f, {}) = 0
<1>1. IsFiniteSet({}) /\ AreInts(f, {})
  BY FS_EmptySet DEF AreInts
<1>2. PICK sum : IsSum(sum, {}, f) /\ SumFunctionOnSet(f, {}) = sum[{}]
  BY <1>1, FoldIsSum
<1> QED
  BY <1>2 DEF IsSum, Sums

LEMMA SumOfSame ==
    ASSUME NEW S, IsFiniteSet(S), NEW f, NEW g, AreInts(f, S), \A x \in S : f[x] = g[x]
    PROVE  SumFunctionOnSet(f, S) = SumFunctionOnSet(g, S)
<1>1. PICK a : IsSum(a, S, f) /\ SumFunctionOnSet(f, S) = a[S]
  BY FoldIsSum
<1>2. AreInts(g, S)
  BY DEF AreInts
<1>3. PICK b : IsSum(b, S, g) /\ SumFunctionOnSet(g, S) = b[S]
  BY <1>2, FoldIsSum
<1>4. S \subseteq S
  OBVIOUS
<1>5. a[S] = b[S]
  BY <1>1, <1>3, <1>4, SumsAgree
<1> QED
  BY <1>1, <1>3, <1>5

LEMMA SumStep ==
    ASSUME NEW S, IsFiniteSet(S), S # {}, NEW f, AreInts(f, S)
    PROVE  SumFunctionOnSet(f, S) = f[Any(S)] + SumFunctionOnSet(f, S \ {Any(S)})
<1> DEFINE R == S \ {Any(S)}
<1>1. IsFiniteSet(R) /\ AreInts(f, R) /\ R \subseteq S
  BY FS_Subset DEF AreInts
<1>2. PICK a : IsSum(a, S, f) /\ SumFunctionOnSet(f, S) = a[S]
  BY FoldIsSum
<1>3. PICK b : IsSum(b, R, f) /\ SumFunctionOnSet(f, R) = b[R]
  BY <1>1, FoldIsSum
<1>4. b[R] = a[R]
  <2>1. \A x \in R : f[x] = f[x]
    OBVIOUS
  <2> HIDE DEF R
  <2> QED
    BY <1>1, <1>2, <1>3, <2>1, SumsAgree
<1>5. a[S] = f[Any(S)] + a[R]
  BY <1>2 DEF IsSum, Sums
<1> QED
  BY <1>2, <1>3, <1>4, <1>5

\* Any element may be taken first.
LEMMA SumTakes ==
    ASSUME NEW S, IsFiniteSet(S), NEW f, AreInts(f, S), NEW x \in S
    PROVE  SumFunctionOnSet(f, S) = f[x] + SumFunctionOnSet(f, S \ {x})
<1> DEFINE sum(T) == SumFunctionOnSet(f, T)
           Bad == {T \in SUBSET S : \E y \in T : sum(T) # f[y] + sum(T \ {y})}
<1>1. \A T \in SUBSET S : IsFiniteSet(T) /\ AreInts(f, T) /\ sum(T) \in Int
  BY FS_Subset, SumIsInt DEF AreInts
<1>2. \A T \in SUBSET S : T # {} => sum(T) = f[Any(T)] + sum(T \ {Any(T)})
  BY <1>1, SumStep
<1>3. \A y \in S : f[y] \in Int
  BY DEF AreInts
<1> HIDE DEF sum
<1>4. Bad = {}
  <2> SUFFICES ASSUME Bad # {} PROVE FALSE
    OBVIOUS
  <2>1. PICK T \in Bad : \A U \in SUBSET T : U # T => U \notin Bad
    <3>1. Bad \in SUBSET SUBSET S
      OBVIOUS
    <3> HIDE DEF Bad
    <3> QED
      BY <3>1, SmallestSet, Zenon
  <2>2. PICK y \in T : sum(T) # f[y] + sum(T \ {y})
    BY <2>1
  <2> DEFINE c == Any(T)
  <2>3. c \in T
    BY <2>2 DEF Any
  <2> HIDE DEF c
  <2>4. sum(T) = f[c] + sum(T \ {c}) /\ c # y
    BY <1>2, <2>1, <2>2, <2>3 DEF c
  <2>5. T \ {c} \notin Bad /\ T \ {y} \notin Bad
    BY <2>1, <2>2, <2>3
  <2>6. sum(T \ {c}) = f[y] + sum((T \ {c}) \ {y})
    BY <2>1, <2>2, <2>4, <2>5
  <2>7. sum(T \ {y}) = f[c] + sum((T \ {y}) \ {c})
    BY <2>1, <2>3, <2>4, <2>5
  <2>8. sum((T \ {y}) \ {c}) = sum((T \ {c}) \ {y})
    <3>1. (T \ {y}) \ {c} = (T \ {c}) \ {y}
      OBVIOUS
    <3> QED
      BY <3>1, Zenon
  <2>9. sum((T \ {c}) \ {y}) \in Int /\ f[y] \in Int /\ f[c] \in Int
    BY <1>1, <1>3, <2>1, <2>2, <2>3
  <2> QED
    BY <2>2, <2>4, <2>6, <2>7, <2>8, <2>9
<1> QED
  BY <1>4 DEF sum

\* A sum in which one summand was added or exchanged.
LEMMA SumExchanged ==
    ASSUME NEW S, IsFiniteSet(S), NEW x, NEW f, NEW g,
           AreInts(f, S), AreInts(g, S \cup {x}), \A y \in S \ {x} : f[y] = g[y]
    PROVE  SumFunctionOnSet(g, S \cup {x})
             = SumFunctionOnSet(f, S) + g[x] - (IF x \in S THEN f[x] ELSE 0)
<1>1. IsFiniteSet(S \cup {x}) /\ IsFiniteSet(S \ {x})
  BY FS_AddElement, FS_Subset
<1>2. AreInts(f, S \ {x}) /\ AreInts(g, S \ {x}) /\ g[x] \in Int /\ (x \in S => f[x] \in Int)
  BY DEF AreInts
<1> DEFINE rest == SumFunctionOnSet(f, S \ {x})
<1>3. SumFunctionOnSet(g, S \cup {x}) = g[x] + SumFunctionOnSet(g, (S \cup {x}) \ {x})
  BY <1>1, SumTakes
<1>4. (S \cup {x}) \ {x} = S \ {x}
  OBVIOUS
<1>5. SumFunctionOnSet(g, S \ {x}) = rest
  BY <1>1, <1>2, SumOfSame
<1>6. rest \in Int
  BY <1>1, <1>2, SumIsInt
<1>7. SumFunctionOnSet(f, S) = rest + (IF x \in S THEN f[x] ELSE 0)
  <2>1. CASE x \in S
    BY <2>1, <1>2, <1>6, SumTakes
  <2>2. CASE x \notin S
    <3>1. S \ {x} = S
      BY <2>2
    <3>2. SumFunctionOnSet(f, S) = rest
      BY <3>1, Zenon
    <3> QED
      BY <3>2, <1>6, <2>2
  <2> QED
    BY <2>1, <2>2
<1> HIDE DEF rest
<1>8. SumFunctionOnSet(g, S \cup {x}) = g[x] + rest
  BY <1>3, <1>4, <1>5
<1> QED
  BY <1>2, <1>6, <1>7, <1>8

LEMMA SumIsMonotone ==
    ASSUME NEW S, IsFiniteSet(S), NEW f, NEW g, AreInts(f, S), AreInts(g, S),
           \A x \in S : f[x] <= g[x]
    PROVE  SumFunctionOnSet(f, S) <= SumFunctionOnSet(g, S)
<1> DEFINE a(T) == SumFunctionOnSet(f, T)
           b(T) == SumFunctionOnSet(g, T)
           Bad == {T \in SUBSET S : ~(a(T) <= b(T))}
<1>1. \A T \in SUBSET S : IsFiniteSet(T) /\ AreInts(f, T) /\ AreInts(g, T)
  BY FS_Subset DEF AreInts
<1>2. \A T \in SUBSET S : a(T) \in Int /\ b(T) \in Int
  BY <1>1, SumIsInt
<1>3. \A T \in SUBSET S : T # {} => /\ a(T) = f[Any(T)] + a(T \ {Any(T)})
                                    /\ b(T) = g[Any(T)] + b(T \ {Any(T)})
  BY <1>1, SumStep
<1>4. a({}) = 0 /\ b({}) = 0
  BY SumOfNone
<1>5. \A y \in S : f[y] \in Int /\ g[y] \in Int
  BY DEF AreInts
<1> HIDE DEF a, b
<1>6. Bad = {}
  <2> SUFFICES ASSUME Bad # {} PROVE FALSE
    OBVIOUS
  <2>1. PICK T \in Bad : \A U \in SUBSET T : U # T => U \notin Bad
    <3>1. Bad \in SUBSET SUBSET S
      OBVIOUS
    <3> HIDE DEF Bad
    <3> QED
      BY <3>1, SmallestSet, Zenon
  <2>2. T # {}
    <3> SUFFICES ASSUME T = {} PROVE FALSE
      OBVIOUS
    <3>1. a(T) = 0 /\ b(T) = 0
      BY <1>4, Zenon
    <3> QED
      BY <2>1, <3>1
  <2> DEFINE c == Any(T)
  <2>3. c \in T
    BY <2>2 DEF Any
  <2>4. a(T) = f[c] + a(T \ {c}) /\ b(T) = g[c] + b(T \ {c})
    BY <1>3, <2>1, <2>2
  <2> HIDE DEF c
  <2>5. a(T \ {c}) <= b(T \ {c})
    BY <2>1, <2>3
  <2>6. /\ a(T \ {c}) \in Int /\ b(T \ {c}) \in Int
        /\ f[c] \in Int /\ g[c] \in Int /\ f[c] <= g[c]
    BY <1>2, <1>5, <2>1, <2>3
  <2> QED
    BY <2>1, <2>4, <2>5, <2>6
<1> QED
  BY <1>6 DEF a, b


LEMMA SumIsNatural ==
    ASSUME NEW S, IsFiniteSet(S), NEW f, \A x \in S : f[x] \in Nat
    PROVE  SumFunctionOnSet(f, S) \in Nat
<1> DEFINE a(T) == SumFunctionOnSet(f, T)
           Bad == {T \in SUBSET S : a(T) \notin Nat}
<1>1. \A T \in SUBSET S : IsFiniteSet(T) /\ AreInts(f, T)
  BY FS_Subset DEF AreInts
<1>2. \A T \in SUBSET S : T # {} => a(T) = f[Any(T)] + a(T \ {Any(T)})
  BY <1>1, SumStep
<1>3. a({}) = 0
  BY SumOfNone
<1> HIDE DEF a
<1>4. Bad = {}
  <2> SUFFICES ASSUME Bad # {} PROVE FALSE
    OBVIOUS
  <2>1. PICK T \in Bad : \A U \in SUBSET T : U # T => U \notin Bad
    <3>1. Bad \in SUBSET SUBSET S
      OBVIOUS
    <3> HIDE DEF Bad
    <3> QED
      BY <3>1, SmallestSet, Zenon
  <2>2. T # {}
    <3> SUFFICES ASSUME T = {} PROVE FALSE
      OBVIOUS
    <3>1. a(T) = 0
      BY <1>3, Zenon
    <3> QED
      BY <2>1, <3>1
  <2> DEFINE c == Any(T)
  <2>3. c \in T
    BY <2>2 DEF Any
  <2>4. a(T) = f[c] + a(T \ {c})
    BY <1>2, <2>1, <2>2
  <2> HIDE DEF c
  <2>5. a(T \ {c}) \in Nat /\ f[c] \in Nat
    BY <2>1, <2>3
  <2> QED
    BY <2>1, <2>4, <2>5
<1> QED
  BY <1>4 DEF a

-----------------------------------------------------------------------------
(* Totals *)

Counts == [Metric -> Nat]

LEMMA TotalIs ==
    ASSUME NEW c \in [Replica -> Counts], NEW m \in Metric
    PROVE  /\ Total(c)[m] = SumFunctionOnSet([r \in Replica |-> c[r][m]], Replica)
           /\ AreInts([r \in Replica |-> c[r][m]], Replica)
           /\ \A r \in Replica : c[r][m] \in Nat
  BY DEF Total, SumFunction, AreInts, Counts

LEMMA TotalIsNatural ==
    ASSUME NEW c \in [Replica -> Counts]
    PROVE  Total(c) \in Counts
<1>1. \A m \in Metric : Total(c)[m] \in Nat
  <2> SUFFICES ASSUME NEW m \in Metric PROVE Total(c)[m] \in Nat
    OBVIOUS
  <2> DEFINE f == [r \in Replica |-> c[r][m]]
  <2>1. \A r \in Replica : f[r] \in Nat
    BY TotalIs
  <2>2. Total(c)[m] = SumFunctionOnSet(f, Replica)
    BY TotalIs
  <2> HIDE DEF f
  <2> QED
    BY <2>1, <2>2, SumIsNatural, ReplicasAreFinite
<1> QED
  BY <1>1 DEF Total, Counts

LEMMA TotalUpdated ==
    ASSUME NEW c \in [Replica -> Counts], NEW r \in Replica, NEW v \in Counts, NEW m \in Metric
    PROVE  Total([c EXCEPT ![r] = v])[m] = Total(c)[m] + v[m] - c[r][m]
<1> DEFINE d == [c EXCEPT ![r] = v]
           f == [x \in Replica |-> c[x][m]]
           g == [x \in Replica |-> d[x][m]]
<1>1. d \in [Replica -> Counts] /\ d[r] = v /\ \A x \in Replica \ {r} : d[x] = c[x]
  OBVIOUS
<1> HIDE DEF d
<1>2. /\ Total(c)[m] = SumFunctionOnSet(f, Replica) /\ AreInts(f, Replica)
      /\ Total(d)[m] = SumFunctionOnSet(g, Replica) /\ AreInts(g, Replica)
  BY <1>1, TotalIs
<1>3. f[r] = c[r][m] /\ g[r] = v[m] /\ \A x \in Replica \ {r} : f[x] = g[x]
  BY <1>1
<1> HIDE DEF f, g
<1>4. Replica \cup {r} = Replica
  OBVIOUS
<1>5. AreInts(g, Replica \cup {r})
  BY <1>2, <1>4, Zenon
<1>6. SumFunctionOnSet(g, Replica \cup {r}) = SumFunctionOnSet(f, Replica) + g[r] - f[r]
  BY <1>2, <1>3, <1>5, SumExchanged, ReplicasAreFinite
<1>7. SumFunctionOnSet(g, Replica \cup {r}) = SumFunctionOnSet(g, Replica)
  BY <1>4, Zenon
<1> QED
  BY <1>2, <1>3, <1>6, <1>7 DEF d

LEMMA TotalIsMonotone ==
    ASSUME NEW c \in [Replica -> Counts], NEW d \in [Replica -> Counts], NEW m \in Metric,
           \A r \in Replica : c[r][m] <= d[r][m]
    PROVE  Total(c)[m] <= Total(d)[m]
<1> DEFINE f == [x \in Replica |-> c[x][m]]
           g == [x \in Replica |-> d[x][m]]
<1>1. /\ Total(c)[m] = SumFunctionOnSet(f, Replica) /\ AreInts(f, Replica)
      /\ Total(d)[m] = SumFunctionOnSet(g, Replica) /\ AreInts(g, Replica)
  BY TotalIs
<1>2. \A x \in Replica : f[x] <= g[x]
  OBVIOUS
<1> HIDE DEF f, g
<1>3. SumFunctionOnSet(f, Replica) <= SumFunctionOnSet(g, Replica)
  BY <1>1, <1>2, SumIsMonotone, ReplicasAreFinite
<1> QED
  BY <1>1, <1>3

-----------------------------------------------------------------------------
(* Inductive invariants *)

ReportTypeOK ==
    /\ turn \in DOMAIN Compare
    /\ phase \in {"before", "traffic", "settle", "after", "done", "lost"}
    /\ read \in Seq(Int) /\ Len(read) <= Len(Asked)
    /\ phase \in {"traffic", "settle"} => read = <<>>
    /\ before \in [Metric -> Int]
    /\ IsFiniteSet(DOMAIN rows) /\ \A r \in DOMAIN rows : rows[r] \in [Metric -> Int]
    /\ \A i \in DOMAIN Compare : i < turn => Compare[i] \in DOMAIN rows
    /\ counters \in [Replica -> Counts]
    /\ scraped \in [Replica -> Counts]
    /\ open \in Nat /\ sent \in Nat /\ faults \in Nat
    /\ served \in [DOMAIN Compare -> Counts]
    /\ counted \in Counts

RowTotal(m) == SumFunction([r \in DOMAIN rows |-> rows[r][m]])

\* What the readings of a snapshot have in common: each is between a lower bound and what
\* Prometheus shows now.
ReadAbove(low) ==
    \A i \in DOMAIN read :
        low[Asked[i]] <= read[i] /\ read[i] <= Total(scraped)[Asked[i]]

\* Everything is in one order while nothing is lost: the rows together, the baseline, the
\* readings, what Prometheus shows, what the replicas counted.
Ordered ==
    /\ \A r \in Replica : \A m \in Metric : scraped[r][m] <= counters[r][m]
    /\ Total(counters) = counted
    /\ \A m \in Metric : RowTotal(m) <= Total(scraped)[m]
    /\ \A r \in DOMAIN rows : \A m \in Metric : rows[r][m] >= 0
    /\ phase = "before" => ReadAbove([m \in Metric |-> RowTotal(m)])
    /\ phase \in {"traffic", "settle", "after"} =>
         \A m \in Metric : RowTotal(m) <= before[m] /\ before[m] <= Total(scraped)[m]
    /\ phase = "after" => ReadAbove(before)

OrderInv == ReportTypeOK /\ (faults = 0 => Ordered)

\* Readings that are exactly what Prometheus shows.
ReadExactly == \A i \in DOMAIN read : read[i] = Total(scraped)[Asked[i]]

\* As long as nothing blurs the report, what was counted beyond the baseline is what this
\* route's traffic caused, and between two routes everything is shown.
Clean ==
    /\ phase \in {"before", "settle", "after"} => open = 0
    /\ phase \in {"before", "after"} => scraped = counters /\ ReadExactly
    /\ phase = "settle" => \A r \in Replica \ due : scraped[r] = counters[r]
    /\ phase \in {"traffic", "settle", "after"} => Plus(before, served[turn]) = Total(counters)
    /\ phase = "before" => served[turn] = Zero
    /\ \A i \in DOMAIN Compare : i > turn => served[i] = Zero
    /\ phase = "done" => turn = Len(Compare)
    /\ CleanRowsAreExact

CleanInv == ReportTypeOK /\ (~blurred => Clean)

-----------------------------------------------------------------------------
(* Types *)

LEMMA RoutesAreCounted ==
    Len(Compare) \in Nat \ {0} /\ DOMAIN Compare = 1..Len(Compare)
  BY SomeRoutes

LEMMA ZeroIsCounts ==
    Zero \in Counts /\ \A m \in Metric : Zero[m] = 0
  BY DEF Zero, Counts

LEMMA PlusIsCounts ==
    ASSUME NEW c \in Counts, NEW d \in Counts
    PROVE  Plus(c, d) \in Counts /\ \A m \in Metric : Plus(c, d)[m] = c[m] + d[m]
  BY DEF Plus, Counts

LEMMA WorkIsCounts ==
    Work \subseteq Counts /\ Earlier \subseteq Counts
  BY CountsAreNat DEF Counts, Metric

LEMMA AskedOf ==
    /\ Len(Asked) = 3 /\ DOMAIN Asked = 1..3
    /\ \A i \in 1..3 : Asked[i] \in Metric
    /\ \A m \in Metric : \E i \in 1..3 : Asked[i] = m
  BY DEF Asked, Metric

\* A complete snapshot holds, for every metric, the reading it was asked in.
LEMMA SnapshotIs ==
    ASSUME read \in Seq(Int), Len(read) = Len(Asked)
    PROVE  /\ Snapshot \in [Metric -> Int]
           /\ \A m \in Metric : \E i \in DOMAIN read : Asked[i] = m /\ Snapshot[m] = read[i]
<1>1. DOMAIN read = 1..3
  BY AskedOf
<1>2. \A m \in Metric : \E i \in DOMAIN read : Asked[i] = m /\ Snapshot[m] = read[i]
  <2> SUFFICES ASSUME NEW m \in Metric
               PROVE  \E i \in DOMAIN read : Asked[i] = m /\ Snapshot[m] = read[i]
    OBVIOUS
  <2> DEFINE at == CHOOSE i \in DOMAIN Asked : Asked[i] = m
  <2>1. at \in DOMAIN Asked /\ Asked[at] = m
    BY AskedOf
  <2>2. Snapshot[m] = read[at]
    BY DEF Snapshot
  <2> HIDE DEF at
  <2> QED
    BY <1>1, <2>1, <2>2, AskedOf
<1>3. Snapshot = [m \in Metric |-> Snapshot[m]]
  BY DEF Snapshot
<1> QED
  BY <1>2, <1>3

LEMMA InitIsTyped ==
    ASSUME Init PROVE ReportTypeOK
<1>1. counters \in [Replica -> Counts] /\ scraped \in [Replica -> Counts]
  BY WorkIsCounts, ZeroIsCounts DEF Init
<1>2. served \in [DOMAIN Compare -> Counts] /\ counted \in Counts
  BY <1>1, ZeroIsCounts, TotalIsNatural DEF Init
<1>3. IsFiniteSet(DOMAIN rows) /\ \A r \in DOMAIN rows : rows[r] \in [Metric -> Int]
  <2>1. DOMAIN rows = {}
    BY DEF Init
  <2> QED
    BY <2>1, FS_EmptySet
<1>4. before \in [Metric -> Int]
  BY ZeroIsCounts DEF Init, Counts
<1>5. turn \in DOMAIN Compare /\ \A i \in DOMAIN Compare : ~(i < turn)
  BY RoutesAreCounted DEF Init
<1> QED
  BY <1>1, <1>2, <1>3, <1>4, <1>5, AskedOf DEF Init, ReportTypeOK

LEMMA StaysTyped ==
    ASSUME ReportTypeOK, [Next]_vars PROVE ReportTypeOK'
<1> USE DEF reportVars, backendVars
<1>1. CASE Query
  <2>1. PICK fails \in BOOLEAN :
            /\ read' = Append(read, Answer(Asked[Len(read) + 1], fails))
            /\ faults' = IF fails THEN faults + 1 ELSE faults
    BY <1>1 DEF Query
  <2>2. Asked[Len(read) + 1] \in Metric
    BY <1>1, AskedOf DEF Query, ReportTypeOK
  <2>3. Answer(Asked[Len(read) + 1], fails) \in Int
    <3>1. Total(scraped) \in Counts
      BY TotalIsNatural DEF ReportTypeOK
    <3>2. Total(scraped)[Asked[Len(read) + 1]] \in Nat
      BY <2>2, <3>1 DEF Counts
    <3> QED
      BY <3>2 DEF Answer
  <2>4. read' \in Seq(Int) /\ Len(read') <= Len(Asked)
    <3> DEFINE a == Answer(Asked[Len(read) + 1], fails)
    <3> HIDE DEF a
    <3>1. a \in Int /\ read' = Append(read, a) /\ read \in Seq(Int) /\ Len(read) < 3
      BY <1>1, <2>1, <2>3, AskedOf DEF Query, ReportTypeOK, a
    <3> QED
      BY <3>1, AskedOf
  <2> QED
    BY <1>1, <2>1, <2>4 DEF Query, ReportTypeOK
<1>2. CASE Start
  BY <1>2, SnapshotIs, AskedOf DEF Start, Baseline, ReportTypeOK
<1>3. CASE EndTraffic
  BY <1>3 DEF EndTraffic, ReportTypeOK
<1>4. CASE Raise
  BY <1>4 DEF Raise, ReportTypeOK
<1>5. CASE Settled
  BY <1>5 DEF Settled, ReportTypeOK
<1>6. CASE Record
  <2>1. turn' \in DOMAIN Compare
    BY <1>6, RoutesAreCounted DEF Record, ReportTypeOK
  <2>2. /\ DOMAIN rows' = DOMAIN rows \cup {Route}
        /\ \A r \in DOMAIN rows \cup {Route} :
             rows'[r] = IF r = Route THEN Minus(Snapshot, before) ELSE rows[r]
    BY <1>6 DEF Record
  <2>3. IsFiniteSet(DOMAIN rows')
    <3>1. IsFiniteSet(DOMAIN rows \cup {Route})
      BY FS_AddElement DEF ReportTypeOK
    <3> QED
      BY <2>2, <3>1, Zenon
  <2>4. Minus(Snapshot, before) \in [Metric -> Int]
    BY <1>6, SnapshotIs DEF Record, Minus, ReportTypeOK
  <2>5. \A i \in DOMAIN Compare : i < turn' => Compare[i] \in DOMAIN rows'
    <3>1. \A i \in DOMAIN Compare : i < turn' => i < turn \/ i = turn
      BY <1>6, RoutesAreCounted DEF Record, ReportTypeOK
    <3> QED
      BY <2>2, <3>1 DEF ReportTypeOK, Route
  <2> QED
    BY <1>6, <2>1, <2>2, <2>3, <2>4, <2>5, AskedOf DEF Record, ReportTypeOK
<1>7. CASE Send
  BY <1>7 DEF Send, ReportTypeOK
<1>8. CASE \E replica \in Replica : Serve(replica)
  <2>1. PICK replica \in Replica, one \in Work :
            /\ counters' = [counters EXCEPT ![replica] = Plus(@, one)]
            /\ served' = [served EXCEPT ![turn] = Plus(@, one)]
            /\ counted' = Plus(counted, one)
            /\ open > 0 /\ open' = open - 1
    BY <1>8 DEF Serve
  <2>2. counters' \in [Replica -> Counts] /\ served' \in [DOMAIN Compare -> Counts] /\ counted' \in Counts
    BY <2>1, PlusIsCounts, WorkIsCounts DEF ReportTypeOK
  <2> QED
    BY <1>8, <2>1, <2>2 DEF Serve, ReportTypeOK
<1>9. CASE \E replica \in Replica : Scrape(replica)
  BY <1>9 DEF Scrape, ReportTypeOK
<1>10. CASE \E replica \in Replica : Restart(replica)
  BY <1>10, ZeroIsCounts DEF Restart, ReportTypeOK
<1>11. CASE UNCHANGED vars
  BY <1>11 DEF vars, ReportTypeOK
<1> QED
  BY <1>1, <1>2, <1>3, <1>4, <1>5, <1>6, <1>7, <1>8, <1>9, <1>10, <1>11 DEF Next, Backend


-----------------------------------------------------------------------------
(* Nothing is counted twice *)

LEMMA RowTotalIsInt ==
    ASSUME ReportTypeOK, NEW m \in Metric
    PROVE  /\ RowTotal(m) \in Int
           /\ RowTotal(m) = SumFunctionOnSet([r \in DOMAIN rows |-> rows[r][m]], DOMAIN rows)
           /\ AreInts([r \in DOMAIN rows |-> rows[r][m]], DOMAIN rows)
<1> DEFINE f == [r \in DOMAIN rows |-> rows[r][m]]
<1>1. AreInts(f, DOMAIN rows)
  BY DEF ReportTypeOK, AreInts
<1>2. RowTotal(m) = SumFunctionOnSet(f, DOMAIN rows)
  BY DEF RowTotal, SumFunction
<1> HIDE DEF f
<1>3. SumFunctionOnSet(f, DOMAIN rows) \in Int
  BY <1>1, SumIsInt DEF ReportTypeOK
<1> QED
  BY <1>1, <1>2, <1>3 DEF f

\* A new row adds its difference to the total; one that is written again replaces its own.
LEMMA RowIsAdded ==
    ASSUME ReportTypeOK, ReportTypeOK', Record, NEW m \in Metric
    PROVE  RowTotal(m)' = RowTotal(m) + Snapshot[m] - before[m]
                            - (IF Route \in DOMAIN rows THEN rows[Route][m] ELSE 0)
<1> DEFINE f == [r \in DOMAIN rows |-> rows[r][m]]
           g == [r \in DOMAIN rows' |-> rows'[r][m]]
<1>1. /\ DOMAIN rows' = DOMAIN rows \cup {Route}
      /\ \A r \in DOMAIN rows \cup {Route} :
           rows'[r] = IF r = Route THEN Minus(Snapshot, before) ELSE rows[r]
  BY DEF Record
<1>2. RowTotal(m) = SumFunctionOnSet(f, DOMAIN rows) /\ AreInts(f, DOMAIN rows)
  BY RowTotalIsInt
<1>3. RowTotal(m)' = SumFunctionOnSet(g, DOMAIN rows')
  BY DEF RowTotal, SumFunction
<1>4. AreInts(g, DOMAIN rows \cup {Route})
  BY <1>1 DEF ReportTypeOK, AreInts
<1>5. /\ g[Route] = Snapshot[m] - before[m]
      /\ \A r \in DOMAIN rows \ {Route} : f[r] = g[r]
      /\ Route \in DOMAIN rows => f[Route] = rows[Route][m]
  BY <1>1 DEF Minus
<1> HIDE DEF f, g
<1>6. SumFunctionOnSet(g, DOMAIN rows \cup {Route})
        = SumFunctionOnSet(f, DOMAIN rows) + g[Route]
            - (IF Route \in DOMAIN rows THEN f[Route] ELSE 0)
  <2> DEFINE R == DOMAIN rows
             x == Route
  <2>1. /\ IsFiniteSet(R) /\ AreInts(f, R) /\ AreInts(g, R \cup {x})
        /\ \A y \in R \ {x} : f[y] = g[y]
    BY <1>2, <1>4, <1>5 DEF ReportTypeOK
  <2> HIDE DEF R, x
  <2>2. SumFunctionOnSet(g, R \cup {x})
          = SumFunctionOnSet(f, R) + g[x] - (IF x \in R THEN f[x] ELSE 0)
    BY <2>1, SumExchanged
  <2> QED
    BY <2>2 DEF R, x
<1>7. RowTotal(m)' = SumFunctionOnSet(g, DOMAIN rows \cup {Route})
  BY <1>1, <1>3, Zenon
<1>8. Snapshot[m] \in Int /\ before[m] \in Int /\ RowTotal(m) \in Int
  BY SnapshotIs, RowTotalIsInt DEF Record, ReportTypeOK
<1>9. Route \in DOMAIN rows => rows[Route][m] \in Int
  BY DEF ReportTypeOK
<1> QED
  BY <1>2, <1>5, <1>6, <1>7, <1>8, <1>9


LEMMA OneMoreReading ==
    ASSUME ReportTypeOK, Len(read) < Len(Asked),
           read' = Append(read, Total(scraped)[Asked[Len(read) + 1]]),
           NEW low \in [Metric -> Int], ReadAbove(low),
           \A m \in Metric : low[m] <= Total(scraped)[m]
    PROVE  \A i \in DOMAIN read' :
             low[Asked[i]] <= read'[i] /\ read'[i] <= Total(scraped)[Asked[i]]
<1> DEFINE n == Len(read)
<1>1. n \in 0..2 /\ n + 1 \in 1..3 /\ Asked[n + 1] \in Metric
  <2>1. n \in Nat
    BY DEF ReportTypeOK
  <2>2. n < 3
    BY AskedOf
  <2> HIDE DEF n
  <2> QED
    BY <2>1, <2>2, AskedOf
<1>2. Total(scraped)[Asked[n + 1]] \in Int
  <2>1. Total(scraped) \in Counts
    BY TotalIsNatural DEF ReportTypeOK
  <2> QED
    BY <1>1, <2>1 DEF Counts
<1> DEFINE a == Total(scraped)[Asked[n + 1]]
<1>3. /\ read \in Seq(Int) /\ DOMAIN read = 1..n /\ DOMAIN read' = 1..(n + 1)
      /\ \A i \in 1..n : read'[i] = read[i]
      /\ read'[n + 1] = a
  <2> HIDE DEF a
  <2>1. a \in Int /\ read' = Append(read, a) /\ read \in Seq(Int)
    BY <1>2 DEF a, ReportTypeOK
  <2> QED
    BY <2>1
<1>4. low[Asked[n + 1]] <= a /\ a <= Total(scraped)[Asked[n + 1]]
  BY <1>1, <1>2
<1> HIDE DEF a, n
<1>5. \A i \in 1..n : low[Asked[i]] <= read'[i] /\ read'[i] <= Total(scraped)[Asked[i]]
  BY <1>3 DEF ReadAbove
<1>6. \A i \in 1..(n + 1) : i \in 1..n \/ i = n + 1
  BY <1>1
<1> QED
  BY <1>3, <1>4, <1>5, <1>6

LEMMA OrderedAtFirst ==
    ASSUME Init PROVE Ordered
<1>1. ReportTypeOK
  BY InitIsTyped
<1>2. \A r \in Replica : \A m \in Metric : scraped[r][m] <= counters[r][m]
  <2> SUFFICES ASSUME NEW r \in Replica, NEW m \in Metric PROVE scraped[r][m] <= counters[r][m]
    OBVIOUS
  <2>1. counters[r] \in Counts
    BY <1>1 DEF ReportTypeOK
  <2>2. counters[r][m] \in Nat /\ scraped[r][m] = 0
    BY <2>1, ZeroIsCounts DEF Init, Counts
  <2> QED
    BY <2>2
<1>3. DOMAIN rows = {} /\ DOMAIN read = {} /\ phase = "before"
  BY DEF Init
<1>4. \A m \in Metric : RowTotal(m) = 0 /\ 0 <= Total(scraped)[m]
  <2> SUFFICES ASSUME NEW m \in Metric PROVE RowTotal(m) = 0 /\ 0 <= Total(scraped)[m]
    OBVIOUS
  <2>1. RowTotal(m) = SumFunctionOnSet([r \in DOMAIN rows |-> rows[r][m]], DOMAIN rows)
    BY <1>1, RowTotalIsInt
  <2>2. RowTotal(m) = 0
    BY <1>3, <2>1, SumOfNone, Zenon
  <2>3. Total(scraped) \in Counts
    BY <1>1, TotalIsNatural DEF ReportTypeOK
  <2>4. Total(scraped)[m] \in Nat
    BY <2>3 DEF Counts
  <2> QED
    BY <2>2, <2>4
<1> QED
  BY <1>2, <1>3, <1>4 DEF Init, Ordered, ReadAbove

LEMMA StaysOrdered ==
    ASSUME ReportTypeOK, ReportTypeOK', [Next]_vars, Ordered, faults = 0, faults' = 0
    PROVE  Ordered'
<1> USE DEF reportVars, backendVars
<1>0. Total(scraped) \in Counts /\ Total(counters) \in Counts /\ \A m \in Metric : RowTotal(m) \in Int
  BY TotalIsNatural, RowTotalIsInt DEF ReportTypeOK
<1>1. CASE Query
  <2>1. PICK fails \in BOOLEAN :
            /\ read' = Append(read, Answer(Asked[Len(read) + 1], fails))
            /\ faults' = IF fails THEN faults + 1 ELSE faults
    BY <1>1 DEF Query
  <2>2. ~fails
    BY <2>1
  <2>3. read' = Append(read, Total(scraped)[Asked[Len(read) + 1]]) /\ Len(read) < Len(Asked)
    BY <1>1, <2>1, <2>2 DEF Query, Answer
  <2>4. UNCHANGED <<turn, phase, before, rows, counters, scraped, counted>>
    BY <1>1 DEF Query
  <2> DEFINE low == [m \in Metric |-> RowTotal(m)]
  <2>5. phase = "before" => ReadAbove([m \in Metric |-> RowTotal(m)])'
    <3> SUFFICES ASSUME phase = "before"
                 PROVE  ReadAbove([m \in Metric |-> RowTotal(m)])'
      OBVIOUS
    <3>1. low \in [Metric -> Int] /\ \A m \in Metric : low[m] <= Total(scraped)[m]
      BY <1>0 DEF Ordered
    <3>2. low' = low
      BY <2>4 DEF RowTotal
    <3>3. ReadAbove(low)
      BY DEF Ordered
    <3> HIDE DEF low
    <3>4. \A i \in DOMAIN read' : low[Asked[i]] <= read'[i] /\ read'[i] <= Total(scraped)[Asked[i]]
      BY <2>3, <3>1, <3>3, OneMoreReading
    <3>5. ReadAbove(low)'
      BY <2>4, <3>2, <3>4 DEF ReadAbove
    <3> QED
      BY <3>5 DEF low
  <2>6. phase = "after" => ReadAbove(before)'
    <3> SUFFICES ASSUME phase = "after" PROVE ReadAbove(before)'
      OBVIOUS
    <3>1. before \in [Metric -> Int] /\ \A m \in Metric : before[m] <= Total(scraped)[m]
      BY DEF Ordered, ReportTypeOK
    <3>2. ReadAbove(before)
      BY DEF Ordered
    <3>3. \A i \in DOMAIN read' :
            before[Asked[i]] <= read'[i] /\ read'[i] <= Total(scraped)[Asked[i]]
      BY <2>3, <3>1, <3>2, OneMoreReading
    <3> QED
      BY <2>4, <3>3 DEF ReadAbove
  <2> QED
    BY <2>4, <2>5, <2>6 DEF Ordered, RowTotal
<1>2. CASE Start
  <2>1. /\ phase = "before" /\ phase' = "traffic" /\ before' = Snapshot
        /\ read \in Seq(Int) /\ Len(read) = Len(Asked)
        /\ UNCHANGED <<rows, counters, scraped, counted>>
    BY <1>2 DEF Start, Baseline, ReportTypeOK
  <2>2. \A m \in Metric : RowTotal(m) <= Snapshot[m] /\ Snapshot[m] <= Total(scraped)[m]
    <3> SUFFICES ASSUME NEW m \in Metric
                 PROVE  RowTotal(m) <= Snapshot[m] /\ Snapshot[m] <= Total(scraped)[m]
      OBVIOUS
    <3>1. PICK i \in DOMAIN read : Asked[i] = m /\ Snapshot[m] = read[i]
      BY <2>1, SnapshotIs
    <3> QED
      BY <2>1, <3>1 DEF Ordered, ReadAbove
  <2> QED
    BY <2>1, <2>2 DEF Ordered, RowTotal
<1>3. CASE EndTraffic \/ Raise \/ Send
  <2>1. UNCHANGED <<read, before, rows, counters, scraped, counted>>
    BY <1>3 DEF EndTraffic, Raise, Send
  <2>2. \/ phase' = phase
        \/ phase = "traffic" /\ phase' = "settle"
        \/ phase' = "lost"
    BY <1>3 DEF EndTraffic, Raise, Send
  <2> QED
    BY <2>1, <2>2 DEF Ordered, RowTotal, ReadAbove
<1>4. CASE Settled
  <2>1. UNCHANGED <<read, before, rows, counters, scraped, counted>>
        /\ phase = "settle" /\ phase' = "after"
    BY <1>4 DEF Settled
  <2>2. DOMAIN read' = {}
    BY <2>1 DEF ReportTypeOK
  <2> QED
    BY <2>1, <2>2 DEF Ordered, RowTotal, ReadAbove
<1>5. CASE Record
  <2>1. /\ phase = "after" /\ phase' \in {"before", "done"} /\ read' = <<>>
        /\ read \in Seq(Int) /\ Len(read) = Len(Asked)
        /\ UNCHANGED <<before, counters, scraped, counted>>
    BY <1>5 DEF Record, ReportTypeOK
  <2>2. \A m \in Metric : /\ before[m] <= Snapshot[m] /\ Snapshot[m] <= Total(scraped)[m]
                          /\ Snapshot[m] \in Int /\ before[m] \in Int
    <3> SUFFICES ASSUME NEW m \in Metric
                 PROVE  /\ before[m] <= Snapshot[m] /\ Snapshot[m] <= Total(scraped)[m]
                        /\ Snapshot[m] \in Int /\ before[m] \in Int
      OBVIOUS
    <3>1. PICK i \in DOMAIN read : Asked[i] = m /\ Snapshot[m] = read[i]
      BY <2>1, SnapshotIs
    <3> QED
      BY <2>1, <3>1 DEF Ordered, ReadAbove, ReportTypeOK
  <2>3. \A m \in Metric : RowTotal(m)' <= Total(scraped)[m]
    <3> SUFFICES ASSUME NEW m \in Metric PROVE RowTotal(m)' <= Total(scraped)[m]
      OBVIOUS
    <3>1. RowTotal(m)' = RowTotal(m) + Snapshot[m] - before[m]
                           - (IF Route \in DOMAIN rows THEN rows[Route][m] ELSE 0)
      BY <1>5, RowIsAdded
    <3>2. Route \in DOMAIN rows => rows[Route][m] \in Int /\ rows[Route][m] >= 0
      BY DEF Ordered, ReportTypeOK
    <3>3. RowTotal(m) <= before[m] /\ RowTotal(m) \in Int
      BY <1>0, <2>1 DEF Ordered
    <3>4. Total(scraped)[m] \in Int
      BY <1>0 DEF Counts
    <3> QED
      BY <2>2, <3>1, <3>2, <3>3, <3>4
  <2>4. \A r \in DOMAIN rows' : \A m \in Metric : rows'[r][m] >= 0
    <3>1. \A r \in DOMAIN rows' : r \in DOMAIN rows \cup {Route}
            /\ rows'[r] = IF r = Route THEN Minus(Snapshot, before) ELSE rows[r]
      BY <1>5 DEF Record
    <3>2. \A m \in Metric : Minus(Snapshot, before)[m] >= 0
      BY <2>2 DEF Minus
    <3> QED
      BY <3>1, <3>2 DEF Ordered
  <2>5. Total(scraped)' = Total(scraped) /\ Total(counters)' = Total(counters)
    BY <2>1
  <2>6. DOMAIN read' = {}
    BY <2>1
  <2> HIDE DEF reportVars, backendVars
  <2> QED
    BY <2>1, <2>3, <2>4, <2>5, <2>6 DEF Ordered, ReadAbove
<1>6. CASE \E replica \in Replica : Serve(replica)
  <2>1. PICK replica \in Replica, one \in Work :
            /\ counters' = [counters EXCEPT ![replica] = Plus(@, one)]
            /\ counted' = Plus(counted, one)
            /\ UNCHANGED <<turn, phase, read, before, rows, scraped>>
    BY <1>6 DEF Serve
  <2>2. counters[replica] \in Counts /\ one \in Counts /\ counted \in Counts
    BY WorkIsCounts DEF ReportTypeOK
  <2> DEFINE more == Plus(counters[replica], one)
  <2>3. more \in Counts /\ \A m \in Metric : more[m] = counters[replica][m] + one[m]
    BY <2>2, PlusIsCounts
  <2>4. counters' = [counters EXCEPT ![replica] = more]
    BY <2>1
  <2> HIDE DEF more
  <2>5. \A m \in Metric : one[m] \in Nat /\ counters[replica][m] \in Nat
    BY <2>2 DEF Counts
  <2>6. \A r \in Replica : \A m \in Metric : scraped[r][m] <= counters'[r][m]
    <3> SUFFICES ASSUME NEW r \in Replica, NEW m \in Metric PROVE scraped[r][m] <= counters'[r][m]
      OBVIOUS
    <3>1. scraped[r] \in Counts /\ scraped[r][m] <= counters[r][m]
      BY DEF Ordered, ReportTypeOK
    <3>2. scraped[r][m] \in Nat
      BY <3>1 DEF Counts
    <3>3. counters'[r] = IF r = replica THEN more ELSE counters[r]
      BY <2>4 DEF ReportTypeOK
    <3> QED
      BY <2>3, <2>5, <3>1, <3>2, <3>3
  <2>7. Total(counters') = counted'
    <3>1. \A m \in Metric : Total(counters')[m] = Total(counters)[m] + more[m] - counters[replica][m]
      <4>1. counters \in [Replica -> Counts]
        BY DEF ReportTypeOK
      <4> QED
        BY <2>3, <2>4, <4>1, TotalUpdated
    <3>2. \A m \in Metric : Total(counters)[m] \in Nat
      BY <1>0 DEF Counts
    <3>3. \A m \in Metric : Total(counters')[m] = Total(counters)[m] + one[m]
      BY <2>3, <2>5, <3>1, <3>2
    <3>4. counted' = [m \in Metric |-> Total(counters)[m] + one[m]]
      BY <2>1 DEF Ordered, Plus
    <3>5. Total(counters') = [m \in Metric |-> Total(counters')[m]]
      BY DEF Total
    <3> QED
      BY <3>3, <3>4, <3>5
  <2> QED
    BY <2>1, <2>6, <2>7 DEF Ordered, ReadAbove, RowTotal
<1>7. CASE \E replica \in Replica : Scrape(replica)
  <2>1. PICK replica \in Replica : scraped' = [scraped EXCEPT ![replica] = counters[replica]]
    BY <1>7 DEF Scrape
  <2>2. UNCHANGED <<turn, phase, read, before, rows, counters, counted>>
    BY <1>7 DEF Scrape
  <2>3. \A r \in Replica : scraped'[r] = IF r = replica THEN counters[r] ELSE scraped[r]
    BY <2>1 DEF ReportTypeOK
  <2>4. \A r \in Replica : \A m \in Metric :
          scraped[r][m] <= scraped'[r][m] /\ scraped'[r][m] <= counters[r][m]
    <3> SUFFICES ASSUME NEW r \in Replica, NEW m \in Metric
                 PROVE  scraped[r][m] <= scraped'[r][m] /\ scraped'[r][m] <= counters[r][m]
      OBVIOUS
    <3>1. scraped[r] \in Counts /\ counters[r] \in Counts /\ scraped[r][m] <= counters[r][m]
      BY DEF Ordered, ReportTypeOK
    <3>2. scraped[r][m] \in Nat /\ counters[r][m] \in Nat
      BY <3>1 DEF Counts
    <3> QED
      BY <2>3, <3>1, <3>2
  <2>5. \A m \in Metric : Total(scraped)[m] <= Total(scraped')[m]
    BY <2>4, TotalIsMonotone DEF ReportTypeOK
  <2>6. \A m \in Metric : Total(scraped)[m] \in Int /\ Total(scraped')[m] \in Int
    <3>1. Total(scraped') \in Counts
      BY TotalIsNatural DEF ReportTypeOK
    <3> QED
      BY <1>0, <3>1 DEF Counts
  <2>7. \A m \in Metric : RowTotal(m)' = RowTotal(m)
    BY <2>2 DEF RowTotal
  <2>8. \A i \in DOMAIN read : read[i] \in Int /\ Asked[i] \in Metric
    BY AskedOf, SMTT(30) DEF ReportTypeOK
  <2>9. \A m \in Metric : before[m] \in Int
    BY DEF ReportTypeOK
  <2>10. \A m \in Metric : RowTotal(m)' <= Total(scraped')[m]
    BY <1>0, <2>5, <2>6, <2>7 DEF Ordered
  <2>11. \A low \in [Metric -> Int] : ReadAbove(low) =>
           \A i \in DOMAIN read : low[Asked[i]] <= read[i] /\ read[i] <= Total(scraped')[Asked[i]]
    BY <2>5, <2>6, <2>8 DEF ReadAbove
  <2>12. phase = "before" => ReadAbove([m \in Metric |-> RowTotal(m)])'
    <3> DEFINE low == [m \in Metric |-> RowTotal(m)]
    <3>1. low \in [Metric -> Int] /\ low' = low
      BY <1>0, <2>7
    <3>2. phase = "before" => ReadAbove(low)
      BY DEF Ordered
    <3> HIDE DEF low
    <3>3. phase = "before" => ReadAbove(low)'
      BY <2>2, <2>11, <3>1, <3>2 DEF ReadAbove
    <3> QED
      BY <3>3 DEF low
  <2>13. phase = "after" => ReadAbove(before)'
    <3>1. phase = "after" => ReadAbove(before)
      BY DEF Ordered
    <3>2. before \in [Metric -> Int]
      BY DEF ReportTypeOK
    <3> QED
      BY <2>2, <2>11, <3>1, <3>2 DEF ReadAbove
  <2>14. phase \in {"traffic", "settle", "after"} =>
           \A m \in Metric : RowTotal(m)' <= before[m] /\ before[m] <= Total(scraped')[m]
    BY <2>5, <2>6, <2>7, <2>9 DEF Ordered
  <2> QED
    BY <2>2, <2>4, <2>10, <2>12, <2>13, <2>14 DEF Ordered
<1>8. CASE \E replica \in Replica : Restart(replica)
  BY <1>8 DEF Restart, ReportTypeOK
<1>9. CASE UNCHANGED vars
  BY <1>9 DEF vars, Ordered, ReadAbove, RowTotal
<1> QED
  BY <1>1, <1>2, <1>3, <1>4, <1>5, <1>6, <1>7, <1>8, <1>9 DEF Next, Backend

THEOREM TypeCorrect == Spec => []ReportTypeOK
  BY InitIsTyped, StaysTyped, PTL DEF Spec

LEMMA FaultsAreCounted ==
    ASSUME ReportTypeOK, [Next]_vars, faults' = 0 PROVE faults = 0
<1>1. faults' = faults \/ faults' = faults + 1
  BY DEF Next, Query, Start, EndTraffic, Raise, Settled, Record, Send, Backend, Serve, Scrape,
         Restart, vars, backendVars
<1>2. faults \in Nat
  BY DEF ReportTypeOK
<1> QED
  BY <1>1, <1>2

\* The rows together never exceed what was counted, and none is negative, as long as no
\* replica restarts and no query fails.
THEOREM CountedOnce == Spec => []NothingIsCountedTwice
<1>1. Init => OrderInv
  BY InitIsTyped, OrderedAtFirst DEF OrderInv
<1>2. OrderInv /\ [Next]_vars => OrderInv'
  <2> SUFFICES ASSUME OrderInv, [Next]_vars PROVE OrderInv'
    OBVIOUS
  <2>1. ReportTypeOK /\ ReportTypeOK'
    BY StaysTyped DEF OrderInv
  <2>2. faults' = 0 => Ordered'
    BY <2>1, FaultsAreCounted, StaysOrdered DEF OrderInv
  <2> QED
    BY <2>1, <2>2 DEF OrderInv
<1>3. OrderInv => NothingIsCountedTwice
  <2> SUFFICES ASSUME OrderInv, faults = 0, NEW m \in Metric
               PROVE  /\ \A r \in DOMAIN rows : rows[r][m] >= 0
                      /\ RowTotal(m) <= counted[m]
    BY DEF NothingIsCountedTwice, RowTotal
  <2>1. ReportTypeOK /\ Ordered
    BY DEF OrderInv
  <2>2. Total(scraped)[m] <= Total(counters)[m]
    BY <2>1, TotalIsMonotone DEF Ordered, ReportTypeOK
  <2>3. Total(scraped)[m] \in Int /\ Total(counters)[m] \in Int /\ RowTotal(m) \in Int
    <3>1. Total(scraped) \in Counts /\ Total(counters) \in Counts
      BY <2>1, TotalIsNatural DEF ReportTypeOK
    <3>2. RowTotal(m) \in Int
      BY <2>1, RowTotalIsInt
    <3> QED
      BY <3>1, <3>2 DEF Counts
  <2> QED
    BY <2>1, <2>2, <2>3 DEF Ordered
<1> QED
  BY <1>1, <1>2, <1>3, PTL DEF Spec

-----------------------------------------------------------------------------
(* Clean rows are exact *)

\* The rows that are finished, told without blurred.
RowsAreExact ==
    \A i \in DOMAIN Compare :
        /\ Finished(i)
        /\ \A j \in DOMAIN Compare : Finished(j) /\ Compare[j] = Compare[i] => j <= i
        => rows[Compare[i]] = served[i]

LEMMA CleanAtFirst ==
    ASSUME Init, ~blurred PROVE Clean
<1>0. scraped = counters
  <2>1. blurred = (counters # scraped)
    BY DEF Init
  <2> QED
    BY <2>1, Zenon
<1>1. turn = 1 /\ phase = "before" /\ open = 0 /\ scraped = counters /\ DOMAIN read = {}
  BY <1>0 DEF Init
<1>2. \A i \in DOMAIN Compare : served[i] = Zero /\ i >= 1
  BY RoutesAreCounted DEF Init
<1>3. turn \in DOMAIN Compare
  BY <1>1, RoutesAreCounted
<1>4. \A i \in DOMAIN Compare : ~Finished(i)
  BY <1>1, <1>2, RoutesAreCounted DEF Finished
<1> QED
  BY <1>1, <1>2, <1>3, <1>4 DEF Clean, ReadExactly, CleanRowsAreExact

\* A row that is finished is the difference of two exact snapshots.
LEMMA RecordedRowIsExact ==
    ASSUME ReportTypeOK, Record, Clean
    PROVE  Minus(Snapshot, before) = served[turn]
<1>1. phase = "after" /\ read \in Seq(Int) /\ Len(read) = Len(Asked)
  BY DEF Record, ReportTypeOK
<1>2. \A m \in Metric : Snapshot[m] = Total(counters)[m]
  <2> SUFFICES ASSUME NEW m \in Metric PROVE Snapshot[m] = Total(counters)[m]
    OBVIOUS
  <2>1. PICK i \in DOMAIN read : Asked[i] = m /\ Snapshot[m] = read[i]
    BY <1>1, SnapshotIs
  <2> QED
    BY <1>1, <2>1 DEF Clean, ReadExactly
<1>3. \A m \in Metric : Total(counters)[m] = before[m] + served[turn][m]
  <2>1. Plus(before, served[turn]) = Total(counters)
    BY <1>1 DEF Clean
  <2>2. \A m \in Metric : Plus(before, served[turn])[m] = before[m] + served[turn][m]
    BY DEF Plus
  <2> QED
    BY <2>1, <2>2
<1>4. served[turn] \in Counts /\ before \in [Metric -> Int]
  BY DEF ReportTypeOK
<1>5. \A m \in Metric : Snapshot[m] - before[m] = served[turn][m]
  <2> SUFFICES ASSUME NEW m \in Metric PROVE Snapshot[m] - before[m] = served[turn][m]
    OBVIOUS
  <2>1. served[turn][m] \in Int /\ before[m] \in Int
    BY <1>4 DEF Counts
  <2> QED
    BY <1>2, <1>3, <2>1
<1> QED
  BY <1>4, <1>5 DEF Minus, Counts

LEMMA StaysClean ==
    ASSUME ReportTypeOK, ReportTypeOK', [Next]_vars, Clean, ~blurred, ~blurred'
    PROVE  Clean'
<1> USE DEF reportVars, backendVars
<1>0. RowsAreExact
  BY DEF Clean, CleanRowsAreExact, RowsAreExact
<1>1. CASE Query
  <2>1. PICK fails \in BOOLEAN :
            /\ read' = Append(read, Answer(Asked[Len(read) + 1], fails))
            /\ blurred' = (blurred \/ fails)
    BY <1>1 DEF Query
  <2>2. read' = Append(read, Total(scraped)[Asked[Len(read) + 1]])
    BY <2>1 DEF Answer
  <2>3. UNCHANGED <<turn, phase, before, rows, counters, scraped, due, open, served>>
    BY <1>1 DEF Query
  <2>4. ReadExactly => ReadExactly'
    <3> SUFFICES ASSUME ReadExactly, NEW i \in DOMAIN read'
                 PROVE  read'[i] = Total(scraped)[Asked[i]]
      BY <2>3 DEF ReadExactly
    <3> DEFINE n == Len(read)
               a == Total(scraped)[Asked[n + 1]]
    <3>1. n \in Nat /\ DOMAIN read = 1..n
      BY DEF ReportTypeOK
    <3>2. DOMAIN read' = 1..(n + 1) /\ read'[n + 1] = a /\ \A k \in 1..n : read'[k] = read[k]
      <4> HIDE DEF a
      <4>1. read \in Seq(Int) /\ read' = Append(read, a)
        BY <2>2 DEF ReportTypeOK, a
      <4> QED
        BY <4>1
    <3> HIDE DEF n
    <3>3. i \in 1..n \/ i = n + 1
      BY <3>1, <3>2
    <3> QED
      BY <3>1, <3>2, <3>3 DEF ReadExactly
  <2> QED
    BY <2>3, <2>4 DEF Clean, CleanRowsAreExact, Finished
<1>2. CASE Start
  <2>1. /\ phase = "before" /\ phase' = "traffic" /\ before' = Snapshot
        /\ read \in Seq(Int) /\ Len(read) = Len(Asked)
        /\ UNCHANGED <<turn, rows, counters, scraped, due, open, served>>
    BY <1>2 DEF Start, Baseline, ReportTypeOK
  <2>2. served[turn] = Zero /\ scraped = counters
    BY <2>1 DEF Clean
  <2>3. \A m \in Metric : Snapshot[m] = Total(counters)[m]
    <3> SUFFICES ASSUME NEW m \in Metric PROVE Snapshot[m] = Total(counters)[m]
      OBVIOUS
    <3>1. PICK i \in DOMAIN read : Asked[i] = m /\ Snapshot[m] = read[i]
      BY <2>1, SnapshotIs
    <3> QED
      BY <2>1, <2>2, <3>1 DEF Clean, ReadExactly
  <2>4. Total(counters) \in Counts
    BY TotalIsNatural DEF ReportTypeOK
  <2>5. \A m \in Metric : Snapshot[m] + Zero[m] = Total(counters)[m]
    BY <2>3, <2>4, ZeroIsCounts DEF Counts
  <2>6. Plus(before', served[turn]) = Total(counters)
    BY <2>1, <2>2, <2>4, <2>5 DEF Plus, Counts
  <2> QED
    BY <2>1, <2>6 DEF Clean, CleanRowsAreExact, Finished
<1>3. CASE EndTraffic
  <2>0. open = 0
    <3>1. blurred' = (blurred \/ open > 0)
      BY <1>3 DEF EndTraffic
    <3>2. ~(open > 0)
      BY <3>1, Zenon
    <3> QED
      BY <3>2 DEF ReportTypeOK
  <2>1. /\ phase = "traffic" /\ phase' = "settle" /\ due' = Replica /\ open = 0
        /\ UNCHANGED <<turn, read, before, rows, counters, scraped, open, served>>
    BY <1>3, <2>0 DEF EndTraffic
  <2> QED
    BY <2>1 DEF Clean, CleanRowsAreExact, Finished
<1>4. CASE Raise
  <2>1. /\ phase # "done" /\ phase' = "lost"
        /\ UNCHANGED <<turn, read, before, rows, counters, scraped, due, open, served>>
    BY <1>4 DEF Raise
  <2> QED
    BY <2>1 DEF Clean, CleanRowsAreExact, Finished
<1>5. CASE Settled
  <2>1. /\ phase = "settle" /\ phase' = "after" /\ due = {}
        /\ UNCHANGED <<turn, read, before, rows, counters, scraped, due, open, served>>
    BY <1>5 DEF Settled, SettledWhen
  <2>2. scraped = counters
    BY <2>1 DEF Clean, ReportTypeOK
  <2>3. DOMAIN read = {}
    BY <2>1 DEF ReportTypeOK
  <2>4. open = 0
    BY <2>1 DEF Clean
  <2> QED
    BY <2>1, <2>2, <2>3, <2>4 DEF Clean, CleanRowsAreExact, Finished, ReadExactly
<1>6. CASE Record
  <2>1. /\ phase = "after" /\ read' = <<>>
        /\ UNCHANGED <<before, counters, scraped, due, open, served>>
        /\ \/ turn < Len(Compare) /\ turn' = turn + 1 /\ phase' = "before"
           \/ turn = Len(Compare) /\ turn' = turn /\ phase' = "done"
    BY <1>6, RoutesAreCounted DEF Record, ReportTypeOK
  <2>2. turn \in Nat /\ \A i \in DOMAIN Compare : i \in Nat /\ i <= Len(Compare)
    BY RoutesAreCounted DEF ReportTypeOK
  <2>3. \A i \in DOMAIN Compare : Finished(i)' <=> i <= turn
    <3>1. CASE turn' = turn + 1 /\ phase' = "before"
      BY <2>2, <3>1 DEF Finished
    <3>2. CASE turn = Len(Compare) /\ phase' = "done"
      BY <2>2, <3>2 DEF Finished
    <3> QED
      BY <2>1, <3>1, <3>2
  <2>4. \A i \in DOMAIN Compare : Finished(i) <=> i < turn
    BY <2>1 DEF Finished
  <2>5. /\ \A r \in DOMAIN rows \cup {Route} :
             rows'[r] = IF r = Route THEN served[turn] ELSE rows[r]
        /\ Route = Compare[turn]
    BY <1>6, RecordedRowIsExact DEF Record, Route
  <2>6. RowsAreExact'
    <3> SUFFICES ASSUME NEW i \in DOMAIN Compare, i <= turn,
                        \A j \in DOMAIN Compare : j <= turn /\ Compare[j] = Compare[i] => j <= i
                 PROVE  rows'[Compare[i]] = served[i]
      BY <2>1, <2>3 DEF RowsAreExact
    <3>1. CASE i = turn
      BY <2>5, <3>1
    <3>2. CASE i < turn
      <4>1. Compare[i] # Route
        <5>1. turn \in DOMAIN Compare /\ turn <= turn
          BY <2>2 DEF ReportTypeOK
        <5>2. ~(turn <= i)
          BY <2>2, <3>2
        <5> QED
          BY <2>5, <5>1, <5>2
      <4>2. rows[Compare[i]] = served[i] /\ Compare[i] \in DOMAIN rows
        <5>1. \A j \in DOMAIN Compare : j < turn /\ Compare[j] = Compare[i] => j <= i
          BY <2>2
        <5> QED
          BY <1>0, <2>4, <3>2, <5>1 DEF RowsAreExact, ReportTypeOK
      <4> QED
        BY <2>5, <4>1, <4>2
    <3> QED
      BY <2>2, <3>1, <3>2
  <2>7. phase' = "before" => served[turn'] = Zero /\ ReadExactly'
    <3>1. DOMAIN read' = {}
      BY <2>1
    <3>2. turn' = turn + 1 /\ turn < Len(Compare) => turn' \in DOMAIN Compare /\ turn' > turn
      BY <2>2, RoutesAreCounted
    <3> QED
      BY <2>1, <3>1, <3>2 DEF Clean, ReadExactly
  <2>8. open = 0 /\ scraped = counters
    BY <2>1 DEF Clean
  <2>9. \A i \in DOMAIN Compare : i > turn' => served[i] = Zero
    BY <2>1, <2>2 DEF Clean
  <2> QED
    BY <2>1, <2>6, <2>7, <2>8, <2>9 DEF Clean, CleanRowsAreExact, RowsAreExact
<1>7. CASE Send
  <2>1. /\ phase = "traffic"
        /\ UNCHANGED <<turn, phase, read, before, rows, counters, scraped, due, served>>
    BY <1>7 DEF Send
  <2> QED
    BY <2>1 DEF Clean, CleanRowsAreExact, Finished
<1>8. CASE phase \notin {"done", "lost"} /\ \E replica \in Replica : Serve(replica)
  <2>1. PICK replica \in Replica, one \in Work :
            /\ counters' = [counters EXCEPT ![replica] = Plus(@, one)]
            /\ served' = [served EXCEPT ![turn] = Plus(@, one)]
            /\ open > 0
            /\ UNCHANGED <<turn, phase, read, before, rows, scraped, due>>
    BY <1>8 DEF Serve
  <2>2. phase = "traffic"
    BY <1>8, <2>1 DEF Clean, ReportTypeOK
  <2>3. /\ counters[replica] \in Counts /\ one \in Counts /\ served[turn] \in Counts
        /\ turn \in DOMAIN Compare /\ DOMAIN served = DOMAIN Compare
    BY WorkIsCounts DEF ReportTypeOK
  <2> DEFINE more == Plus(counters[replica], one)
  <2>4. more \in Counts /\ \A m \in Metric : more[m] = counters[replica][m] + one[m]
    BY <2>3, PlusIsCounts
  <2>5. counters' = [counters EXCEPT ![replica] = more]
    BY <2>1
  <2> HIDE DEF more
  <2>6. \A i \in DOMAIN Compare : served'[i] = IF i = turn THEN Plus(served[turn], one) ELSE served[i]
    BY <2>1, <2>3
  <2>7. Plus(before, served'[turn]) = Total(counters')
    <3>1. \A m \in Metric : Total(counters')[m] = Total(counters)[m] + more[m] - counters[replica][m]
      <4>1. counters \in [Replica -> Counts]
        BY DEF ReportTypeOK
      <4> QED
        BY <2>4, <2>5, <4>1, TotalUpdated
    <3>2. \A m \in Metric : Total(counters)[m] = before[m] + served[turn][m]
      <4>1. Plus(before, served[turn]) = Total(counters)
        BY <2>2 DEF Clean
      <4>2. \A m \in Metric : Plus(before, served[turn])[m] = before[m] + served[turn][m]
        BY DEF Plus
      <4> QED
        BY <4>1, <4>2
    <3>3. \A m \in Metric : /\ counters[replica][m] \in Int /\ one[m] \in Int
                            /\ served[turn][m] \in Int /\ before[m] \in Int
      BY <2>3 DEF Counts, ReportTypeOK
    <3>4. \A m \in Metric : served'[turn][m] = served[turn][m] + one[m]
      BY <2>3, <2>6, PlusIsCounts
    <3>5. \A m \in Metric : before[m] + served'[turn][m] = Total(counters')[m]
      BY <2>4, <3>1, <3>2, <3>3, <3>4
    <3>6. Total(counters') = [m \in Metric |-> Total(counters')[m]]
      BY DEF Total
    <3> QED
      BY <3>5, <3>6 DEF Plus
  <2>8. \A i \in DOMAIN Compare : i > turn \/ i < turn => served'[i] = served[i]
    BY <2>6, RoutesAreCounted DEF ReportTypeOK
  <2>9. \A i \in DOMAIN Compare : (Finished(i)' <=> Finished(i)) /\ (Finished(i) => i < turn)
    BY <2>1, <2>2 DEF Finished
  <2>10. RowsAreExact'
    BY <1>0, <2>1, <2>8, <2>9 DEF RowsAreExact
  <2> QED
    BY <2>1, <2>2, <2>7, <2>8, <2>10 DEF Clean, CleanRowsAreExact, RowsAreExact
<1>9. CASE \E replica \in Replica : Scrape(replica)
  <2>1. PICK replica \in Replica : /\ scraped' = [scraped EXCEPT ![replica] = counters[replica]]
                                   /\ due' = due \ {replica}
    BY <1>9 DEF Scrape
  <2>2. UNCHANGED <<turn, phase, read, before, rows, counters, open, served>>
    BY <1>9 DEF Scrape
  <2>3. \A r \in Replica : scraped'[r] = IF r = replica THEN counters[r] ELSE scraped[r]
    BY <2>1 DEF ReportTypeOK
  <2>4. scraped = counters => scraped' = scraped
    BY <2>1 DEF ReportTypeOK
  <2>5. phase \in {"before", "after"} => scraped' = counters /\ ReadExactly'
    BY <2>2, <2>4 DEF Clean, ReadExactly
  <2>6. phase = "settle" => \A r \in Replica \ due' : scraped'[r] = counters[r]
    BY <2>1, <2>3 DEF Clean
  <2> QED
    BY <2>2, <2>5, <2>6 DEF Clean, CleanRowsAreExact, Finished
<1>10. CASE \E replica \in Replica : Restart(replica)
  BY <1>10 DEF Restart
<1>11. CASE UNCHANGED vars
  BY <1>11 DEF vars, Clean, CleanRowsAreExact, Finished, ReadExactly
<1> QED
  BY <1>1, <1>2, <1>3, <1>4, <1>5, <1>6, <1>7, <1>8, <1>9, <1>10, <1>11 DEF Next, Backend

LEMMA BlurStays ==
    ASSUME [Next]_vars, ~blurred' PROVE ~blurred
<1>1. CASE Query
  <2>1. \E fails \in BOOLEAN : blurred' = (blurred \/ fails)
    BY <1>1 DEF Query
  <2> QED
    BY <2>1, Zenon
<1>2. CASE EndTraffic
  <2>1. blurred' = (blurred \/ open > 0)
    BY <1>2 DEF EndTraffic
  <2> QED
    BY <2>1, Zenon
<1>3. CASE \E replica \in Replica : Restart(replica)
  BY <1>3 DEF Restart
<1>4. CASE blurred' = blurred
  BY <1>4
<1> QED
  BY <1>1, <1>2, <1>3, <1>4
    DEF Next, Start, Raise, Settled, Record, Send, Backend, Serve, Scrape, vars

\* With nothing blurred, every row is exactly what the backend counted for its traffic.
THEOREM RowsAreWhatWasServed == Spec => []CleanRowsAreExact
<1>1. Init => CleanInv
  BY InitIsTyped, CleanAtFirst DEF CleanInv
<1>2. CleanInv /\ [Next]_vars => CleanInv'
  <2> SUFFICES ASSUME CleanInv, [Next]_vars PROVE CleanInv'
    OBVIOUS
  <2>1. ReportTypeOK /\ ReportTypeOK'
    BY StaysTyped DEF CleanInv
  <2>2. ~blurred' => Clean'
    BY <2>1, BlurStays, StaysClean DEF CleanInv
  <2> QED
    BY <2>1, <2>2 DEF CleanInv
<1>3. CleanInv => CleanRowsAreExact
  BY DEF CleanInv, Clean, CleanRowsAreExact
<1> QED
  BY <1>1, <1>2, <1>3, PTL DEF Spec
=============================================================================
