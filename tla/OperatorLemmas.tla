--------------------------- MODULE OperatorLemmas ---------------------------
(***************************************************************************)
(* What the operators of Recency, KVCache and GapTables return, preserve   *)
(* and bound: the lemmas the proofs about nodes, indexes, tables and       *)
(* clusters share.                                                         *)
(***************************************************************************)
EXTENDS KVCache, GapTables, FiniteSetTheorems, TLAPS

-----------------------------------------------------------------------------
(* Least and greatest numbers *)

LEMMA LeastOf ==
    ASSUME NEW S \in SUBSET Nat, S # {}
    PROVE  \E n \in S : \A m \in S : n <= m
<1>1. PICK n \in S : \A m \in S : ~(<<m, n>> \in OpToRel(<, Nat))
  BY NatLessThanWellFounded, WFMin
<1>2. n \in Nat /\ \A m \in S : m \in Nat /\ ~(m < n)
  BY <1>1 DEF OpToRel
<1> QED
  BY <1>2

\* The greatest element of a finite set is the one the fewest others exceed.
LEMMA GreatestOf ==
    ASSUME NEW S \in SUBSET Int, IsFiniteSet(S), S # {}
    PROVE  \E n \in S : \A m \in S : m <= n
<1> DEFINE Above(x) == {y \in S : x < y}
           Counts == {Cardinality(Above(n)) : n \in S}
<1>1. \A n \in S : IsFiniteSet(Above(n)) /\ Cardinality(Above(n)) \in Nat
  BY FS_Subset, FS_CardinalityType
<1>2. PICK n \in S : \A m \in S : Cardinality(Above(n)) <= Cardinality(Above(m))
  <2>1. Counts \in SUBSET Nat /\ Counts # {}
    BY <1>1
  <2>2. PICK k \in Counts : \A j \in Counts : k <= j
    <3> HIDE DEF Counts
    <3> QED
      BY <2>1, LeastOf
  <2>3. PICK n \in S : k = Cardinality(Above(n))
    BY <2>2
  <2>4. \A m \in S : Cardinality(Above(m)) \in Counts
    OBVIOUS
  <2> HIDE DEF Above, Counts
  <2> QED
    BY <2>2, <2>3, <2>4
<1>3. ASSUME NEW m \in S, n < m
      PROVE  FALSE
  <2>1. n \in Int /\ m \in Int /\ \A x \in S : x \in Int
    OBVIOUS
  <2>2. \A x \in S : m < x => n < x
    BY <1>3, <2>1
  <2>3. Above(m) \subseteq Above(n) /\ m \in Above(n) /\ m \notin Above(m)
    <3>1. Above(m) \subseteq Above(n)
      BY <2>2
    <3>2. m \in Above(n)
      BY <1>3
    <3>3. m \notin Above(m)
      BY <2>1
    <3> QED
      BY <3>1, <3>2, <3>3
  <2>4. Above(m) # Above(n)
    BY <2>3
  <2> HIDE DEF Above
  <2>5. Cardinality(Above(m)) <= Cardinality(Above(n)) /\ Cardinality(Above(m)) # Cardinality(Above(n))
    BY <1>1, <2>3, <2>4, FS_Subset
  <2> QED
    BY <1>1, <1>2, <2>5
<1> HIDE DEF Above
<1> QED
  BY <1>3

\* A function on a finite set has a greatest value.
LEMMA GreatestValue ==
    ASSUME NEW S, IsFiniteSet(S), S # {}, NEW f \in [S -> Int]
    PROVE  Max(Range(f)) \in Int /\ \E x \in S : \A y \in S : f[y] <= f[x]
<1> DEFINE T == Range(f)
<1>1. f \in Surjection(S, T)
  BY DEF Surjection, Range
<1>2. IsFiniteSet(T)
  BY <1>1, FS_Surjection
<1>3. T \in SUBSET Int /\ T # {} /\ \A x \in S : f[x] \in T
  BY DEF Range
<1>4. PICK n \in T : \A m \in T : m <= n
  <2> HIDE DEF T
  <2> QED
    BY <1>2, <1>3, GreatestOf
<1>5. PICK x \in S : n = f[x]
  BY DEF Range
<1>6. \E m \in T : \A k \in T : m >= k
  BY <1>3, <1>4
<1>7. Max(T) \in T
  <2> HIDE DEF T
  <2> QED
    BY <1>6 DEF Max
<1> QED
  BY <1>3, <1>4, <1>5, <1>7

-----------------------------------------------------------------------------
(* Recency *)

\* The blocks of a request come in insertion order, each in front of the next ones only.
LEMMA ChainOrder ==
    ASSUME NEW req \in Request
    PROVE  /\ Range(req) \subseteq Block
           /\ DOMAIN req = 1..Len(req) /\ Len(req) \in Nat
           /\ \A i \in DOMAIN req : InFrontOf(req, req[i]) = {req[k] : k \in 1..(i - 1)}
<1>1. req \in Seq(Block) /\ \A i, j \in DOMAIN req : req[i] = req[j] => i = j
  BY RequestIsChain
<1>2. DOMAIN req = 1..Len(req) /\ Len(req) \in Nat /\ Range(req) \subseteq Block
  BY <1>1 DEF Range
<1>3. ASSUME NEW i \in DOMAIN req
      PROVE  {k \in DOMAIN req : \E j \in DOMAIN req : k < j /\ req[j] = req[i]} = 1..(i - 1)
  BY <1>1, <1>2
<1>4. ASSUME NEW i \in DOMAIN req
      PROVE  InFrontOf(req, req[i]) = {req[k] : k \in 1..(i - 1)}
  BY <1>3 DEF InFrontOf
<1> QED
  BY <1>2, <1>4

\* Touched: the blocks of req become resident and most recent, the others keep their order.
LEMMA TouchedIsRecency ==
    ASSUME NEW order, IsRecency(order), NEW req \in Request
    PROVE  /\ IsRecency(Touched(order, req))
           /\ DOMAIN Touched(order, req) = DOMAIN order \cup Range(req)
<1> DEFINE new == Touched(order, req)
           untouched == DOMAIN order \ Range(req)
<1>1. DOMAIN new = DOMAIN order \cup Range(req)
  BY DEF Touched
<1>2. \A b \in untouched : new[b] = order[b] \ Range(req)
  BY DEF Touched
<1>3. \A i \in DOMAIN req : new[req[i]] = untouched \cup {req[k] : k \in 1..(i - 1)}
  BY ChainOrder DEF Touched, Range
<1>4. \A b \in Range(req) : \E i \in DOMAIN req : b = req[i]
  BY DEF Range
<1>5. \A i \in DOMAIN req : req[i] \in Range(req)
  BY DEF Range
<1>6. DOMAIN new \subseteq Block /\ new \in [DOMAIN new -> SUBSET DOMAIN new]
  <2>1. DOMAIN new \subseteq Block
    BY <1>1, ChainOrder DEF IsRecency, IsOrder
  <2>2. \A b \in untouched : new[b] \subseteq DOMAIN new
    BY <1>1, <1>2 DEF IsRecency, IsOrder
  <2>3. \A b \in Range(req) : new[b] \subseteq DOMAIN new
    <3> SUFFICES ASSUME NEW i \in DOMAIN req PROVE new[req[i]] \subseteq DOMAIN new
      BY <1>4
    <3>1. {req[k] : k \in 1..(i - 1)} \subseteq Range(req)
      BY ChainOrder, <1>5
    <3> QED
      BY <3>1, <1>1, <1>3
  <2>4. new = [b \in DOMAIN new |-> new[b]]
    BY DEF Touched
  <2> QED
    BY <2>1, <2>2, <2>3, <2>4, <1>1
<1>7. ASSUME NEW a \in DOMAIN new, NEW b \in DOMAIN new, a \in new[b]
      PROVE  b \notin new[a] /\ new[a] \subseteq new[b]
  <2>1. CASE a \in untouched /\ b \in untouched
    BY <2>1, <1>2, <1>7 DEF IsRecency, IsOrder
  <2>2. CASE a \in untouched /\ b \in Range(req)
    <3>1. PICK j \in DOMAIN req : b = req[j]
      BY <2>2, <1>4
    <3>2. new[a] \subseteq untouched
      BY <2>2, <1>2 DEF IsRecency, IsOrder
    <3> QED
      BY <3>1, <3>2, <2>2, <1>3
  <2>3. CASE a \in Range(req) /\ b \in untouched
    BY <2>3, <1>2, <1>7
  <2>4. CASE a \in Range(req) /\ b \in Range(req)
    <3>1. PICK i \in DOMAIN req : a = req[i]
      BY <2>4, <1>4
    <3>2. PICK j \in DOMAIN req : b = req[j]
      BY <2>4, <1>4
    <3>3. PICK k \in 1..(j - 1) : a = req[k]
      BY <3>2, <1>3, <1>7, <2>4
    <3>4. \A x, y \in DOMAIN req : req[x] = req[y] => x = y
      BY RequestIsChain
    <3>5. i = k /\ i < j
      <4>1. DOMAIN req = 1..Len(req) /\ Len(req) \in Nat
        BY ChainOrder
      <4>2. k \in DOMAIN req /\ k < j
        BY <4>1
      <4> QED
        BY <3>1, <3>3, <3>4, <4>2
    <3>6. b \notin {req[x] : x \in 1..(i - 1)}
      BY <3>2, <3>4, <3>5, ChainOrder
    <3>7. {req[x] : x \in 1..(i - 1)} \subseteq {req[x] : x \in 1..(j - 1)}
      BY <3>5, ChainOrder
    <3> QED
      BY <3>1, <3>2, <3>6, <3>7, <2>4, <1>3
  <2> QED
    BY <2>1, <2>2, <2>3, <2>4, <1>1
<1>8. ASSUME NEW a \in DOMAIN new, NEW b \in DOMAIN new
      PROVE  a = b \/ a \in new[b] \/ b \in new[a]
  <2>1. CASE a \in untouched /\ b \in untouched
    BY <2>1, <1>2 DEF IsRecency, IsOrder
  <2>2. CASE a \in untouched /\ b \in Range(req)
    BY <2>2, <1>3, <1>4
  <2>3. CASE a \in Range(req) /\ b \in untouched
    BY <2>3, <1>3, <1>4
  <2>4. CASE a \in Range(req) /\ b \in Range(req)
    <3>1. PICK i \in DOMAIN req : a = req[i]
      BY <2>4, <1>4
    <3>2. PICK j \in DOMAIN req : b = req[j]
      BY <2>4, <1>4
    <3>3. i < j \/ j < i \/ i = j
      BY ChainOrder
    <3>4. i < j => a \in new[b]
      BY <3>1, <3>2, <1>3, ChainOrder
    <3>5. j < i => b \in new[a]
      BY <3>1, <3>2, <1>3, ChainOrder
    <3> QED
      BY <3>1, <3>2, <3>3, <3>4, <3>5
  <2> QED
    BY <2>1, <2>2, <2>3, <2>4, <1>1
<1> QED
  BY <1>1, <1>6, <1>7, <1>8 DEF IsRecency, IsOrder

\* Dropping blocks leaves a recency order on the others.
LEMMA KeptIsRecency ==
    ASSUME NEW order, IsRecency(order), NEW S \in SUBSET DOMAIN order
    PROVE  IsRecency(Kept(order, S)) /\ DOMAIN Kept(order, S) = S
BY DEF IsRecency, IsOrder, Kept

\* Nothing is resident in an empty cache.
LEMMA EmptyIsRecency == IsRecency(NoBlocks) /\ DOMAIN NoBlocks = {}
BY DEF IsRecency, IsOrder, NoBlocks

\* A cache holds finitely many blocks.
LEMMA ResidentIsFinite ==
    ASSUME NEW order, IsRecency(order)
    PROVE  /\ IsFiniteSet(DOMAIN order)
           /\ \A S \in SUBSET DOMAIN order : IsFiniteSet(S) /\ Cardinality(S) \in Nat
BY FS_Subset, FS_CardinalityType, BlockFinite DEF IsRecency, IsOrder

\* A set splits into the part that goes and the part that stays.
LEMMA SplitCount ==
    ASSUME NEW S, IsFiniteSet(S), NEW V \in SUBSET S
    PROVE  Cardinality(S) = Cardinality(V) + Cardinality(S \ V)
<1> DEFINE W == S \ V
<1>1. IsFiniteSet(V) /\ IsFiniteSet(W)
  BY FS_Subset
<1>2. V \cup W = S /\ V \cap W = {}
  OBVIOUS
<1> HIDE DEF W
<1>3. Cardinality(V) \in Nat /\ Cardinality(W) \in Nat /\ Cardinality({}) = 0
  BY <1>1, FS_CardinalityType, FS_EmptySet
<1>4. Cardinality(V \cup W) = Cardinality(V) + Cardinality(W) - Cardinality(V \cap W)
  BY <1>1, FS_Union
<1>5. Cardinality(S) = Cardinality(V) + Cardinality(W)
  <2>1. Cardinality(V \cup W) = Cardinality(S) /\ Cardinality(V \cap W) = 0
    BY <1>2, <1>3, Zenon
  <2> QED
    BY <2>1, <1>3, <1>4
<1> QED
  BY <1>5 DEF W

\* If the blocks of V are older than all that stay, and as many as the cache overflows by,
\* then what stays is the capacity most recent blocks.
LEMMA OldestLeave ==
    ASSUME NEW order, IsRecency(order), NEW capacity \in Nat, NEW V \in SUBSET DOMAIN order,
           LET n == Cardinality(DOMAIN order)
           IN  Cardinality(V) = IF n >= capacity THEN n - capacity ELSE 0,
           \A v \in V, s \in DOMAIN order \ V : v \in order[s]
    PROVE  DOMAIN order \ V = MostRecent(order, capacity)
<1> DEFINE n == Cardinality(DOMAIN order)
           stay == DOMAIN order \ V
<1>1. /\ n \in Nat /\ Cardinality(V) \in Nat /\ IsFiniteSet(V)
      /\ IsFiniteSet(stay) /\ Cardinality(stay) \in Nat
      /\ IsFiniteSet(DOMAIN order)
  BY ResidentIsFinite
<1>2. n = Cardinality(V) + Cardinality(stay)
  BY <1>1, SplitCount
<1>3. /\ Cardinality(stay) <= capacity
      /\ Cardinality(V) # 0 => Cardinality(stay) = capacity
  <2> HIDE DEF stay, n
  <2> QED
    BY <1>1, <1>2 DEF n
<1>4. ASSUME NEW s \in stay
      PROVE  s \in MostRecent(order, capacity)
  <2>1. NewerThan(order, s) \subseteq stay \ {s}
    BY DEF IsRecency, IsOrder, NewerThan
  <2> HIDE DEF stay
  <2>2. IsFiniteSet(stay \ {s}) /\ Cardinality(stay \ {s}) = Cardinality(stay) - 1
    BY <1>1, FS_RemoveElement
  <2>3. Cardinality(NewerThan(order, s)) <= Cardinality(stay) - 1
    BY <2>1, <2>2, FS_Subset
  <2>4. Cardinality(NewerThan(order, s)) \in Nat
    BY <2>1, <2>2, FS_Subset, FS_CardinalityType
  <2> QED
    BY <1>1, <1>3, <2>3, <2>4 DEF MostRecent, stay
<1>5. ASSUME NEW v \in V
      PROVE  v \notin MostRecent(order, capacity)
  <2>1. stay \subseteq NewerThan(order, v) /\ NewerThan(order, v) \subseteq DOMAIN order
    BY DEF NewerThan
  <2> HIDE DEF stay
  <2>2. IsFiniteSet(NewerThan(order, v)) /\ Cardinality(NewerThan(order, v)) \in Nat
    BY <1>1, <2>1, FS_Subset, FS_CardinalityType
  <2>3. Cardinality(stay) <= Cardinality(NewerThan(order, v))
    BY <2>1, <2>2, FS_Subset
  <2>4. Cardinality(V) # 0
    BY <1>1, FS_EmptySet
  <2> QED
    BY <1>3, <2>2, <2>3, <2>4 DEF MostRecent
<1> QED
  BY <1>4, <1>5 DEF MostRecent

-----------------------------------------------------------------------------
(* LRUs of different capacity, fed the same requests: the narrower is always the recent end *)
(* of the wider                                                                             *)

\* Whatever is more recent than one of the capacity most recent blocks is one of them.
LEMMA MostRecentIsUpward ==
    ASSUME NEW order, IsRecency(order), NEW capacity \in Nat,
           NEW s \in MostRecent(order, capacity), NEW x \in NewerThan(order, s)
    PROVE  x \in MostRecent(order, capacity)
<1>1. x \in DOMAIN order /\ s \in DOMAIN order /\ s \in order[x]
  BY DEF NewerThan, MostRecent
<1>2. NewerThan(order, x) \subseteq NewerThan(order, s)
  BY <1>1 DEF NewerThan, IsRecency, IsOrder
<1>3. NewerThan(order, s) \subseteq DOMAIN order
  BY DEF NewerThan
<1>4. IsFiniteSet(NewerThan(order, s)) /\ Cardinality(NewerThan(order, s)) \in Nat
  BY <1>3, ResidentIsFinite
<1>5. /\ Cardinality(NewerThan(order, x)) <= Cardinality(NewerThan(order, s))
      /\ Cardinality(NewerThan(order, x)) \in Nat
  BY <1>2, <1>4, FS_Subset, FS_CardinalityType
<1>6. Cardinality(NewerThan(order, s)) < capacity
  BY DEF MostRecent
<1> QED
  BY <1>1, <1>4, <1>5, <1>6 DEF MostRecent

\* Keeping the N most recent blocks does not change which are the n <= N most recent.
LEMMA TruncatedTwice ==
    ASSUME NEW order, IsRecency(order), NEW n \in Nat, NEW N \in Nat, n <= N
    PROVE  LET cut == Kept(order, MostRecent(order, N))
           IN  /\ MostRecent(cut, n) = MostRecent(order, n)
               /\ Kept(cut, MostRecent(cut, n)) = Kept(order, MostRecent(order, n))
<1> DEFINE M == MostRecent(order, N)
           cut == Kept(order, M)
<1>1. M \subseteq DOMAIN order /\ DOMAIN cut = M
  BY DEF MostRecent, Kept
<1>2. ASSUME NEW b \in M
      PROVE  NewerThan(cut, b) = NewerThan(order, b)
  <2>1. NewerThan(order, b) \subseteq M
    BY MostRecentIsUpward
  <2>2. \A x \in M : cut[x] = order[x] \cap M
    BY DEF Kept
  <2> HIDE DEF M, cut
  <2> QED
    BY <1>1, <2>1, <2>2 DEF NewerThan
<1>3. MostRecent(order, n) \subseteq M
  <2> SUFFICES ASSUME NEW b \in MostRecent(order, n) PROVE b \in M
    OBVIOUS
  <2>1. b \in DOMAIN order /\ Cardinality(NewerThan(order, b)) < n
    BY DEF MostRecent
  <2>2. Cardinality(NewerThan(order, b)) \in Nat
    BY ResidentIsFinite DEF NewerThan
  <2> QED
    BY <2>1, <2>2 DEF MostRecent
<1>4. MostRecent(cut, n) = MostRecent(order, n)
  <2> HIDE DEF M, cut
  <2> QED
    BY <1>1, <1>2, <1>3 DEF MostRecent
<1>5. Kept(cut, MostRecent(order, n)) = Kept(order, MostRecent(order, n))
  <2>1. \A b \in M : cut[b] = order[b] \cap M
    BY DEF Kept
  <2> HIDE DEF M, cut
  <2>2. \A b \in MostRecent(order, n) :
           cut[b] \cap MostRecent(order, n) = order[b] \cap MostRecent(order, n)
    BY <2>1, <1>3
  <2> QED
    BY <2>2 DEF Kept
<1> QED
  BY <1>4, <1>5

\* The n most recent blocks after a touch are those of the n most recent ones before it.
LEMMA TouchTruncated ==
    ASSUME NEW order, IsRecency(order), NEW n \in Nat, NEW req \in Request
    PROVE  LET small == Touched(Kept(order, MostRecent(order, n)), req)
               big   == Touched(order, req)
           IN  /\ MostRecent(small, n) = MostRecent(big, n)
               /\ Kept(small, MostRecent(small, n)) = Kept(big, MostRecent(big, n))
<1> DEFINE S == MostRecent(order, n)
           R == Range(req)
           D == DOMAIN order
           cut == Kept(order, S)
           small == Touched(cut, req)
           big == Touched(order, req)
<1>1. /\ S \subseteq D /\ DOMAIN cut = S
      /\ DOMAIN small = S \cup R /\ DOMAIN big = D \cup R
      /\ \A b \in S : cut[b] = order[b] \cap S
  BY DEF MostRecent, Kept, Touched
<1>2. \A b \in S \ R : small[b] = (order[b] \cap S) \ R
  BY <1>1 DEF Touched
<1>3. \A b \in R : small[b] = (S \ R) \cup InFrontOf(req, b)
  BY <1>1 DEF Touched
<1>4. \A b \in D \ R : big[b] = order[b] \ R
  BY <1>1 DEF Touched
<1>5. \A b \in R : big[b] = (D \ R) \cup InFrontOf(req, b)
  BY <1>1 DEF Touched
<1>6. \A s \in S, x \in D : s \in order[x] => x \in S
  BY MostRecentIsUpward DEF NewerThan
<1>7. \A b \in R : InFrontOf(req, b) \subseteq R
  BY DEF InFrontOf, Range
<1>8. ASSUME NEW b \in S \cup R
      PROVE  NewerThan(small, b) = NewerThan(big, b)
  <2> SUFFICES ASSUME NEW x PROVE x \in NewerThan(small, b) <=> x \in NewerThan(big, b)
    OBVIOUS
  <2> HIDE DEF S, R, D, cut, small, big
  <2>1. CASE x \in R
    BY <2>1, <1>1, <1>3, <1>5 DEF NewerThan
  <2>2. CASE x \notin R
    BY <2>2, <1>1, <1>2, <1>4, <1>6 DEF NewerThan
  <2> QED
    BY <2>1, <2>2
<1>9. IsRecency(big)
  BY TouchedIsRecency
<1>10. ASSUME NEW b \in D \ (S \cup R)
       PROVE  b \notin MostRecent(big, n)
  <2>1. ~ (Cardinality(NewerThan(order, b)) < n)
    BY DEF MostRecent
  <2>2. NewerThan(order, b) \subseteq NewerThan(big, b) /\ NewerThan(big, b) \subseteq DOMAIN big
    <3> HIDE DEF S, R, D, cut, small, big
    <3>1. D = DOMAIN order
      BY DEF D
    <3> QED
      BY <3>1, <1>1, <1>4, <1>5 DEF NewerThan
  <2>3. IsFiniteSet(NewerThan(big, b)) /\ Cardinality(NewerThan(big, b)) \in Nat
    BY <1>9, <2>2, ResidentIsFinite
  <2>4. /\ Cardinality(NewerThan(order, b)) <= Cardinality(NewerThan(big, b))
        /\ Cardinality(NewerThan(order, b)) \in Nat
    BY <2>2, <2>3, FS_Subset, FS_CardinalityType
  <2> HIDE DEF big
  <2> QED
    BY <2>1, <2>3, <2>4 DEF MostRecent
<1>11. MostRecent(small, n) = MostRecent(big, n)
  <2> HIDE DEF S, R, D, cut, small, big
  <2> QED
    BY <1>1, <1>8, <1>10 DEF MostRecent
<1>12. Kept(small, MostRecent(big, n)) = Kept(big, MostRecent(big, n))
  <2> DEFINE M == MostRecent(big, n)
  <2>1. M \subseteq S \cup R
    <3> HIDE DEF S, R, D, cut, small
    <3> QED
      BY <1>1, <1>11 DEF MostRecent
  <2>2. \A b \in M : small[b] \cap M = big[b] \cap M
    <3> HIDE DEF S, R, D, cut, small, big, M
    <3> QED
      BY <1>1, <1>2, <1>3, <1>4, <1>5, <1>7, <2>1
  <2>3. [b \in M |-> small[b] \cap M] = [b \in M |-> big[b] \cap M]
    <3> HIDE DEF small, big, M
    <3> QED
      BY <2>2
  <2> HIDE DEF small, big
  <2> QED
    BY <2>3 DEF Kept
<1> QED
  BY <1>11, <1>12

\* One request through a narrow and a wide LRU.
LEMMA TouchKeepsTruncation ==
    ASSUME NEW wide, IsRecency(wide), NEW req \in Request,
           NEW n \in Nat, NEW N \in Nat, n <= N,
           NEW narrow, narrow = Kept(wide, MostRecent(wide, n))
    PROVE  LRUTouched(narrow, req, n)
             = Kept(LRUTouched(wide, req, N), MostRecent(LRUTouched(wide, req, N), n))
<1> DEFINE big == Touched(wide, req)
<1>1. IsRecency(big)
  BY TouchedIsRecency
<1>2. LRUTouched(narrow, req, n) = Kept(big, MostRecent(big, n))
  BY TouchTruncated DEF LRUTouched
<1>3. LRUTouched(wide, req, N) = Kept(big, MostRecent(big, N))
  BY DEF LRUTouched
<1> HIDE DEF big
<1> QED
  BY <1>1, <1>2, <1>3, TruncatedTwice

\* A touched LRU is a recency order again.
LEMMA LRUTouchedIsRecency ==
    ASSUME NEW order, IsRecency(order), NEW req \in Request, NEW capacity \in Nat
    PROVE  IsRecency(LRUTouched(order, req, capacity))
<1>1. IsRecency(Touched(order, req))
  BY TouchedIsRecency
<1>2. MostRecent(Touched(order, req), capacity) \subseteq DOMAIN Touched(order, req)
  BY DEF MostRecent
<1> QED
  BY <1>1, <1>2, KeptIsRecency DEF LRUTouched

-----------------------------------------------------------------------------
(* Directives *)

\* Clearing is not a mark.
LEMMA NoMarkIsNoMark == NoMark \notin Marks
BY NoPriorityIsNone DEF NoMark, Marks, EVICT_FIRST, PINNED

\* Whatever priority and retain_until a call of admit brings, the mark it leaves is in the
\* clamped range, with an expiry ahead of now.
LEMMA DirectiveIsMark ==
    ASSUME NEW t \in Nat, NEW retainUntil \in Nat, NEW prio \in Int \cup {NoPriority}
    PROVE  Directive(t, retainUntil, prio) \in Marks \cup {NoMark}
<1>1. CASE prio = NoPriority
  BY <1>1 DEF Directive, Marks, NoMark, HIGH, EVICT_FIRST, PINNED
<1>2. CASE prio \in Int
  <2>1. prio # NoPriority
    BY <1>2, NoPriorityIsNone
  <2>2. ClampPriority(prio) \in EVICT_FIRST..PINNED
    BY <1>2 DEF ClampPriority, MaxOf, MinOf, EVICT_FIRST, PINNED
  <2>3. (IF retainUntil > t THEN retainUntil ELSE Forever) \in Nat \cup {Forever}
    OBVIOUS
  <2> QED
    BY <2>1, <2>2, <2>3 DEF Directive, Marks
<1> QED
  BY <1>1, <1>2

-----------------------------------------------------------------------------
(* One admission *)

\* The side tables after the blocks of req were seated with directive d: who has which mark.
LEMMA MarkedAt ==
    ASSUME NEW mark, NEW req, NEW d, NEW b \in DOMAIN Marked(mark, req, d)
    PROVE  /\ b \in Range(req) => Marked(mark, req, d)[b] = d
           /\ b \notin Range(req) => Marked(mark, req, d)[b] = mark[b]
<1>1. CASE d = NoMark
  BY <1>1 DEF Marked, Restrict
<1>2. CASE d # NoMark
  BY <1>2 DEF Marked
<1> QED
  BY <1>1, <1>2

\* Who has one at all.
LEMMA MarkedDomain ==
    ASSUME NEW mark, NEW req, NEW d, NEW b
    PROVE  b \in DOMAIN Marked(mark, req, d) <=> IF b \in Range(req) THEN d # NoMark
                                                                   ELSE b \in DOMAIN mark
<1>1. CASE d = NoMark
  BY <1>1 DEF Marked, Restrict
<1>2. CASE d # NoMark
  BY <1>2 DEF Marked
<1> QED
  BY <1>1, <1>2

\* They are tables of marks again.
LEMMA MarkedTable ==
    ASSUME NEW mark, mark \in [DOMAIN mark -> Marks], NEW req, NEW d \in Marks \cup {NoMark}
    PROVE  Marked(mark, req, d) \in [DOMAIN Marked(mark, req, d) -> Marks]
<1>1. CASE d = NoMark
  BY <1>1 DEF Marked, Restrict
<1>2. CASE d # NoMark
  BY <1>2 DEF Marked
<1> QED
  BY <1>1, <1>2

\* Seating the blocks of a request gives a node again.
LEMMA SeatedIsNode ==
    ASSUME NEW nd, IsNode(nd), NEW t \in Nat, NEW service \in Nat, NEW req \in Request,
           NEW retainUntil \in Nat, NEW prio \in Int \cup {NoPriority}
    PROVE  LET full == Seated(nd, t, service, req, retainUntil, prio)
           IN  /\ IsNode(full)
               /\ full.cache = Touched(nd.cache, req)
               /\ full.mark = Marked(nd.mark, req, Directive(t, retainUntil, prio))
               /\ full.pinnedEvictions = nd.pinnedEvictions
               /\ Resident(full) = Resident(nd) \cup Range(req)
<1> DEFINE full == Seated(nd, t, service, req, retainUntil, prio)
           cache == Touched(nd.cache, req)
           mark == Marked(nd.mark, req, Directive(t, retainUntil, prio))
           busy == MaxOf(t, nd.busyUntil) + service
<1>1. full = [cache |-> cache, mark |-> mark,
              pinnedEvictions |-> nd.pinnedEvictions, busyUntil |-> busy]
  BY DEF Seated
<1>2. IsRecency(cache) /\ DOMAIN cache = Resident(nd) \cup Range(req)
  BY TouchedIsRecency DEF IsNode, Resident
<1>3. mark \in [DOMAIN mark -> Marks]
  BY MarkedTable, DirectiveIsMark DEF IsNode
<1>4. busy \in Nat
  BY DEF MaxOf, IsNode
<1> HIDE DEF cache, mark, busy
<1>5. /\ full.cache = cache /\ full.mark = mark /\ full.busyUntil = busy
      /\ full.pinnedEvictions = nd.pinnedEvictions
  BY <1>1
<1>6. nd.pinnedEvictions \in Nat
  BY DEF IsNode
<1>7. IsNode(full)
  BY <1>1, <1>2, <1>3, <1>4, <1>5, <1>6 DEF IsNode
<1> QED
  BY <1>2, <1>5, <1>7 DEF cache, mark, Resident

\* Evicting resident blocks gives a node again, without the victims.
LEMMA EvictedIsNode ==
    ASSUME NEW nd, IsNode(nd), NEW t \in Nat, NEW V \in SUBSET Resident(nd)
    PROVE  LET left == Evicted(nd, t, V)
           IN  /\ IsNode(left)
               /\ left.cache = Kept(nd.cache, Resident(nd) \ V)
               /\ left.mark = Restrict(nd.mark, DOMAIN nd.mark \ V)
               /\ left.pinnedEvictions =
                     nd.pinnedEvictions + Cardinality(V \cap PinnedBucket(nd, t))
               /\ Resident(left) = Resident(nd) \ V
<1> DEFINE left == Evicted(nd, t, V)
           cache == Kept(nd.cache, Resident(nd) \ V)
           mark == Restrict(nd.mark, DOMAIN nd.mark \ V)
           pins == nd.pinnedEvictions + Cardinality(V \cap PinnedBucket(nd, t))
<1>1. left = [cache |-> cache, mark |-> mark,
              pinnedEvictions |-> pins, busyUntil |-> nd.busyUntil]
  BY DEF Evicted
<1>2. IsRecency(cache) /\ DOMAIN cache = Resident(nd) \ V
  BY KeptIsRecency DEF IsNode, Resident
<1>3. mark \in [DOMAIN mark -> Marks]
  BY DEF IsNode, Restrict
<1>4. pins \in Nat
  <2>1. Cardinality(V \cap PinnedBucket(nd, t)) \in Nat
    BY ResidentIsFinite DEF IsNode, Resident
  <2> QED
    BY <2>1 DEF IsNode
<1> HIDE DEF cache, mark, pins
<1>5. /\ left.cache = cache /\ left.mark = mark /\ left.pinnedEvictions = pins
      /\ left.busyUntil = nd.busyUntil
  BY <1>1
<1>6. nd.busyUntil \in Nat
  BY DEF IsNode
<1>7. IsNode(left)
  BY <1>1, <1>2, <1>3, <1>4, <1>5, <1>6 DEF IsNode
<1> QED
  BY <1>2, <1>5, <1>7 DEF cache, mark, pins, Resident

\* An admission of req with mark d: full is the node once it is seated, V are the blocks
\* evicted then, new is what is left.
Admission(nd, t, req, d, full, V, new) ==
    /\ d \in Marks \cup {NoMark}
    /\ IsNode(full) /\ IsNode(new)
    /\ full.cache = Touched(nd.cache, req)
    /\ full.mark = Marked(nd.mark, req, d)
    /\ full.pinnedEvictions = nd.pinnedEvictions
    /\ Resident(full) = Resident(nd) \cup Range(req)
    /\ Cardinality(V) = Overflow(full)
    /\ \A v \in V, s \in Resident(full) \ V : EvictedBefore(full, t, v, s)
    /\ new.cache = Kept(full.cache, Resident(full) \ V)
    /\ new.mark = Restrict(full.mark, DOMAIN full.mark \ V)
    /\ new.pinnedEvictions = nd.pinnedEvictions + Cardinality(V \cap PinnedBucket(full, t))
    /\ Resident(new) = Resident(full) \ V

\* What an admission does: the victims of the seated node are resident, go before all that
\* stay, and are as many as the node overflows by.
LEMMA AdmittedOutcome ==
    ASSUME NEW nd, IsNode(nd), NEW t \in Nat, NEW service \in Nat, NEW req \in Request,
           NEW retainUntil \in Nat, NEW prio \in Int \cup {NoPriority},
           NEW new \in Admitted(nd, t, service, req, retainUntil, prio)
    PROVE  LET full == Seated(nd, t, service, req, retainUntil, prio)
               d == Directive(t, retainUntil, prio)
           IN  \E V \in SUBSET Resident(full) : Admission(nd, t, req, d, full, V, new)
<1> DEFINE full == Seated(nd, t, service, req, retainUntil, prio)
           d == Directive(t, retainUntil, prio)
<1>1. d \in Marks \cup {NoMark}
  BY DirectiveIsMark
<1>2. /\ IsNode(full)
      /\ full.cache = Touched(nd.cache, req)
      /\ full.mark = Marked(nd.mark, req, d)
      /\ full.pinnedEvictions = nd.pinnedEvictions
      /\ Resident(full) = Resident(nd) \cup Range(req)
  BY SeatedIsNode
<1>3. PICK V \in VictimSets(full, t) : new = Evicted(full, t, V)
  BY DEF Admitted
<1> HIDE DEF full, d
<1>4. /\ V \in SUBSET Resident(full)
      /\ Cardinality(V) = Overflow(full)
      /\ \A v \in V, s \in Resident(full) \ V : EvictedBefore(full, t, v, s)
  BY <1>3 DEF VictimSets
<1>5. LET left == Evicted(full, t, V)
      IN  /\ IsNode(left)
          /\ left.cache = Kept(full.cache, Resident(full) \ V)
          /\ left.mark = Restrict(full.mark, DOMAIN full.mark \ V)
          /\ left.pinnedEvictions =
                full.pinnedEvictions + Cardinality(V \cap PinnedBucket(full, t))
          /\ Resident(left) = Resident(full) \ V
  BY <1>2, <1>4, EvictedIsNode
<1>6. Admission(nd, t, req, d, full, V, new)
  BY <1>1, <1>2, <1>3, <1>4, <1>5 DEF Admission
<1> QED
  BY <1>4, <1>6 DEF full, d

\* After an admission the node holds at most Capacity blocks, and exactly that many if any
\* block was evicted.
LEMMA AdmittedFits ==
    ASSUME NEW nd, IsNode(nd), NEW t \in Nat, NEW service \in Nat, NEW req \in Request,
           NEW retainUntil \in Nat, NEW prio \in Int \cup {NoPriority},
           NEW new \in Admitted(nd, t, service, req, retainUntil, prio)
    PROVE  /\ Cardinality(Resident(new)) <= Capacity
           /\ Resident(nd) \ Resident(new) # {} => Cardinality(Resident(new)) = Capacity
<1> DEFINE full == Seated(nd, t, service, req, retainUntil, prio)
           d == Directive(t, retainUntil, prio)
<1>0. PICK V \in SUBSET Resident(full) : Admission(nd, t, req, d, full, V, new)
  BY AdmittedOutcome
<1> HIDE DEF full, d
<1>1. /\ IsNode(full)
      /\ Resident(full) = Resident(nd) \cup Range(req)
      /\ Cardinality(V) = Overflow(full)
      /\ Resident(new) = Resident(full) \ V
  BY <1>0 DEF Admission
<1>2. IsFiniteSet(Resident(full))
  BY <1>1, ResidentIsFinite DEF IsNode, Resident
<1>3. /\ Cardinality(Resident(full)) \in Nat /\ Cardinality(V) \in Nat
      /\ Cardinality(Resident(full) \ V) \in Nat
  BY <1>2, FS_Subset, FS_CardinalityType
<1>4. Cardinality(Resident(full)) = Cardinality(V) + Cardinality(Resident(full) \ V)
  BY <1>2, SplitCount
<1>5. Cardinality(Resident(new)) <= Capacity
  BY <1>1, <1>3, <1>4, CapacityIsNat DEF Overflow, MaxOf
<1>6. ASSUME Resident(nd) \ Resident(new) # {}
      PROVE  Cardinality(Resident(new)) = Capacity
  <2>1. V # {}
    BY <1>1, <1>6
  <2>2. IsFiniteSet(V)
    BY <1>2, FS_Subset
  <2>3. Cardinality(V) # 0
    BY <2>1, <2>2, FS_EmptySet
  <2> QED
    BY <2>3, <1>1, <1>3, <1>4, CapacityIsNat DEF Overflow, MaxOf
<1> QED
  BY <1>5, <1>6

-----------------------------------------------------------------------------
(* The bounded tables *)

\* Touching one key makes it the most recent; the others keep their order.
LEMMA TouchedKey ==
    ASSUME NEW order, IsOrder(order), NEW key
    PROVE  LET new == Touched(order, <<key>>)
           IN  /\ IsOrder(new) /\ DOMAIN new = DOMAIN order \cup {key}
               /\ new[key] = DOMAIN order \ {key}
<1> DEFINE new == Touched(order, <<key>>)
           rest == DOMAIN order \ {key}
<1>1. Range(<<key>>) = {key}
  BY DEF Range
<1>2. InFrontOf(<<key>>, key) = {}
  BY DEF InFrontOf
<1>3. new = [b \in rest \cup {key} |-> IF b \in rest THEN order[b] \ {key} ELSE rest]
  BY <1>1, <1>2 DEF Touched
<1> HIDE DEF new
<1>4. DOMAIN new = DOMAIN order \cup {key} /\ new[key] = rest
  BY <1>3
<1>5. \A b \in rest : new[b] = order[b] \ {key}
  BY <1>3
<1>6. IsOrder(new)
  BY <1>3, <1>4, <1>5 DEF IsOrder
<1> QED
  BY <1>4, <1>6 DEF new

\* The keys that stay are no more than the capacity: all but the oldest of them are newer than it.
LEMMA MostRecentFits ==
    ASSUME NEW order, IsOrder(order), IsFiniteSet(DOMAIN order), NEW capacity \in Nat \ {0}
    PROVE  Cardinality(MostRecent(order, capacity)) <= capacity
<1> DEFINE K == MostRecent(order, capacity)
<1>1. K \subseteq DOMAIN order /\ IsFiniteSet(K) /\ Cardinality(K) \in Nat
  BY FS_Subset, FS_CardinalityType DEF MostRecent
<1>2. CASE K = {}
  BY <1>2, FS_EmptySet
<1>3. CASE K # {}
  <2>1. PICK x \in K : \A y \in K : ~(Cardinality(order[y] \cap K) < Cardinality(order[x] \cap K))
    <3>1. \A y \in K : Cardinality(order[y] \cap K) \in Nat
      BY <1>1, FS_Subset, FS_CardinalityType
    <3> DEFINE C == {Cardinality(order[y] \cap K) : y \in K}
    <3>2. C \subseteq Nat /\ C # {}
      BY <1>3, <3>1
    <3>3. PICK m \in C : \A c \in C : ~(<<c, m>> \in OpToRel(<, Nat))
      <4> HIDE DEF C
      <4> QED
        BY <3>2, NatLessThanWellFounded, WFMin
    <3> QED
      BY <3>1, <3>2, <3>3 DEF OpToRel
  <2>2. order[x] \cap K = {}
    <3> SUFFICES ASSUME NEW y \in order[x] \cap K
                 PROVE  FALSE
      OBVIOUS
    <3>1. order[y] \cap K \subseteq order[x] \cap K /\ y \notin order[y] /\ y \in order[x]
      BY <1>1 DEF IsOrder
    <3>2. IsFiniteSet(order[x] \cap K) /\ IsFiniteSet(order[y] \cap K)
      BY <1>1, FS_Subset
    <3>3. order[y] \cap K # order[x] \cap K
      BY <3>1
    <3> DEFINE X == order[x] \cap K
               Y == order[y] \cap K
    <3>4. Cardinality(Y) <= Cardinality(X) /\ Cardinality(Y) # Cardinality(X)
      <4> HIDE DEF X, Y
      <4>1. Y \subseteq X /\ Y # X /\ IsFiniteSet(X)
        BY <3>1, <3>2, <3>3 DEF X, Y
      <4> QED
        BY <4>1, FS_Subset
    <3>5. Cardinality(Y) \in Nat /\ Cardinality(X) \in Nat
      BY <3>2, FS_CardinalityType
    <3> QED
      BY <2>1, <3>4, <3>5
  <2>3. K \ {x} \subseteq NewerThan(order, x)
    BY <1>1, <2>2 DEF NewerThan, IsOrder
  <2>4. IsFiniteSet(NewerThan(order, x)) /\ Cardinality(NewerThan(order, x)) < capacity
    BY FS_Subset DEF NewerThan, MostRecent
  <2>5. /\ Cardinality(K \ {x}) <= Cardinality(NewerThan(order, x))
        /\ Cardinality(NewerThan(order, x)) \in Nat
    BY <2>3, <2>4, FS_Subset, FS_CardinalityType
  <2>6. Cardinality(K \ {x}) = Cardinality(K) - 1
    <3> HIDE DEF K
    <3> QED
      BY <1>1, FS_RemoveElement
  <2> QED
    BY <1>1, <2>4, <2>5, <2>6
<1> QED
  BY <1>2, <1>3

\* Put: the key has the value, the other keys that stay keep theirs, and the table fits.
LEMMA PutFits ==
    ASSUME NEW table, NEW capacity \in Nat \ {0}, IsTable(table, capacity), NEW key, NEW value
    PROVE  LET new == Put(table, key, value, capacity)
           IN  /\ IsTable(new, capacity)
               /\ key \in DOMAIN new.val /\ new.val[key] = value
               /\ DOMAIN new.val \subseteq DOMAIN table.val \cup {key}
               /\ \A k \in DOMAIN new.val \ {key} : new.val[k] = table.val[k]
<1> DEFINE order == Touched(table.order, <<key>>)
           kept == MostRecent(order, capacity)
           left == Kept(order, kept)
           val == [k \in kept |-> IF k = key THEN value ELSE table.val[k]]
           new == Put(table, key, value, capacity)
<1>1. /\ IsOrder(order) /\ DOMAIN order = DOMAIN table.order \cup {key}
      /\ order[key] = DOMAIN table.order \ {key}
  BY TouchedKey DEF IsTable
<1> HIDE DEF order
<1>2. IsFiniteSet(DOMAIN order)
  BY <1>1, FS_AddElement DEF IsTable
<1>3. kept \subseteq DOMAIN order /\ IsFiniteSet(kept) /\ Cardinality(kept) <= capacity
  BY <1>1, <1>2, MostRecentFits, FS_Subset DEF MostRecent
<1>4. key \in kept
  <2>1. NewerThan(order, key) = {}
    BY <1>1 DEF NewerThan, IsOrder
  <2>2. Cardinality(NewerThan(order, key)) = 0
    BY <2>1, FS_EmptySet, Zenon
  <2> QED
    BY <1>1, <2>2 DEF MostRecent
<1> HIDE DEF kept
<1>5. IsOrder(left) /\ DOMAIN left = kept
  BY <1>1, <1>3 DEF IsOrder, Kept
<1>6. new = [order |-> left, val |-> val]
  BY DEF Put, order, kept
<1> HIDE DEF left, val
<1>7. new.order = left /\ new.val = val
  BY <1>6
<1>8. DOMAIN val = kept /\ val[key] = value /\ \A k \in kept \ {key} : val[k] = table.val[k]
  BY <1>4 DEF val
<1> HIDE DEF new
<1>9. IsTable(new, capacity)
  BY <1>3, <1>5, <1>7, <1>8 DEF IsTable
<1>10. kept \subseteq DOMAIN table.val \cup {key}
  BY <1>1, <1>3 DEF IsTable
<1> QED
  BY <1>4, <1>7, <1>8, <1>9, <1>10 DEF new

-----------------------------------------------------------------------------
(* The arithmetic of an estimate *)

LEMMA NatProduct == ASSUME NEW a \in Nat, NEW b \in Nat PROVE a * b \in Nat
OBVIOUS

LEMMA Square == ASSUME NEW a \in Int PROVE a * a \in Nat
OBVIOUS

LEMMA ProductMonotone ==
    ASSUME NEW a \in Int, NEW b \in Int, NEW c \in Nat \ {0}
    PROVE  a * c <= b * c <=> a <= b
OBVIOUS

\* A share of at most the whole of a distance does not reach beyond it.
LEMMA ShareIsBetween ==
    ASSUME NEW d \in Int, NEW num \in Nat, NEW den \in Nat \ {0}, num <= den
    PROVE  /\ (num * d) \div den \in Int
           /\ d >= 0 => 0 <= (num * d) \div den /\ (num * d) \div den <= d
           /\ d <= 0 => d <= (num * d) \div den /\ (num * d) \div den <= 0
<1> DEFINE q == (num * d) \div den
<1>1. q \in Int /\ den * q <= num * d /\ num * d < den * (q + 1)
  OBVIOUS
<1> HIDE DEF q
<1>2. d >= 0 => 0 <= num * d /\ num * d <= den * d
  OBVIOUS
<1>3. d <= 0 => den * d <= num * d /\ num * d <= 0
  OBVIOUS
<1>4. ASSUME d >= 0
      PROVE  0 <= q /\ q <= d
  <2>1. 0 < den * (q + 1) /\ den * q <= den * d
    BY <1>1, <1>2, <1>4
  <2> QED
    BY <1>1, <2>1
<1>5. ASSUME d <= 0
      PROVE  d <= q /\ q <= 0
  <2>1. den * d < den * (q + 1) /\ den * q <= 0
    BY <1>1, <1>3, <1>5
  <2> QED
    BY <1>1, <2>1
<1> QED
  BY <1>1, <1>4, <1>5 DEF q

Stat == [count : Nat \ {0}, mean : Int, var : Nat]

\* A new estimate lies between the old mean and the observed gap, and its variance is no less
\* than zero; a gap equal to the mean of an unvarying tool leaves it unvarying.
LEMMA FoldedKnown ==
    ASSUME NEW stat \in Stat, NEW g \in Int
    PROVE  LET new == Folded(stat, g)
           IN  /\ new \in Stat
               /\ \/ stat.mean <= new.mean /\ new.mean <= g * Scale
                  \/ g * Scale <= new.mean /\ new.mean <= stat.mean
               /\ stat.mean = g * Scale /\ stat.var = 0 => new.var = 0
<1> DEFINE delta == g * Scale - stat.mean
           q == (AlphaNum * delta) \div AlphaDen
           spread == AlphaDen * stat.var + AlphaNum * delta * delta
           var == ((AlphaDen - AlphaNum) * spread) \div (AlphaDen * AlphaDen)
           new == [count |-> stat.count + 1, mean |-> stat.mean + q, var |-> var]
<1>1. stat.count \in Nat \ {0} /\ stat.mean \in Int /\ stat.var \in Nat
  BY DEF Stat
<1>2. Folded(stat, g) = new
  BY <1>1 DEF Folded
<1>3. delta \in Int /\ g * Scale \in Int /\ stat.mean + delta = g * Scale
  BY <1>1, ScaleIsPositive
<1>4. /\ q \in Int
      /\ delta >= 0 => 0 <= q /\ q <= delta
      /\ delta <= 0 => delta <= q /\ q <= 0
  <2> HIDE DEF delta
  <2> QED
    BY <1>3, AlphaIsWeight, ShareIsBetween
<1>5. spread \in Nat
  <2>1. AlphaDen * stat.var \in Nat
    BY <1>1, AlphaIsWeight, NatProduct
  <2>2. delta * delta \in Nat
    <3> HIDE DEF delta
    <3> QED
      BY <1>3, Square
  <2>3. AlphaNum * (delta * delta) \in Nat /\ AlphaNum * (delta * delta) = AlphaNum * delta * delta
    <3> HIDE DEF delta
    <3>1. AlphaNum * (delta * delta) \in Nat
      BY <2>2, AlphaIsWeight, NatProduct
    <3> QED
      BY <1>3, <3>1, AlphaIsWeight
  <2> HIDE DEF delta
  <2> QED
    BY <2>1, <2>3
<1>6. AlphaDen * AlphaDen \in Nat \ {0} /\ AlphaDen - AlphaNum \in Nat
  BY AlphaIsWeight
<1>7. var \in Nat
  <2> HIDE DEF spread
  <2>1. (AlphaDen - AlphaNum) * spread \in Nat
    BY <1>5, <1>6, NatProduct
  <2> DEFINE x == (AlphaDen - AlphaNum) * spread
             y == AlphaDen * AlphaDen
  <2>2. x \in Nat /\ y \in Nat \ {0}
    BY <1>6, <2>1
  <2> HIDE DEF x, y
  <2>3. x \div y \in Nat
    BY <2>2
  <2> QED
    BY <2>3 DEF x, y
<1>8. stat.mean = g * Scale /\ stat.var = 0 => var = 0
  <2> SUFFICES ASSUME stat.mean = g * Scale, stat.var = 0
               PROVE  var = 0
    OBVIOUS
  <2>1. delta = 0
    BY <1>3
  <2> HIDE DEF delta
  <2>2. spread = 0
    BY <2>1, AlphaIsWeight
  <2> HIDE DEF spread
  <2>3. (AlphaDen - AlphaNum) * spread = 0
    BY <1>6, <2>2
  <2> DEFINE y == AlphaDen * AlphaDen
  <2>4. y \in Nat \ {0}
    BY <1>6
  <2> HIDE DEF y
  <2>5. 0 \div y = 0
    BY <2>4
  <2> QED
    BY <2>3, <2>5 DEF y
<1> HIDE DEF q, var, delta
<1>9. new.mean = stat.mean + q /\ new.var = var /\ new \in Stat
  BY <1>1, <1>4, <1>7 DEF Stat
<1>10. \/ stat.mean <= stat.mean + q /\ stat.mean + q <= g * Scale
       \/ g * Scale <= stat.mean + q /\ stat.mean + q <= stat.mean
  BY <1>1, <1>3, <1>4
<1> HIDE DEF new
<1> QED
  BY <1>2, <1>8, <1>9, <1>10

\* The first gap is taken as it is.
LEMMA FoldedFirst ==
    ASSUME NEW g \in Int
    PROVE  LET new == Folded(NoStat, g)
           IN  new \in Stat /\ new.mean = g * Scale /\ new.var = 0
BY ScaleIsPositive DEF Folded, NoStat, Stat

LEMMA EmptyIsTable ==
    ASSUME NEW capacity \in Nat
    PROVE  IsTable(EmptyTable, capacity) /\ DOMAIN EmptyTable.val = {}
<1>1. DOMAIN EmptyTable.order = {} /\ DOMAIN EmptyTable.val = {}
  BY DEF EmptyTable, NoBlocks
<1>2. IsFiniteSet({}) /\ Cardinality({}) = 0
  BY FS_EmptySet
<1>3. IsOrder(EmptyTable.order)
  BY <1>1 DEF EmptyTable, NoBlocks, IsOrder
<1> QED
  BY <1>1, <1>2, <1>3 DEF IsTable

-----------------------------------------------------------------------------
(* The lease of an estimate *)

\* An estimate that is worth a pin is of a tool in the index.
LEMMA UnseenIsUnsure ==
    ASSUME NEW table, NEW tool, WorthPinning(Estimate(table, tool))
    PROVE  /\ Has(table, tool) /\ table.val[tool].mean <= ShortGap * Scale
           /\ Estimate(table, tool) = [mean |-> table.val[tool].mean, var |-> table.val[tool].var]
<1>1. ASSUME ~Has(table, tool)
      PROVE  FALSE
  <2>1. ~Has(EmptyTable, NoTool)
    BY DEF Has, EmptyTable
  <2>2. Estimate(table, tool) = Estimate(EmptyTable, NoTool)
    BY <1>1, <2>1 DEF Estimate
  <2> QED
    BY <2>2, PriorIsUnsure DEF WorthPinning
<1>2. Estimate(table, tool) = [mean |-> table.val[tool].mean, var |-> table.val[tool].var]
  BY <1>1 DEF Estimate
<1>3. Estimate(table, tool).mean = table.val[tool].mean
  BY <1>2
<1> QED
  BY <1>1, <1>2, <1>3 DEF WorthPinning

\* The margin takes nothing off a gap.
LEMMA MarginIsMore ==
    ASSUME NEW m \in Nat
    PROVE  (m * MarginNum) \div MarginDen \in Int /\ m <= (m * MarginNum) \div MarginDen
<1> DEFINE q == (m * MarginNum) \div MarginDen
<1>1. q \in Int /\ m * MarginNum < MarginDen * (q + 1)
  BY MarginExtends
<1> HIDE DEF q
<1>2. MarginDen * m <= m * MarginNum
  BY MarginExtends
<1>3. MarginDen * m < MarginDen * (q + 1)
  BY <1>1, <1>2, MarginExtends
<1>4. m <= q
  BY <1>1, <1>3, MarginExtends
<1> QED
  BY <1>1, <1>4 DEF q

\* Every variance has an integer square root.
LEMMA SqrtIsRoot ==
    ASSUME NEW v \in Nat
    PROVE  Sqrt(v) \in Nat /\ Sqrt(v) * Sqrt(v) <= v /\ v < (Sqrt(v) + 1) * (Sqrt(v) + 1)
<1> DEFINE Above == {r \in Nat : v < (r + 1) * (r + 1)}
<1>1. v \in Above
  <2>1. (v + 1) * (v + 1) = v * v + 2 * v + 1 /\ v * v \in Nat
    BY Square
  <2> QED
    BY <2>1
<1>2. PICK r \in Above : \A s \in Above : r <= s
  <2>1. Above \in SUBSET Nat /\ Above # {}
    BY <1>1
  <2> HIDE DEF Above
  <2> QED
    BY <2>1, LeastOf
<1>3. r \in 0..v /\ v < (r + 1) * (r + 1)
  BY <1>1, <1>2
<1>4. r * r <= v
  <2>1. CASE r = 0
    BY <2>1
  <2>2. CASE r # 0
    <3>1. r - 1 \in Nat /\ (r - 1) + 1 = r /\ ~(r <= r - 1)
      BY <1>3, <2>2
    <3>2. r - 1 \notin Above
      BY <1>2, <3>1
    <3>3. ~(v < r * r)
      BY <3>1, <3>2
    <3> QED
      BY <1>3, <3>3
  <2> QED
    BY <2>1, <2>2
<1>5. /\ Sqrt(v) \in 0..v
      /\ Sqrt(v) * Sqrt(v) <= v /\ v < (Sqrt(v) + 1) * (Sqrt(v) + 1)
  <2> DEFINE Root(s) == s * s <= v /\ v < (s + 1) * (s + 1)
  <2>1. r \in 0..v /\ Root(r)
    BY <1>3, <1>4
  <2>2. Sqrt(v) = CHOOSE s \in 0..v : Root(s)
    BY DEF Sqrt
  <2> HIDE DEF Root
  <2>3. Sqrt(v) \in 0..v /\ Root(Sqrt(v))
    BY <2>1, <2>2
  <2> QED
    BY <2>3 DEF Root
<1> QED
  BY <1>5

\* A pin is asked for no less than the predicted gap.
LEMMA LeaseCoversMean ==
    ASSUME NEW est, est.mean \in Nat, est.var \in Nat
    PROVE  LeaseWindow(est) \in Nat /\ est.mean <= LeaseWindow(est)
<1> DEFINE scaled == (est.mean * MarginNum) \div MarginDen
           spread == est.mean + Sqrt(est.var)
<1>1. scaled \in Int /\ est.mean <= scaled
  BY MarginIsMore
<1>2. Sqrt(est.var) \in Nat
  BY SqrtIsRoot
<1>3. LeaseWindow(est) = IF scaled >= spread THEN scaled ELSE spread
  BY DEF LeaseWindow
<1>4. spread \in Nat /\ est.mean <= spread
  BY <1>2
<1> HIDE DEF scaled, spread
<1> QED
  BY <1>1, <1>3, <1>4
=============================================================================
