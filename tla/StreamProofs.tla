---------------------------- MODULE StreamProofs ----------------------------
(***************************************************************************)
(* What the generator promises of a stream of requests, and what the       *)
(* reference node does that replays it, for every run: any number of       *)
(* sessions, turns and classes, any texts, sizes, tools and delays.        *)
(***************************************************************************)
EXTENDS Belady, FiniteSetTheorems, WellFoundedInduction, NaturalsInduction, TLAPS

-----------------------------------------------------------------------------
(* Lists built up step by step *)

LEMMA LeastNumber ==
    ASSUME NEW S \in SUBSET Nat, S # {}
    PROVE  \E n \in S : \A m \in S : n <= m
<1>1. PICK n \in S : \A m \in S : ~(<<m, n>> \in OpToRel(<, Nat))
  BY NatLessThanWellFounded, WFMin
<1>2. n \in Nat /\ \A m \in S : m \in Nat /\ ~(m < n)
  BY <1>1 DEF OpToRel
<1> QED
  BY <1>2

\* f goes from base by one step per index.
Follows(f, n, base, step) == f[0] = base /\ \A k \in 1..n : f[k] = step[k][f[k - 1]]

LEMMA RunExists ==
    ASSUME NEW n \in Nat, NEW V, NEW base \in V, NEW step \in [1..n -> [V -> V]]
    PROVE  \E f \in [0..n -> V] : Follows(f, n, base, step)
<1> DEFINE Good(k) == \E f \in [0..k -> V] : Follows(f, k, base, step)
           Bad == {k \in 0..n : ~Good(k)}
<1>1. Good(0)
  <2> DEFINE f == [k \in 0..0 |-> base]
  <2>1. f \in [0..0 -> V] /\ f[0] = base /\ 1..0 = {}
    OBVIOUS
  <2> HIDE DEF f
  <2> QED
    BY <2>1 DEF Follows
<1>2. ASSUME NEW k \in 0..n, k # n, Good(k) PROVE Good(k + 1)
  <2>1. PICK f \in [0..k -> V] : Follows(f, k, base, step)
    BY <1>2
  <2> DEFINE g == [i \in 0..(k + 1) |-> IF i \in 0..k THEN f[i] ELSE step[k + 1][f[k]]]
  <2>2. g \in [0..(k + 1) -> V]
    <3>1. k + 1 \in 1..n /\ f[k] \in V
      BY <1>2
    <3>2. step[k + 1][f[k]] \in V
      BY <3>1
    <3> QED
      BY <3>2
  <2>3. \A i \in 0..k : g[i] = f[i]
    BY <1>2
  <2>4. g[k + 1] = step[k + 1][f[k]]
    BY <1>2
  <2> HIDE DEF g
  <2>5. \A i \in 1..(k + 1) : g[i] = step[i][g[i - 1]]
    <3> SUFFICES ASSUME NEW i \in 1..(k + 1) PROVE g[i] = step[i][g[i - 1]]
      OBVIOUS
    <3>1. CASE i = k + 1
      <4>1. i - 1 = k /\ k \in 0..k
        BY <3>1, <1>2
      <4> QED
        BY <3>1, <2>3, <2>4, <4>1
    <3>2. CASE i # k + 1
      <4>1. i \in 1..k /\ i \in 0..k /\ i - 1 \in 0..k
        BY <3>2, <1>2
      <4>2. f[i] = step[i][f[i - 1]]
        BY <2>1, <4>1 DEF Follows
      <4> QED
        BY <2>3, <4>1, <4>2
    <3> QED
      BY <3>1, <3>2
  <2>6. g[0] = base
    BY <2>1, <2>3, <1>2 DEF Follows
  <2> QED
    BY <2>2, <2>5, <2>6 DEF Follows
<1> HIDE DEF Good
<1>3. Bad = {}
  <2> SUFFICES ASSUME Bad # {} PROVE FALSE
    OBVIOUS
  <2>1. Bad \in SUBSET Nat
    OBVIOUS
  <2>2. PICK k \in Bad : \A m \in Bad : k <= m
    BY <2>1, LeastNumber
  <2>3. k # 0
    BY <1>1, <2>2
  <2>4. k - 1 \in 0..n /\ k - 1 # n /\ k - 1 \notin Bad
    BY <2>2, <2>3
  <2>5. Good(k - 1)
    BY <2>4
  <2>6. Good(k - 1 + 1)
    BY <1>2, <2>4, <2>5
  <2>7. k - 1 + 1 = k
    BY <2>2
  <2> QED
    BY <2>2, <2>6, <2>7
<1>4. Good(n)
  BY <1>3
<1> QED
  BY <1>4 DEF Good

-----------------------------------------------------------------------------
(* Words and tokens *)

\* f[k] is how many words the first k texts have.
Counts(f, texts) ==
    /\ f \in [0..Len(texts) -> Nat] /\ f[0] = 0
    /\ \A k \in 1..Len(texts) : f[k] = f[k - 1] + WordCount[texts[k][1]]

\* T is a set of texts the generator has a word count for.
Counted(T) == \A text \in T : WordCount[text[1]] \in Nat

LEMMA CountsExist ==
    ASSUME NEW T, Counted(T), NEW texts \in Seq(T)
    PROVE  \E f : Counts(f, texts)
<1> DEFINE step == [k \in 1..Len(texts) |-> [v \in Nat |-> v + WordCount[texts[k][1]]]]
<1>1. \A k \in 1..Len(texts) : WordCount[texts[k][1]] \in Nat
  BY DEF Counted
<1>2. step \in [1..Len(texts) -> [Nat -> Nat]]
  BY <1>1
<1>3. \A k \in 1..Len(texts), v \in Nat : step[k][v] = v + WordCount[texts[k][1]]
  OBVIOUS
<1> HIDE DEF step
<1>4. PICK f \in [0..Len(texts) -> Nat] : Follows(f, Len(texts), 0, step)
  <2>1. Len(texts) \in Nat /\ 0 \in Nat
    OBVIOUS
  <2> QED
    BY <1>2, <2>1, RunExists, Zenon
<1>5. \A k \in 1..Len(texts) : f[k - 1] \in Nat
  BY <1>4
<1> QED
  BY <1>3, <1>4, <1>5, SMTT(30) DEF Follows, Counts

LEMMA WordsAreCounts ==
    ASSUME NEW T, Counted(T), NEW texts \in Seq(T), NEW f, Counts(f, texts)
    PROVE  Words(texts) = f[Len(texts)]
<1> DEFINE n == Len(texts)
           IsRun(g) == g = [k \in 0..n |-> IF k = 0 THEN 0 ELSE g[k - 1] + WordCount[texts[k][1]]]
           run == CHOOSE g : IsRun(g)
           step == [k \in 1..n |-> [v \in Nat |-> v + WordCount[texts[k][1]]]]
<1>1. Words(texts) = run[n]
  BY DEF Words
<1>2. n \in Nat
  OBVIOUS
<1>3. IsRun(f)
  <2>1. \A k \in 0..n : f[k] = IF k = 0 THEN 0 ELSE f[k - 1] + WordCount[texts[k][1]]
    BY DEF Counts
  <2>2. f = [k \in 0..n |-> f[k]]
    BY DEF Counts
  <2> HIDE DEF n
  <2> QED
    BY <2>1, <2>2
<1>4. IsRun(run)
  <2> HIDE DEF IsRun
  <2> QED
    BY <1>3
<1> HIDE DEF run
<1> DEFINE Bad == {k \in 0..n : f[k] # run[k]}
<1>5. Bad = {}
  <2> SUFFICES ASSUME Bad # {} PROVE FALSE
    OBVIOUS
  <2>1. Bad \in SUBSET Nat
    OBVIOUS
  <2>2. PICK k \in Bad : \A m \in Bad : k <= m
    BY <2>1, LeastNumber
  <2>3. k \in 0..n /\ f[k] # run[k]
    BY <2>2
  <2> HIDE DEF n
  <2>4. f[k] = IF k = 0 THEN 0 ELSE f[k - 1] + WordCount[texts[k][1]]
    BY <1>3, <2>3
  <2>5. run[k] = IF k = 0 THEN 0 ELSE run[k - 1] + WordCount[texts[k][1]]
    BY <1>4, <2>3
  <2>6. k # 0
    BY <2>3, <2>4, <2>5
  <2>7. k - 1 \in 0..n /\ k - 1 \notin Bad
    BY <1>2, <2>2, <2>3, <2>6
  <2> QED
    BY <2>3, <2>4, <2>5, <2>6, <2>7
<1> QED
  BY <1>1, <1>2, <1>5

\* f[k] is the first k contents, one after another.
Concats(f, seqs, T) ==
    /\ f \in [0..Len(seqs) -> Seq(T)] /\ f[0] = <<>>
    /\ \A k \in 1..Len(seqs) : f[k] = f[k - 1] \o seqs[k]

LEMMA ConcatsExist ==
    ASSUME NEW T, NEW seqs \in Seq(Seq(T))
    PROVE  \E f : Concats(f, seqs, T)
<1> DEFINE step == [k \in 1..Len(seqs) |-> [v \in Seq(T) |-> v \o seqs[k]]]
<1>1. \A k \in 1..Len(seqs), v \in Seq(T) : v \o seqs[k] \in Seq(T)
  OBVIOUS
<1>2. step \in [1..Len(seqs) -> [Seq(T) -> Seq(T)]]
  BY <1>1
<1>3. \A k \in 1..Len(seqs), v \in Seq(T) : step[k][v] = v \o seqs[k]
  OBVIOUS
<1> HIDE DEF step
<1>4. PICK f \in [0..Len(seqs) -> Seq(T)] : Follows(f, Len(seqs), <<>>, step)
  <2>1. Len(seqs) \in Nat /\ <<>> \in Seq(T)
    OBVIOUS
  <2> QED
    BY <1>2, <2>1, RunExists, Zenon
<1>5. ASSUME NEW k \in 1..Len(seqs) PROVE f[k] = f[k - 1] \o seqs[k]
  <2>1. k - 1 \in 0..Len(seqs)
    OBVIOUS
  <2>2. f[k - 1] \in Seq(T)
    BY <1>4, <2>1, Zenon
  <2>3. f[k] = step[k][f[k - 1]]
    BY <1>4, Zenon DEF Follows
  <2> QED
    BY <1>3, <2>2, <2>3, Zenon
<1>6. f[0] = <<>>
  BY <1>4, Zenon DEF Follows
<1>7. Concats(f, seqs, T)
  BY <1>4, <1>5, <1>6, Zenon DEF Concats
<1> QED
  BY <1>7, Zenon

LEMMA FlattenIsConcats ==
    ASSUME NEW T, NEW seqs \in Seq(Seq(T)), NEW f, Concats(f, seqs, T)
    PROVE  FlattenSeq(seqs) = f[Len(seqs)]
<1> DEFINE n == Len(seqs)
           IsRun(g) == g = [i \in 1..n |-> IF i = 1 THEN seqs[i] ELSE g[i - 1] \o seqs[i]]
           run == CHOOSE g : IsRun(g)
           tail == [i \in 1..n |-> f[i]]
<1>1. CASE n = 0
  BY <1>1 DEF FlattenSeq, Concats
<1>2. CASE n # 0
  <2>1. FlattenSeq(seqs) = run[n]
    BY <1>2 DEF FlattenSeq
  <2>2. n \in Nat
    OBVIOUS
  <2>3. \A i \in 1..n : f[i] = IF i = 1 THEN seqs[i] ELSE f[i - 1] \o seqs[i]
    <3> SUFFICES ASSUME NEW i \in 1..n PROVE f[i] = IF i = 1 THEN seqs[i] ELSE f[i - 1] \o seqs[i]
      OBVIOUS
    <3>1. f[i] = f[i - 1] \o seqs[i] /\ f[0] = <<>> /\ seqs[i] \in Seq(T)
      BY DEF Concats
    <3>2. <<>> \o seqs[i] = seqs[i]
      BY <3>1
    <3>3. CASE i = 1
      <4>1. i - 1 = 0
        BY <3>3
      <4> QED
        BY <3>1, <3>2, <3>3, <4>1, Zenon
    <3>4. CASE i # 1
      BY <3>1, <3>4, Zenon
    <3> QED
      BY <3>3, <3>4
  <2>4. IsRun(tail)
    <3>1. \A i \in 1..n : tail[i] = IF i = 1 THEN seqs[i] ELSE tail[i - 1] \o seqs[i]
      BY <2>2, <2>3
    <3>2. tail = [i \in 1..n |-> tail[i]]
      OBVIOUS
    <3> HIDE DEF n, tail
    <3> QED
      BY <3>1, <3>2
  <2>5. IsRun(run)
    <3> HIDE DEF IsRun
    <3> QED
      BY <2>4
  <2> HIDE DEF run
  <2> DEFINE Bad == {k \in 1..n : f[k] # run[k]}
  <2>6. Bad = {}
    <3> SUFFICES ASSUME Bad # {} PROVE FALSE
      OBVIOUS
    <3>1. Bad \in SUBSET Nat
      OBVIOUS
    <3>2. PICK k \in Bad : \A m \in Bad : k <= m
      BY <3>1, LeastNumber
    <3>3. k \in 1..n /\ f[k] # run[k]
      BY <3>2
    <3> HIDE DEF n
    <3>4. f[k] = IF k = 1 THEN seqs[k] ELSE f[k - 1] \o seqs[k]
      BY <2>3, <3>3
    <3>5. run[k] = IF k = 1 THEN seqs[k] ELSE run[k - 1] \o seqs[k]
      BY <2>5, <3>3
    <3>6. k # 1
      BY <3>3, <3>4, <3>5
    <3>7. k - 1 \in 1..n /\ k - 1 \notin Bad
      BY <2>2, <3>2, <3>3, <3>6
    <3> QED
      BY <3>3, <3>4, <3>5, <3>6, <3>7
  <2>7. n \in 1..n
    BY <1>2, <2>2
  <2> QED
    BY <2>1, <2>6, <2>7
<1> QED
  BY <1>1, <1>2

-----------------------------------------------------------------------------
(* Prefixes of a prompt and its blocks *)

\* t starts with s.
Extends(s, t) == Len(s) <= Len(t) /\ \A i \in 1..Len(s) : s[i] = t[i]

LEMMA ExtensionHasPrefix ==
    ASSUME NEW S, NEW s \in Seq(S), NEW t \in Seq(S), Extends(s, t)
    PROVE  IsPrefix(s, t)
<1>1. Len(s) \in Nat /\ Len(t) \in Nat /\ Len(s) <= Len(t)
  BY DEF Extends
<1>2. \A i \in 1..Len(s) : SubSeq(s, 1, Len(s))[i] = SubSeq(t, 1, Len(s))[i]
  BY <1>1 DEF Extends
<1>3. SubSeq(s, 1, Len(s)) = [i \in 1..Len(s) |-> SubSeq(s, 1, Len(s))[i]]
  BY <1>1
<1>4. SubSeq(t, 1, Len(s)) = [i \in 1..Len(s) |-> SubSeq(t, 1, Len(s))[i]]
  BY <1>1
<1>5. SubSeq(s, 1, Len(s)) = SubSeq(t, 1, Len(s))
  BY <1>2, <1>3, <1>4
<1> QED
  BY <1>1, <1>5 DEF IsPrefix

LEMMA ConcatExtends ==
    ASSUME NEW S, NEW s \in Seq(S), NEW t \in Seq(S)
    PROVE  /\ s \o t \in Seq(S) /\ Len(s \o t) = Len(s) + Len(t)
           /\ Extends(s, s \o t)
           /\ \A i \in 1..Len(t) : (s \o t)[Len(s) + i] = t[i]
  BY DEF Extends

LEMMA ExtendsIsTransitive ==
    ASSUME NEW S, NEW r \in Seq(S), NEW s \in Seq(S), NEW t \in Seq(S),
           Extends(r, s), Extends(s, t)
    PROVE  Extends(r, t)
  BY DEF Extends

LEMMA ExtendsIsReflexive ==
    ASSUME NEW S, NEW s \in Seq(S)
    PROVE  Extends(s, s)
  BY DEF Extends

LEMMA CountsGrow ==
    ASSUME NEW n \in Nat, NEW f \in [0..n -> Nat],
           \A k \in 1..n : f[k - 1] <= f[k], NEW j \in 0..n
    PROVE  \A k \in j..n : f[j] <= f[k]
<1> DEFINE Bad == {k \in j..n : ~(f[j] <= f[k])}
<1> SUFFICES ASSUME Bad # {} PROVE FALSE
  OBVIOUS
<1>1. Bad \in SUBSET Nat
  OBVIOUS
<1>2. PICK k \in Bad : \A m \in Bad : k <= m
  BY <1>1, LeastNumber
<1>3. k # j
  BY <1>2
<1>4. k \in 1..n /\ k - 1 \in j..n /\ k - 1 \notin Bad
  BY <1>2, <1>3
<1>5. f[j] <= f[k - 1] /\ f[k - 1] <= f[k]
  BY <1>4
<1>6. f[j] \in Nat /\ f[k] \in Nat /\ f[k - 1] \in Nat
  BY <1>4
<1> QED
  BY <1>2, <1>5, <1>6

LEMMA WordsOfSome ==
    ASSUME NEW T, Counted(T), NEW texts \in Seq(T), NEW f, Counts(f, texts),
           NEW k \in 0..Len(texts)
    PROVE  Words(SubSeq(texts, 1, k)) = f[k]
<1> DEFINE some == SubSeq(texts, 1, k)
           g == [i \in 0..k |-> f[i]]
<1>1. some \in Seq(T) /\ Len(some) = k /\ \A i \in 1..k : some[i] = texts[i]
  OBVIOUS
<1>2. k \in Nat /\ k <= Len(texts) /\ \A i \in 0..k : i \in 0..Len(texts)
  OBVIOUS
<1>3. g \in [0..k -> Nat] /\ \A i \in 0..k : g[i] = f[i]
  BY <1>2 DEF Counts
<1>4. \A i \in 1..k : i \in 1..Len(texts) /\ i - 1 \in 0..k
  OBVIOUS
<1> HIDE DEF some, g
<1>5. Counts(g, some)
  <2>1. ASSUME NEW i \in 1..k PROVE g[i] = g[i - 1] + WordCount[some[i][1]]
    <3>1. f[i] = f[i - 1] + WordCount[texts[i][1]]
      BY <1>4 DEF Counts
    <3>2. g[i] = f[i] /\ g[i - 1] = f[i - 1] /\ some[i] = texts[i]
      BY <1>1, <1>3, <1>4
    <3> QED
      BY <3>1, <3>2
  <2>2. g[0] = 0
    BY <1>2, <1>3 DEF Counts
  <2> QED
    BY <1>1, <1>3, <2>1, <2>2, Zenon DEF Counts
<1>6. Words(some) = g[k]
  BY <1>1, <1>5, WordsAreCounts
<1> QED
  BY <1>2, <1>3, <1>6 DEF some

\* m is how many texts the first n words are taken from.
Spans(m, texts, f, n) ==
    /\ m \in 0..Len(texts) /\ f[m] >= n
    /\ \A k \in 0..Len(texts) : f[k] >= n => m <= k

LEMMA SpannedTexts ==
    ASSUME NEW T, Counted(T), NEW texts \in Seq(T), NEW f, Counts(f, texts),
           NEW n \in Nat, n <= f[Len(texts)]
    PROVE  \E m : Spans(m, texts, f, n) /\ Spanned(texts, n) = SubSeq(texts, 1, m)
<1> DEFINE L == Len(texts)
           Enough == {k \in 0..L : Words(SubSeq(texts, 1, k)) >= n}
<1>1. Enough = {k \in 0..L : f[k] >= n}
  BY WordsOfSome
<1>2. L \in Enough
  <2>1. L \in 0..L /\ f[L] \in Nat
    BY DEF Counts
  <2> QED
    BY <1>1, <2>1
<1>3. Enough \in SUBSET Nat
  OBVIOUS
<1>4. PICK m \in Enough : \A k \in Enough : m <= k
  <2> HIDE DEF Enough
  <2> QED
    BY <1>2, <1>3, LeastNumber
<1>5. Min(Enough) = m
  <2>1. \E x \in Enough : \A y \in Enough : x =< y
    BY <1>4
  <2>2. Min(Enough) \in Enough /\ \A y \in Enough : Min(Enough) =< y
    <3> HIDE DEF Enough
    <3> QED
      BY <2>1 DEF Min
  <2> QED
    BY <1>3, <1>4, <2>2
<1>6. Spanned(texts, n) = SubSeq(texts, 1, m)
  BY <1>5 DEF Spanned
<1>7. Spans(m, texts, f, n)
  BY <1>1, <1>4 DEF Spans
<1> QED
  BY <1>6, <1>7

\* The blocks of a prompt stay the blocks of every prompt that extends it.
LEMMA BlocksExtend ==
    ASSUME NEW T, Counted(T), NEW t \in Seq(T), NEW u \in Seq(T), Extends(t, u),
           NEW size \in Nat \ {0}
    PROVE  IsPrefix(hash_blocks(t, size), hash_blocks(u, size))
<1>1. PICK g : Counts(g, u)
  BY CountsExist
<1>2. Len(t) \in Nat /\ Len(u) \in Nat /\ Len(t) <= Len(u)
  BY DEF Extends
<1> DEFINE f == [i \in 0..Len(t) |-> g[i]]
<1>3. Counts(f, t)
  <2>1. f \in [0..Len(t) -> Nat] /\ \A i \in 0..Len(t) : f[i] = g[i]
    BY <1>1, <1>2 DEF Counts
  <2> HIDE DEF f
  <2>2. ASSUME NEW i \in 1..Len(t) PROVE f[i] = f[i - 1] + WordCount[t[i][1]]
    <3>1. i \in 1..Len(u) /\ i \in 0..Len(t) /\ i - 1 \in 0..Len(t) /\ t[i] = u[i]
      BY <1>2 DEF Extends
    <3>2. g[i] = g[i - 1] + WordCount[u[i][1]]
      BY <1>1, <3>1 DEF Counts
    <3> QED
      BY <2>1, <3>1, <3>2
  <2>3. f[0] = 0
    BY <1>1, <1>2, <2>1 DEF Counts
  <2> QED
    BY <2>1, <2>2, <2>3, Zenon DEF Counts
<1>4. \A i \in 0..Len(t) : f[i] = g[i]
  OBVIOUS
<1> HIDE DEF f
<1>5. PICK a \in Nat : a = Words(t) /\ a = f[Len(t)]
  BY <1>2, <1>3, WordsAreCounts, SMTT(30) DEF Counts
<1>6. PICK b \in Nat : b = Words(u) /\ b = g[Len(u)]
  BY <1>1, <1>2, WordsAreCounts, SMTT(30) DEF Counts
<1>7. a <= b
  <2>1. \A k \in 1..Len(u) : g[k - 1] <= g[k]
    <3> SUFFICES ASSUME NEW k \in 1..Len(u) PROVE g[k - 1] <= g[k]
      OBVIOUS
    <3>1. g[k] = g[k - 1] + WordCount[u[k][1]] /\ WordCount[u[k][1]] \in Nat
      BY <1>1 DEF Counts, Counted
    <3>2. g[k - 1] \in Nat
      BY <1>1 DEF Counts
    <3> QED
      BY <3>1, <3>2
  <2>2. g \in [0..Len(u) -> Nat]
    BY <1>1 DEF Counts
  <2>3. Len(t) \in 0..Len(u) /\ Len(u) \in Len(t)..Len(u)
    BY <1>2
  <2>4. g[Len(t)] <= g[Len(u)]
    BY <1>2, <2>1, <2>2, <2>3, CountsGrow
  <2> QED
    BY <1>2, <1>4, <1>5, <1>6, <2>4
<1>8. \A n \in Nat : n <= a => Spanned(t, n) = Spanned(u, n)
  <2> SUFFICES ASSUME NEW n \in Nat, n <= a PROVE Spanned(t, n) = Spanned(u, n)
    OBVIOUS
  <2>1. PICK m : Spans(m, t, f, n) /\ Spanned(t, n) = SubSeq(t, 1, m)
    BY <1>3, <1>5, SpannedTexts
  <2>2. PICK k : Spans(k, u, g, n) /\ Spanned(u, n) = SubSeq(u, 1, k)
    BY <1>1, <1>6, <1>7, SpannedTexts
  <2>3. m \in 0..Len(t) /\ k \in 0..Len(u) /\ f[m] >= n /\ g[k] >= n
    BY <2>1, <2>2 DEF Spans
  <2>4. m \in 0..Len(u) /\ g[m] >= n
    BY <1>2, <1>4, <2>3
  <2>5. k <= m
    BY <2>2, <2>4 DEF Spans
  <2>6. k \in 0..Len(t) /\ f[k] >= n
    BY <1>2, <1>4, <2>3, <2>5
  <2>7. m <= k
    BY <2>1, <2>6 DEF Spans
  <2>8. m = k
    BY <2>3, <2>5, <2>7
  <2>9. \A i \in 1..m : t[i] = u[i]
    BY <1>2, <2>3 DEF Extends
  <2>10. SubSeq(t, 1, m) = SubSeq(u, 1, m)
    <3>1. SubSeq(t, 1, m) = [i \in 1..m |-> t[i]]
      BY <1>2, <2>3
    <3>2. SubSeq(u, 1, m) = [i \in 1..m |-> u[i]]
      BY <1>2, <2>4
    <3> QED
      BY <2>9, <3>1, <3>2
  <2> QED
    BY <2>1, <2>2, <2>8, <2>10
<1> DEFINE Block(x, i) == [texts |-> Spanned(x, i * size), words |-> i * size]
           p == a \div size
           q == b \div size
<1>9. p \in Nat /\ q \in Nat /\ p <= q /\ \A i \in 1..p : i * size \in Nat /\ i * size <= a
  <2>1. p \in Nat /\ q \in Nat /\ p * size <= a /\ a < (p + 1) * size /\ q * size <= b /\ b < (q + 1) * size
    OBVIOUS
  <2>2. p <= q
    BY <1>7, <2>1
  <2>3. \A i \in 1..p : i * size \in Nat /\ i * size <= p * size
    BY <2>1
  <2> QED
    BY <2>1, <2>2, <2>3
<1>10. hash_blocks(t, size) = [i \in 1..p |-> Block(t, i)]
  BY <1>5 DEF hash_blocks
<1>11. hash_blocks(u, size) = [i \in 1..q |-> Block(u, i)]
  BY <1>6 DEF hash_blocks
<1>12. \A i \in 1..p : Block(t, i) = Block(u, i)
  BY <1>8, <1>9
<1> HIDE DEF Block, p, q
<1> DEFINE S == {Block(u, i) : i \in 1..q}
<1>13. \A i \in 1..p : i \in 1..q
  BY <1>9
<1>14. [i \in 1..p |-> Block(t, i)] \in Seq(S) /\ [i \in 1..q |-> Block(u, i)] \in Seq(S)
  BY <1>9, <1>12, <1>13
<1>15. Extends([i \in 1..p |-> Block(t, i)], [i \in 1..q |-> Block(u, i)])
  BY <1>9, <1>12, <1>13 DEF Extends
<1> HIDE DEF S
<1> QED
  BY <1>10, <1>11, <1>14, <1>15, ExtensionHasPrefix

-----------------------------------------------------------------------------
(* The tokens of a list of messages *)

\* S is a set of messages whose contents are made of texts in T.
Written(S, T) == \A msg \in S : msg.text \in Seq(T)

LEMMA ContentsOfMessages ==
    ASSUME NEW T, NEW S, Written(S, T), NEW msgs \in Seq(S)
    PROVE  LET c == [i \in DOMAIN msgs |-> msgs[i].text]
           IN  c \in Seq(Seq(T)) /\ Len(c) = Len(msgs) /\ \A i \in 1..Len(msgs) : c[i] = msgs[i].text
<1> DEFINE c == [i \in 1..Len(msgs) |-> msgs[i].text]
<1>1. DOMAIN msgs = 1..Len(msgs) /\ Len(msgs) \in Nat
  OBVIOUS
<1>2. \A i \in 1..Len(msgs) : msgs[i].text \in Seq(T)
  BY DEF Written
<1>3. c \in Seq(Seq(T)) /\ Len(c) = Len(msgs) /\ \A i \in 1..Len(msgs) : c[i] = msgs[i].text
  BY <1>1, <1>2
<1> QED
  BY <1>1, <1>3, Zenon

LEMMA TokensOfNone == Tokens(<<>>) = <<>>
<1>1. [i \in DOMAIN <<>> |-> <<>>[i].text] = <<>>
  OBVIOUS
<1> QED
  BY <1>1 DEF Tokens, FlattenSeq

LEMMA TokensOfOneMore ==
    ASSUME NEW T, NEW S, Written(S, T), NEW msgs \in Seq(S), NEW msg \in S
    PROVE  /\ Tokens(msgs) \in Seq(T)
           /\ Tokens(Append(msgs, msg)) = Tokens(msgs) \o msg.text
<1> DEFINE n == Len(msgs)
           more == Append(msgs, msg)
           c == [i \in DOMAIN msgs |-> msgs[i].text]
           d == [i \in DOMAIN more |-> more[i].text]
<1>1. /\ more \in Seq(S) /\ Len(more) = n + 1 /\ n \in Nat
      /\ \A i \in 1..n : more[i] = msgs[i]
      /\ more[n + 1] = msg
  OBVIOUS
<1>2. c \in Seq(Seq(T)) /\ Len(c) = n /\ \A i \in 1..n : c[i] = msgs[i].text
  BY ContentsOfMessages
<1>3. d \in Seq(Seq(T)) /\ Len(d) = n + 1 /\ \A i \in 1..(n + 1) : d[i] = more[i].text
  <2> HIDE DEF more
  <2>1. d \in Seq(Seq(T)) /\ Len(d) = Len(more) /\ \A i \in 1..Len(more) : d[i] = more[i].text
    <3>1. more \in Seq(S)
      BY <1>1, Zenon
    <3> QED
      BY <3>1, ContentsOfMessages, ZenonT(30)
  <2> QED
    BY <1>1, <2>1, Zenon
<1>4. Tokens(msgs) = FlattenSeq(c) /\ Tokens(more) = FlattenSeq(d)
  BY DEF Tokens
<1> HIDE DEF n, more, c, d
<1>5. PICK f : Concats(f, d, T)
  BY <1>3, ConcatsExist
<1> DEFINE g == [i \in 0..n |-> f[i]]
<1>6. \A i \in 0..n : g[i] = f[i] /\ f[i] \in Seq(T)
  BY <1>1, <1>3, <1>5 DEF Concats
<1>7. Concats(g, c, T)
  <2>1. g \in [0..n -> Seq(T)]
    BY <1>6
  <2> HIDE DEF g
  <2>2. ASSUME NEW i \in 1..n PROVE g[i] = g[i - 1] \o c[i]
    <3>1. i \in 1..(n + 1) /\ i \in 0..n /\ i - 1 \in 0..n
      BY <1>1
    <3>2. c[i] = d[i]
      BY <1>1, <1>2, <1>3, <3>1
    <3>3. f[i] = f[i - 1] \o d[i]
      BY <1>3, <1>5, <3>1 DEF Concats
    <3> QED
      BY <1>6, <3>1, <3>2, <3>3
  <2>3. g[0] = <<>>
    BY <1>1, <1>5, <1>6 DEF Concats
  <2> QED
    BY <1>2, <2>1, <2>2, <2>3, Zenon DEF Concats
<1>8. Tokens(msgs) = g[n]
  BY <1>2, <1>4, <1>7, FlattenIsConcats
<1>9. Tokens(more) = f[n + 1]
  BY <1>3, <1>4, <1>5, FlattenIsConcats
<1>10. f[n + 1] = f[n] \o d[n + 1] /\ d[n + 1] = msg.text
  <2>1. n + 1 \in 1..(n + 1) /\ (n + 1) - 1 = n
    BY <1>1
  <2> QED
    BY <1>1, <1>3, <1>5, <2>1 DEF Concats
<1>11. g[n] = f[n] /\ f[n] \in Seq(T)
  BY <1>1, <1>6
<1> QED
  BY <1>8, <1>9, <1>10, <1>11 DEF more

-----------------------------------------------------------------------------
(* Sorting *)

\* S is a set of requests whose sort keys are numbers.
Keyed(S) == \A r \in S : r.arrival \in Nat /\ r.session_id \in Nat /\ r.turn_idx \in Nat

LEMMA TiesAreOrdered ==
    ASSUME NEW p, NEW q, NEW r, NEW i \in Nat, NEW j \in Nat, NEW k \in Nat,
           p.arrival \in Nat, p.session_id \in Nat, p.turn_idx \in Nat,
           q.arrival \in Nat, q.session_id \in Nat, q.turn_idx \in Nat,
           r.arrival \in Nat, r.session_id \in Nat, r.turn_idx \in Nat,
           \/ Earlier(p, q) /\ (Earlier(q, r) \/ ~Earlier(r, q))
           \/ ~Earlier(q, p) /\ i < j /\ (Earlier(q, r) \/ (~Earlier(r, q) /\ j < k))
    PROVE  Earlier(p, r) \/ (~Earlier(r, p) /\ i < k)
  BY DEF Earlier

\* The order of the sort is a strict total order on positions.
LEMMA BeforeIsOrder ==
    ASSUME NEW S, Keyed(S), NEW s \in Seq(S),
           NEW i \in 1..Len(s), NEW j \in 1..Len(s)
    PROVE  /\ ~Before(s, i, i)
           /\ Before(s, i, j) => ~Before(s, j, i)
           /\ i # j => Before(s, i, j) \/ Before(s, j, i)
           /\ \A k \in 1..Len(s) : Before(s, i, j) /\ Before(s, j, k) => Before(s, i, k)
<1> DEFINE K(l) == s[l].arrival \in Nat /\ s[l].session_id \in Nat /\ s[l].turn_idx \in Nat
<1>1. \A l \in 1..Len(s) : K(l)
  BY DEF Keyed
<1>2. K(i) /\ K(j)
  BY <1>1
<1>3. ASSUME NEW k \in 1..Len(s), Before(s, i, j), Before(s, j, k)
      PROVE  Before(s, i, k)
  <2>1. K(k)
    BY <1>1
  <2>2. \A l \in 1..Len(s) : l \in Nat
    OBVIOUS
  <2>3. PICK ri : ri = s[i]
    OBVIOUS
  <2>4. PICK rj : rj = s[j]
    OBVIOUS
  <2>5. PICK rk : rk = s[k]
    OBVIOUS
  <2>6. \/ Earlier(ri, rj) /\ (Earlier(rj, rk) \/ ~Earlier(rk, rj))
        \/ ~Earlier(rj, ri) /\ i < j /\ (Earlier(rj, rk) \/ (~Earlier(rk, rj) /\ j < k))
    BY <1>3, <2>3, <2>4, <2>5 DEF Before
  <2>7. Earlier(ri, rk) \/ (~Earlier(rk, ri) /\ i < k)
    BY <1>2, <2>1, <2>2, <2>3, <2>4, <2>5, <2>6, TiesAreOrdered
  <2> QED
    BY <2>3, <2>5, <2>7 DEF Before
<1> QED
  BY <1>2, <1>3 DEF Before, Earlier

\* InOrder rearranges: each place of the sorted list is taken by one position of the list,
\* and earlier places by what comes before.
Sorts(p, s) ==
    /\ p \in [1..Len(s) -> 1..Len(s)]
    /\ \A i, j \in 1..Len(s) : i < j => Before(s, p[i], p[j])
    /\ \A k \in 1..Len(s) : \E i \in 1..Len(s) : p[i] = k
    /\ \A i \in 1..Len(s) : InOrder(s)[i] = s[p[i]]

LEMMA InOrderSorts ==
    ASSUME NEW S, Keyed(S), NEW s \in Seq(S)
    PROVE  /\ \E p : Sorts(p, s)
           /\ InOrder(s) \in Seq(S) /\ Len(InOrder(s)) = Len(s)
<1> DEFINE n == Len(s)
           D == 1..n
           Ahead(i) == {j \in D : Before(s, j, i)}
           place == [i \in D |-> 1 + Cardinality(Ahead(i))]
           p == [k \in D |-> CHOOSE i \in D : place[i] = k]
<1>1. n \in Nat /\ DOMAIN s = D /\ IsFiniteSet(D) /\ Cardinality(D) = n
  <2>1. n \in Nat /\ DOMAIN s = D
    OBVIOUS
  <2> HIDE DEF n
  <2>2. IsFiniteSet(1..n) /\ Cardinality(1..n) = n
    BY <2>1, FS_Interval
  <2> QED
    BY <2>1, <2>2
<1>2. ASSUME NEW i \in D
      PROVE  IsFiniteSet(Ahead(i)) /\ Cardinality(Ahead(i)) \in Nat /\ Cardinality(Ahead(i)) < n
  <2>1. Ahead(i) \subseteq D \ {i}
    BY BeforeIsOrder
  <2> HIDE DEF Ahead, D, n
  <2>2. IsFiniteSet(D \ {i}) /\ Cardinality(D \ {i}) = n - 1
    BY <1>1, FS_RemoveElement, Zenon
  <2>3. IsFiniteSet(Ahead(i)) /\ Cardinality(Ahead(i)) <= Cardinality(D \ {i})
    BY <2>1, <2>2, FS_Subset
  <2>4. Cardinality(Ahead(i)) \in Nat
    BY <2>3, FS_CardinalityType
  <2> QED
    BY <1>1, <2>2, <2>3, <2>4
<1>3. ASSUME NEW i \in D, NEW j \in D, Before(s, i, j)
      PROVE  Cardinality(Ahead(i)) < Cardinality(Ahead(j))
  <2>1. Ahead(i) \subseteq Ahead(j)
    BY <1>3, BeforeIsOrder
  <2>2. i \in Ahead(j) /\ i \notin Ahead(i)
    BY <1>3, BeforeIsOrder
  <2>3. IsFiniteSet(Ahead(j)) /\ IsFiniteSet(Ahead(i))
    BY <1>2
  <2>4. Cardinality(Ahead(i)) \in Nat /\ Cardinality(Ahead(j)) \in Nat
    BY <1>2
  <2> HIDE DEF Ahead
  <2>5. Ahead(i) \in SUBSET Ahead(j) /\ Ahead(i) # Ahead(j)
    BY <2>1, <2>2
  <2>6. Cardinality(Ahead(i)) <= Cardinality(Ahead(j))
        /\ (Cardinality(Ahead(i)) = Cardinality(Ahead(j)) => Ahead(i) = Ahead(j))
    BY <2>3, <2>5, FS_Subset
  <2> QED
    BY <2>4, <2>5, <2>6
<1>4. place \in [D -> D] /\ \A i \in D : place[i] = Place(s, i)
  <2>1. \A i \in D : 1 + Cardinality(Ahead(i)) \in D
    <3> HIDE DEF Ahead
    <3> QED
      BY <1>1, <1>2
  <2>2. \A i \in D : Place(s, i) = 1 + Cardinality(Ahead(i))
    BY <1>1 DEF Place
  <2> HIDE DEF Ahead, D
  <2> QED
    BY <2>1, <2>2
<1>5. \A i, j \in D : Before(s, i, j) => place[i] < place[j]
  <2> HIDE DEF Ahead, D, n
  <2>1. \A i \in D : Cardinality(Ahead(i)) \in Nat
    BY <1>2
  <2> QED
    BY <1>3, <2>1
<1>6. \A i, j \in D : i # j => Before(s, i, j) \/ Before(s, j, i)
  BY BeforeIsOrder
<1> HIDE DEF place, Ahead
<1>7. \A i, j \in D : place[i] = place[j] => i = j
  <2>1. \A i \in D : place[i] \in Nat
    BY <1>1, <1>4
  <2> QED
    BY <1>5, <1>6, <2>1
<1>8. \A k \in D : \E i \in D : place[i] = k
  <2> HIDE DEF D, n
  <2>1. place \in Injection(D, D)
    BY <1>4, <1>7 DEF Injection, IsInjective
  <2>2. place \in Surjection(D, D)
    BY <1>1, <2>1, FS_Injection
  <2> QED
    BY <2>2 DEF Surjection
<1>9. \A k \in D : p[k] \in D /\ place[p[k]] = k
  <2> HIDE DEF D, n
  <2> QED
    BY <1>8
<1>10. p \in [D -> D]
  <2> HIDE DEF D, n
  <2> QED
    BY <1>9
<1>11. \A i \in D : p[place[i]] = i
  <2> HIDE DEF D, n, p
  <2> QED
    BY <1>4, <1>7, <1>9
<1>12. InOrder(s) = [k \in D |-> s[p[k]]]
  <2>1. \A k \in D : p[k] = CHOOSE i \in D : Place(s, i) = k
    <3>1. \A k \in D : (CHOOSE i \in D : place[i] = k) = CHOOSE i \in D : Place(s, i) = k
      BY <1>4, <1>9
    <3> QED
      BY <3>1
  <2>2. \A k \in D : InOrder(s)[k] = s[CHOOSE i \in D : Place(s, i) = k]
    <3> HIDE DEF D, n, p
    <3> QED
      BY <1>1 DEF InOrder
  <2>3. InOrder(s) = [k \in D |-> InOrder(s)[k]]
    <3> HIDE DEF D, n, p
    <3> QED
      BY <1>1 DEF InOrder
  <2> HIDE DEF D, n, p
  <2> QED
    BY <2>1, <2>2, <2>3
<1> HIDE DEF p
<1>13. \A i, j \in D : i < j => Before(s, p[i], p[j])
  <2> SUFFICES ASSUME NEW i \in D, NEW j \in D, i < j PROVE Before(s, p[i], p[j])
    OBVIOUS
  <2>1. p[i] \in D /\ p[j] \in D /\ place[p[i]] = i /\ place[p[j]] = j
    BY <1>9
  <2>2. p[i] # p[j] /\ ~(place[p[j]] < place[p[i]])
    BY <1>1, <2>1
  <2> QED
    BY <1>5, <1>6, <2>1, <2>2
<1>14. Sorts(p, s)
  <2> HIDE DEF D
  <2>1. D = 1..Len(s)
    BY DEF D
  <2>2. \A k \in D : \E i \in D : p[i] = k
    BY <1>4, <1>11
  <2> QED
    BY <1>10, <1>12, <1>13, <2>1, <2>2 DEF Sorts
<1>15. InOrder(s) \in Seq(S) /\ Len(InOrder(s)) = Len(s)
  BY <1>1, <1>10, <1>12
<1> QED
  BY <1>14, <1>15

-----------------------------------------------------------------------------
(* The invariant of the generator *)

\* What may be drawn for the tool of a session.
ToolNames == Tool \cup {NoTool}

\* The messages and texts of a run.
MessagesOf(o) ==
    [role : Role, text : Contents(o), calls : {<<>>} \cup {<<tool>> : tool \in Tool}]
Pieces(o) == UNION {Range(content) : content \in Contents(o)}

\* The text that no request of another session has.
OwnText(kind, sid) ==
    IF kind = "tool" THEN <<"reply", <<sid, 1>>>>
    ELSE IF kind = "rag" THEN <<"question", sid - RAG_SID_BASE>>
    ELSE <<"oneshot", sid - ONESHOT_SID_BASE>>

\* A prompt of the session goes beyond what sessions share only behind a text of its own.
Marked(tokens, kind, sid) ==
    IF kind = "oneshot" THEN tokens = <<OwnText(kind, sid)>>
    ELSE /\ Len(tokens) >= 2
         /\ tokens[1] = <<"system">> /\ tokens[2][1] \in {"user", "doc"}
         /\ Len(tokens) >= 3 => tokens[3] = OwnText(kind, sid)

\* The messages of turn number turn of a session that works with tool.
Conversation(o, sid, turn, tool, messages) ==
    /\ messages \in Seq(MessagesOf(o))
    /\ \A i \in 1..Len(messages) :
          messages[i].role = "assistant" => messages[i].calls = Calls(tool)
    /\ IF turn = 0 THEN /\ Len(messages) = 2
                        /\ messages[1].role = "system" /\ messages[2].role = "user"
                        /\ messages[2].text \in Openers
                   ELSE HasRole(messages, "tool") /\ HasRole(messages, "assistant")
    /\ Tokens(messages) \in Seq(Pieces(o)) /\ Len(Tokens(messages)) = 2 + 3 * turn
    /\ Marked(Tokens(messages), "tool", sid)

\* The session ids of a class.
FirstSid(class) ==
    IF class = "tool" THEN 0 ELSE IF class = "rag" THEN RAG_SID_BASE ELSE ONESHOT_SID_BASE

\* What a request shows agrees with what it says of itself.
Signals(r) ==
    LET body == [messages |-> r.messages, tools |-> FALSE]
    IN  /\ classify(RequestView(r.messages)) = r.kind
        /\ Classify(body) = r.kind
        /\ LastToolName(body) = r.tool_name

Blocks(o) == [texts : Seq(Pieces(o)), words : Nat]

Requests(o) ==
    {r \in [session_id : Nat, turn_idx : Nat, arrival : Nat, block_hashes : Seq(Blocks(o)),
            messages : Seq(MessagesOf(o)), kind : Class, tool_name : ToolNames] :
        /\ Tokens(r.messages) \in Seq(Pieces(o))
        /\ r.block_hashes = hash_blocks(Tokens(r.messages), o.block_size)
        /\ r.session_id \in FirstSid(r.kind)..(FirstSid(r.kind) + Share(o, r.kind) - 1)
        /\ Marked(Tokens(r.messages), r.kind, r.session_id)
        /\ Signals(r)}

\* Each class has begun at most its share; the session under way is the last one begun.
Generated ==
    /\ options \in Options
    /\ count \in [Class -> Nat] /\ \A class \in Class : count[class] <= Share(options, class)
    /\ clock \in [Class -> Nat]
    /\ sorted \in BOOLEAN
    /\ requests \in Seq(Requests(options))

UnderWay ==
    /\ session \in [session_id : Nat, turn_idx : Nat, arrival : Nat, tool : ToolNames,
                    messages : Seq(MessagesOf(options))]
    /\ session.turn_idx < options.turns
    /\ IF count["tool"] = 0 THEN SessionDone
       ELSE /\ session.session_id = count["tool"] - 1
            /\ Conversation(options, session.session_id, session.turn_idx, session.tool,
                            session.messages)

\* p is asked before q, if they are of one session.
Precedes(p, q) ==
    p.session_id = q.session_id
        => /\ p.turn_idx < q.turn_idx /\ p.arrival <= q.arrival
           /\ Extends(Tokens(p.messages), Tokens(q.messages))
           /\ Len(Tokens(p.messages)) < Len(Tokens(q.messages))

\* r was begun, and is a turn of the session under way or of an earlier one.
Begun(r) ==
    /\ r.session_id < FirstSid(r.kind) + count[r.kind]
    /\ r.kind = "tool" /\ r.session_id = session.session_id
        => /\ r.turn_idx <= session.turn_idx /\ r.arrival <= session.arrival
           /\ Extends(Tokens(r.messages), Tokens(session.messages))

StreamInv ==
    /\ Generated
    /\ UnderWay
    /\ \A i \in 1..Len(requests) : Begun(requests[i])
    /\ \A i, j \in 1..Len(requests) : i < j => Precedes(requests[i], requests[j])

LEMMA ShareIsNat ==
    ASSUME NEW o \in Options, NEW class \in Class PROVE Share(o, class) \in Nat
<1>1. /\ o.num_sessions \in Nat /\ o.turns \in Nat /\ o.mix[class] \in Nat /\ o.mix["tool"] \in Nat
      /\ MixUnit \in Nat \ {0}
  BY OptionsAreRuns, MixUnitIsPositive DEF Class
<1>2. ASSUME NEW num \in Nat PROVE Rounded(num, MixUnit) \in Nat
  <2>1. num \div MixUnit \in Nat
    BY <1>1
  <2> QED
    BY <2>1 DEF Rounded
<1>3. o.num_sessions * o.mix["tool"] \in Nat /\ o.num_sessions * o.turns * o.mix[class] \in Nat
  BY <1>1
<1> QED
  BY <1>2, <1>3, Zenon DEF Share

\* Every text of a run is counted and may be the content of a message.
LEMMA PiecesOfRun ==
    ASSUME NEW o \in Options
    PROVE  /\ Counted(Pieces(o))
           /\ Contents(o) \subseteq Seq(Pieces(o))
           /\ Written(MessagesOf(o), Pieces(o))
           /\ MessagesOf(o) \subseteq Message
<1> DEFINE Kinds == {"system", "user", "reply", "result", "error", "next", "canned", "doc",
                     "question", "oneshot"}
<1>1. ASSUME NEW c \in Contents(o)
      PROVE  \/ \E x : c = <<x>> /\ x[1] \in Kinds
             \/ \E x, y : c = <<x, y>> /\ x[1] \in Kinds /\ y[1] \in Kinds
  BY DEF Contents, Openers, Questions
<1>2. ASSUME NEW c \in Contents(o) PROVE Range(c) \subseteq Pieces(o)
  BY <1>2 DEF Pieces
<1>3. ASSUME NEW c \in Contents(o)
      PROVE  c \in Seq(Pieces(o)) /\ \A text \in Range(c) : text[1] \in Kinds
  <2>1. CASE \E x : c = <<x>> /\ x[1] \in Kinds
    <3>1. PICK x : c = <<x>> /\ x[1] \in Kinds
      BY <2>1
    <3>2. Range(c) = {x}
      BY <3>1 DEF Range
    <3>3. x \in Pieces(o)
      BY <1>2, <3>2
    <3> HIDE DEF Kinds
    <3> QED
      BY <3>1, <3>2, <3>3
  <2>2. CASE \E x, y : c = <<x, y>> /\ x[1] \in Kinds /\ y[1] \in Kinds
    <3>1. PICK x, y : c = <<x, y>> /\ x[1] \in Kinds /\ y[1] \in Kinds
      BY <2>2
    <3>2. Range(c) = {x, y}
      <4>1. DOMAIN <<x, y>> = {1, 2} /\ <<x, y>>[1] = x /\ <<x, y>>[2] = y
        OBVIOUS
      <4> QED
        BY <3>1, <4>1 DEF Range
    <3>3. x \in Pieces(o) /\ y \in Pieces(o)
      BY <1>2, <3>2
    <3> HIDE DEF Kinds
    <3> QED
      BY <3>1, <3>2, <3>3
  <2> QED
    BY <1>1, <2>1, <2>2
<1>4. Contents(o) \subseteq Seq(Pieces(o))
  BY <1>3
<1>5. Counted(Pieces(o))
  <2>1. \A text \in Pieces(o) : text[1] \in Kinds
    <3> HIDE DEF Kinds
    <3> QED
      BY <1>3 DEF Pieces
  <2> QED
    BY <2>1, WordsAreCounted DEF Counted
<1>6. Written(MessagesOf(o), Pieces(o))
  BY <1>4 DEF Written, MessagesOf
<1>7. MessagesOf(o) \subseteq Message
  <2>1. {<<>>} \cup {<<tool>> : tool \in Tool} \subseteq Seq(Tool \cup {Unnamed})
    <3>1. ASSUME NEW tool \in Tool PROVE <<tool>> \in Seq(Tool \cup {Unnamed})
      OBVIOUS
    <3>2. <<>> \in Seq(Tool \cup {Unnamed})
      OBVIOUS
    <3> QED
      BY <3>1, <3>2, Zenon
  <2>2. Contents(o) \subseteq Text
    BY ContentsAreText
  <2> QED
    BY <2>1, <2>2 DEF MessagesOf, Message
<1> QED
  BY <1>4, <1>5, <1>6, <1>7

\* A block covers a beginning of the prompt.
LEMMA BlocksAreSpans ==
    ASSUME NEW T, Counted(T), NEW t \in Seq(T), NEW size \in Nat \ {0}
    PROVE  /\ hash_blocks(t, size) \in Seq([texts : Seq(T), words : Nat])
           /\ \A b \in Range(hash_blocks(t, size)) :
                \E m \in 0..Len(t) : b.texts = SubSeq(t, 1, m)
<1>1. PICK f : Counts(f, t)
  BY CountsExist
<1>2. PICK a \in Nat : a = Words(t) /\ a = f[Len(t)]
  BY <1>1, WordsAreCounts DEF Counts
<1>3. \A n \in Nat : n <= a => \E m \in 0..Len(t) : Spanned(t, n) = SubSeq(t, 1, m)
  BY <1>1, <1>2, SpannedTexts DEF Spans
<1> DEFINE p == a \div size
<1>4. p \in Nat /\ \A i \in 1..p : i * size \in Nat /\ i * size <= a
  <2>1. p \in Nat /\ p * size <= a
    OBVIOUS
  <2>2. \A i \in 1..p : i * size \in Nat /\ i * size <= p * size
    BY <2>1
  <2> QED
    BY <2>1, <2>2
<1>5. hash_blocks(t, size) = [i \in 1..p |-> [texts |-> Spanned(t, i * size), words |-> i * size]]
  BY <1>2 DEF hash_blocks
<1> HIDE DEF p
<1>6. \A i \in 1..p : \E m \in 0..Len(t) : Spanned(t, i * size) = SubSeq(t, 1, m)
  BY <1>3, <1>4
<1>7. \A m \in 0..Len(t) : SubSeq(t, 1, m) \in Seq(T)
  OBVIOUS
<1>8. \A i \in 1..p : Spanned(t, i * size) \in Seq(T)
  BY <1>6, <1>7
<1>9. hash_blocks(t, size) \in Seq([texts : Seq(T), words : Nat])
  <2> DEFINE B == [texts : Seq(T), words : Nat]
             block == [i \in 1..p |-> [texts |-> Spanned(t, i * size), words |-> i * size]]
  <2>1. \A i \in 1..p : [texts |-> Spanned(t, i * size), words |-> i * size] \in B
    BY <1>4, <1>8
  <2>2. block \in [1..p -> B]
    BY <2>1, Zenon
  <2> HIDE DEF B, block
  <2>3. block \in Seq(B)
    BY <1>4, <2>2
  <2> QED
    BY <1>5, <2>3, Zenon DEF B, block
<1>10. \A b \in Range(hash_blocks(t, size)) : \E i \in 1..p : b.texts = Spanned(t, i * size)
  BY <1>5 DEF Range
<1> QED
  BY <1>6, <1>9, <1>10

-----------------------------------------------------------------------------
(* What a request shows *)

LEMMA MaxOfSome ==
    ASSUME NEW n \in Nat, NEW S \in SUBSET (1..n), S # {} PROVE Max(S) \in S
<1> DEFINE Gap == {n - i : i \in S}
<1>1. Gap \in SUBSET Nat /\ Gap # {}
  <2>1. \A i \in S : n - i \in Nat
    OBVIOUS
  <2>2. \E i \in S : n - i \in Gap
    BY Zenon
  <2> QED
    BY <2>1, <2>2
<1> HIDE DEF Gap
<1>2. PICK g \in Gap : \A h \in Gap : g <= h
  BY <1>1, LeastNumber
<1>3. PICK x \in S : g = n - x
  BY <1>2 DEF Gap
<1>4. \A y \in S : y =< x
  <2> SUFFICES ASSUME NEW y \in S PROVE y =< x
    OBVIOUS
  <2>1. n - y \in Gap
    BY DEF Gap
  <2> QED
    BY <1>2, <1>3, <2>1
<1> QED
  BY <1>3, <1>4 DEF Max

LEMMA IndicesOfList ==
    ASSUME NEW S, NEW s \in Seq(S)
    PROVE  DOMAIN s = 1..Len(s) /\ Len(s) \in Nat
  OBVIOUS

\* The plugin sees a chat completion.
LEMMA MessagesAreBody ==
    ASSUME NEW o \in Options, NEW messages \in Seq(MessagesOf(o))
    PROVE  [messages |-> messages, tools |-> FALSE] # NoBody
<1>1. messages \in Seq(Message)
  <2>1. MessagesOf(o) \subseteq Message
    BY PiecesOfRun
  <2>2. messages \in [1..Len(messages) -> Message] /\ Len(messages) \in Nat
    BY <2>1
  <2> QED
    BY <2>2
<1>2. [messages |-> messages, tools |-> FALSE] \in Body
  BY <1>1 DEF Body
<1> QED
  BY <1>2, NoBodyIsNone

LEMMA ViewOfMessages ==
    ASSUME NEW messages
    PROVE  /\ RequestView(messages).numMessages = Len(messages)
           /\ RequestView(messages).hasToolMessages = HasRole(messages, "tool")
           /\ RequestView(messages).lastIsLong
                = (messages # <<>> /\ Last(messages).text \in LongInTokens)
  BY Zenon DEF RequestView

LEMMA SignalsOfSession ==
    ASSUME NEW o \in Options, NEW sid, NEW turn \in Nat, NEW tool \in ToolNames, NEW r,
           Conversation(o, sid, turn, tool, r.messages), r.kind = "tool",
           r.tool_name = IF turn = 0 THEN NoTool ELSE tool
    PROVE  Signals(r)
<1> DEFINE body == [messages |-> r.messages, tools |-> FALSE]
<1>1. r.messages \in Seq(MessagesOf(o)) /\ DOMAIN r.messages = 1..Len(r.messages)
  <2> HIDE DEF body
  <2>1. r.messages \in Seq(MessagesOf(o))
    BY Zenon DEF Conversation
  <2> QED
    BY <2>1, IndicesOfList, Zenon
<1>2. body # NoBody
  BY <1>1, MessagesAreBody
<1>3. body.messages = r.messages /\ body.tools = FALSE
  OBVIOUS
<1>4. CASE turn = 0
  <2>1. /\ Len(r.messages) = 2 /\ r.messages[1].role = "system" /\ r.messages[2].role = "user"
        /\ r.messages[2].text \notin LongInChars \cup LongInTokens /\ r.tool_name = NoTool
    BY <1>4, OnlyQueriesAreLong DEF Conversation
  <2>2. ~HasRole(r.messages, "tool") /\ Callers(r.messages) = {}
    BY <1>1, <2>1 DEF HasRole, Callers
  <2>3. Last(r.messages).text \notin LongInChars \cup LongInTokens
    BY <2>1 DEF Last
  <2> HIDE DEF body
  <2>4. classify(RequestView(r.messages)) = "tool"
    <3>1. ~RequestView(r.messages).hasToolMessages /\ ~RequestView(r.messages).lastIsLong
          /\ RequestView(r.messages).numMessages = 2
      BY <2>1, <2>2, <2>3, ViewOfMessages, Zenon
    <3> QED
      BY <3>1 DEF classify
  <2>5. Classify(body) = "tool" /\ LastToolName(body) = NoTool
    BY <1>2, <1>3, <2>1, <2>2, <2>3 DEF Classify, LastToolName
  <2> QED
    BY <2>1, <2>4, <2>5, Zenon DEF Signals, body
<1>5. CASE turn # 0
  <2>1. HasRole(r.messages, "tool") /\ HasRole(r.messages, "assistant") /\ r.tool_name = tool
    BY <1>5 DEF Conversation
  <2>2. \A i \in 1..Len(r.messages) :
            r.messages[i].role = "assistant" => r.messages[i].calls = Calls(tool)
    BY DEF Conversation
  <2>3. LastToolName(body) = tool
    <3>1. CASE tool = NoTool
      <4>1. Callers(r.messages) = {}
        BY <1>1, <2>2, <3>1 DEF Callers, Calls
      <4> HIDE DEF body
      <4> QED
        BY <1>3, <3>1, <4>1 DEF LastToolName
    <3>2. CASE tool # NoTool
      <4>1. tool \in Tool /\ tool # Unnamed /\ Calls(tool) = <<tool>> /\ <<tool>> # <<>>
        BY <3>2, NamesAreDistinct DEF ToolNames, Calls
      <4>2. Callers(r.messages) = {i \in 1..Len(r.messages) : r.messages[i].role = "assistant"}
        BY <1>1, <2>2, <4>1 DEF Callers
      <4>3. Callers(r.messages) \in SUBSET (1..Len(r.messages)) /\ Callers(r.messages) # {}
        BY <1>1, <2>1, <4>2 DEF HasRole
      <4>4. Max(Callers(r.messages)) \in Callers(r.messages)
        <5>1. Len(r.messages) \in Nat
          BY <1>1
        <5> QED
          BY <4>3, <5>1, MaxOfSome
      <4>5. r.messages[Max(Callers(r.messages))].calls = <<tool>>
        BY <2>2, <4>1, <4>2, <4>4
      <4>6. CalledName(Last(<<tool>>)) = tool
        BY <4>1 DEF CalledName, Last
      <4> HIDE DEF body
      <4> QED
        BY <1>2, <1>3, <4>3, <4>5, <4>6 DEF LastToolName
    <3> QED
      BY <3>1, <3>2
  <2> HIDE DEF body
  <2>4. classify(RequestView(r.messages)) = "tool"
    BY <2>1 DEF classify, RequestView
  <2>5. Classify(body) = "tool"
    BY <1>2, <1>3, <2>1 DEF Classify
  <2> QED
    BY <2>1, <2>3, <2>4, <2>5, Zenon DEF Signals, body
<1> QED
  BY <1>4, <1>5

LEMMA SignalsOfQuery ==
    ASSUME NEW o \in Options, NEW q \in Questions(o), NEW r,
           r.messages = <<Msg("system", <<<<"system">>>>, <<>>), Msg("user", q, <<>>)>>,
           r.messages \in Seq(MessagesOf(o)), r.kind = "rag", r.tool_name = NoTool
    PROVE  Signals(r)
<1> DEFINE body == [messages |-> r.messages, tools |-> FALSE]
<1>1. body # NoBody /\ body.messages = r.messages /\ body.tools = FALSE
  BY MessagesAreBody
<1>2. /\ Len(r.messages) = 2 /\ DOMAIN r.messages = 1..2
      /\ r.messages[1].role = "system" /\ r.messages[2].role = "user" /\ r.messages[2].text = q
  BY DEF Msg
<1>3. q \in LongInChars \cap LongInTokens
  BY OnlyQueriesAreLong
<1>4. ~HasRole(r.messages, "tool") /\ Callers(r.messages) = {}
  BY <1>2 DEF HasRole, Callers
<1>5. Last(r.messages).text \in LongInChars \cap LongInTokens /\ r.messages # <<>>
  BY <1>2, <1>3 DEF Last
<1> HIDE DEF body
<1>6. classify(RequestView(r.messages)) = "rag"
  <2>1. ~RequestView(r.messages).hasToolMessages /\ RequestView(r.messages).lastIsLong
        /\ RequestView(r.messages).numMessages = 2
    BY <1>2, <1>4, <1>5, ViewOfMessages, Zenon
  <2> QED
    BY <2>1 DEF classify
<1>7. Classify(body) = "rag" /\ LastToolName(body) = NoTool
  BY <1>1, <1>2, <1>4, <1>5 DEF Classify, LastToolName
<1> QED
  BY <1>6, <1>7, Zenon DEF Signals, body

LEMMA SignalsOfOneShot ==
    ASSUME NEW o \in Options, NEW content, NEW r,
           r.messages = <<Msg("user", content, <<>>)>>,
           r.messages \in Seq(MessagesOf(o)), r.kind = "oneshot", r.tool_name = NoTool
    PROVE  Signals(r)
<1> DEFINE body == [messages |-> r.messages, tools |-> FALSE]
<1>1. body # NoBody /\ body.messages = r.messages /\ body.tools = FALSE
  BY MessagesAreBody
<1>2. Len(r.messages) = 1 /\ DOMAIN r.messages = 1..1 /\ r.messages[1].role = "user"
  BY DEF Msg
<1>3. ~HasRole(r.messages, "tool") /\ Callers(r.messages) = {}
  BY <1>2 DEF HasRole, Callers
<1> HIDE DEF body
<1>4. classify(RequestView(r.messages)) = "oneshot"
  BY <1>2, <1>3 DEF classify, RequestView
<1>5. Classify(body) = "oneshot" /\ LastToolName(body) = NoTool
  BY <1>1, <1>2, <1>3 DEF Classify, LastToolName
<1> QED
  BY <1>4, <1>5, Zenon DEF Signals, body

-----------------------------------------------------------------------------
(* The requests a step of the generator appends *)

LEMMA AppendedIsLast ==
    ASSUME NEW S, NEW s \in Seq(S), NEW r \in S
    PROVE  /\ Append(s, r) \in Seq(S) /\ Len(Append(s, r)) = Len(s) + 1 /\ Len(s) \in Nat
           /\ \A i \in 1..Len(s) : Append(s, r)[i] = s[i]
           /\ Append(s, r)[Len(s) + 1] = r
  OBVIOUS

\* A list of two, built by appending.
LEMMA TwoAppended ==
    ASSUME NEW S, NEW a \in S, NEW b \in S
    PROVE  Append(<<a>>, b) = <<a, b>> /\ <<a>> \in Seq(S)
<1> DEFINE u == <<a>>
<1>1. u \in Seq(S) /\ Len(u) = 1 /\ u[1] = a
  OBVIOUS
<1> HIDE DEF u
<1> DEFINE v == Append(u, b)
<1>2. v \in Seq(S) /\ Len(v) = 2 /\ v[1] = a /\ v[2] = b
  <2>1. /\ v \in Seq(S) /\ Len(v) = Len(u) + 1 /\ \A i \in 1..Len(u) : v[i] = u[i]
        /\ v[Len(u) + 1] = b
    <3>1. u \in Seq(S)
      BY <1>1, Zenon
    <3> QED
      BY <3>1
  <2> HIDE DEF v
  <2>2. Len(u) + 1 = 2 /\ 1 \in 1..Len(u)
    BY <1>1
  <2> QED
    BY <1>1, <2>1, <2>2, Zenon
<1> HIDE DEF v
<1>3. v = [i \in 1..2 |-> v[i]]
  BY <1>2
<1>4. \A i \in 1..2 : v[i] = IF i = 1 THEN a ELSE b
  BY <1>2
<1>5. v = [i \in 1..2 |-> IF i = 1 THEN a ELSE b]
  BY <1>3, <1>4
<1>6. <<a, b>> = [i \in 1..2 |-> IF i = 1 THEN a ELSE b]
  OBVIOUS
<1> QED
  BY <1>1, <1>5, <1>6 DEF u, v

LEMMA TokensOfSingle ==
    ASSUME NEW T, NEW S, Written(S, T), NEW msg \in S
    PROVE  Tokens(<<msg>>) = msg.text
<1>1. <<>> \in Seq(S) /\ Append(<<>>, msg) = <<msg>>
  OBVIOUS
<1>2. Tokens(Append(<<>>, msg)) = Tokens(<<>>) \o msg.text
  <2>1. PICK none \in Seq(S) : none = <<>>
    BY <1>1
  <2>2. Tokens(Append(none, msg)) = Tokens(none) \o msg.text
    BY TokensOfOneMore, SMTT(30)
  <2> QED
    BY <2>1, <2>2, Zenon
<1>3. msg.text \in Seq(T) /\ <<>> \o msg.text = msg.text
  BY DEF Written
<1> QED
  BY <1>1, <1>2, <1>3, TokensOfNone

LEMMA TokensOfPair ==
    ASSUME NEW T, NEW S, Written(S, T), NEW a \in S, NEW b \in S, Len(a.text) = 1,
           NEW messages, messages = <<a, b>>
    PROVE  /\ Tokens(messages) \in Seq(T) /\ Len(Tokens(messages)) = 1 + Len(b.text)
           /\ Tokens(messages)[1] = a.text[1]
           /\ \A k \in 1..Len(b.text) : Tokens(messages)[1 + k] = b.text[k]
<1>1. <<a>> \in Seq(S) /\ Append(<<a>>, b) = messages
  BY TwoAppended
<1>2. Tokens(Append(<<a>>, b)) = Tokens(<<a>>) \o b.text
  <2>1. PICK one \in Seq(S) : one = <<a>>
    BY <1>1
  <2>2. Tokens(Append(one, b)) = Tokens(one) \o b.text
    BY TokensOfOneMore, SMTT(30)
  <2> QED
    BY <2>1, <2>2, Zenon
<1>3. Tokens(<<a>>) = a.text
  BY TokensOfSingle
<1>4. PICK x \in Seq(T) : x = a.text /\ Len(x) = 1
  BY DEF Written
<1>5. PICK y \in Seq(T) : y = b.text
  BY DEF Written
<1>6. Tokens(messages) = x \o y
  BY <1>1, <1>2, <1>3, <1>4, <1>5
<1>7. /\ x \o y \in Seq(T) /\ Len(x \o y) = Len(x) + Len(y)
      /\ \A i \in 1..Len(x) : (x \o y)[i] = x[i]
      /\ \A k \in 1..Len(y) : (x \o y)[Len(x) + k] = y[k]
  OBVIOUS
<1>8. \A n : n = 1 => 1 \in 1..n
  OBVIOUS
<1> QED
  BY <1>4, <1>5, <1>6, <1>7, <1>8, Zenon

LEMMA NewRequest ==
    ASSUME options \in Options, NEW kind \in Class, NEW n \in 0..(Share(options, kind) - 1),
           NEW sid, sid = FirstSid(kind) + n, NEW turn \in Nat, NEW arrival \in Nat,
           NEW messages \in Seq(MessagesOf(options)), NEW tool \in ToolNames,
           Tokens(messages) \in Seq(Pieces(options)), Marked(Tokens(messages), kind, sid),
           Signals(TurnRequest(sid, turn, arrival, messages, kind, tool))
    PROVE  TurnRequest(sid, turn, arrival, messages, kind, tool) \in Requests(options)
<1> DEFINE r == TurnRequest(sid, turn, arrival, messages, kind, tool)
<1>1. /\ r.session_id = sid /\ r.turn_idx = turn /\ r.arrival = arrival /\ r.messages = messages
      /\ r.kind = kind /\ r.tool_name = tool
      /\ r.block_hashes = hash_blocks(Tokens(messages), options.block_size)
  BY DEF TurnRequest
<1>2. sid \in Nat /\ sid \in FirstSid(kind)..(FirstSid(kind) + Share(options, kind) - 1)
  <2>1. Share(options, kind) \in Nat
    BY ShareIsNat
  <2>2. FirstSid(kind) \in Nat
    BY DEF FirstSid, RAG_SID_BASE, ONESHOT_SID_BASE
  <2> QED
    BY <2>1, <2>2
<1>3. r.block_hashes \in Seq(Blocks(options))
  <2>1. options.block_size \in Nat \ {0} /\ Counted(Pieces(options))
    BY OptionsAreRuns, PiecesOfRun
  <2>2. hash_blocks(Tokens(messages), options.block_size) \in Seq(Blocks(options))
    BY <2>1, BlocksAreSpans DEF Blocks
  <2> QED
    BY <1>1, <2>2
<1>4. r \in [session_id : Nat, turn_idx : Nat, arrival : Nat, block_hashes : Seq(Blocks(options)),
             messages : Seq(MessagesOf(options)), kind : Class, tool_name : ToolNames]
  BY <1>1, <1>2, <1>3 DEF TurnRequest
<1> HIDE DEF r
<1>5. Signals(r)
  BY DEF r
<1>6. r \in Requests(options)
  BY <1>1, <1>2, <1>4, <1>5 DEF Requests
<1> QED
  BY <1>6 DEF r

\* A session id tells its class.
LEMMA KindBySid ==
    ASSUME NEW o \in Options, NEW p \in Requests(o), NEW class \in Class,
           NEW n \in 0..(Share(o, class) - 1), p.session_id = FirstSid(class) + n
    PROVE  p.kind = class
<1>1. p.kind \in Class /\ p.session_id \in FirstSid(p.kind)..(FirstSid(p.kind) + Share(o, p.kind) - 1)
  BY DEF Requests
<1>2. /\ Share(o, "tool") \in Nat /\ Share(o, "rag") \in Nat /\ Share(o, "oneshot") \in Nat
      /\ Share(o, "tool") <= 1000000 /\ Share(o, "rag") <= 1000000 /\ Share(o, "oneshot") <= 1000000
  BY ShareIsNat, SidsFit DEF Class, RAG_SID_BASE
<1> QED
  BY <1>1, <1>2 DEF Class, FirstSid, RAG_SID_BASE, ONESHOT_SID_BASE

\* Three messages bring their three texts.
LEMMA TokensOfTurn ==
    ASSUME NEW T, NEW S, Written(S, T), NEW msgs \in Seq(S),
           NEW a \in S, NEW b \in S, NEW c \in S, NEW reply,
           Len(a.text) = 1, a.text[1] = reply, Len(b.text) = 1, Len(c.text) = 1
    PROVE  LET more == Append(Append(Append(msgs, a), b), c)
           IN  /\ Tokens(msgs) \in Seq(T) /\ Tokens(more) \in Seq(T)
               /\ Len(Tokens(more)) = Len(Tokens(msgs)) + 3
               /\ Extends(Tokens(msgs), Tokens(more))
               /\ Tokens(more)[Len(Tokens(msgs)) + 1] = reply
<1> DEFINE more == Append(Append(Append(msgs, a), b), c)
<1>1. /\ Tokens(more) = ((Tokens(msgs) \o a.text) \o b.text) \o c.text
      /\ Tokens(msgs) \in Seq(T)
  <2> DEFINE m1 == Append(msgs, a)
             m2 == Append(m1, b)
  <2>1. m1 \in Seq(S) /\ m2 \in Seq(S)
    OBVIOUS
  <2>2. \A m \in Seq(S), msg \in S :
            Tokens(m) \in Seq(T) /\ Tokens(Append(m, msg)) = Tokens(m) \o msg.text
    BY TokensOfOneMore
  <2> QED
    BY <2>1, <2>2, Zenon
<1> HIDE DEF more
<1>2. PICK t \in Seq(T) : t = Tokens(msgs)
  BY <1>1
<1>3. PICK u \in Seq(T) : u = a.text /\ Len(u) = 1 /\ u[1] = reply
  BY DEF Written
<1>4. PICK v \in Seq(T) : v = b.text /\ Len(v) = 1
  BY DEF Written
<1>5. PICK w \in Seq(T) : w = c.text /\ Len(w) = 1
  BY DEF Written
<1>6. /\ t \o u \in Seq(T) /\ Len(t \o u) = Len(t) + Len(u) /\ Extends(t, t \o u)
      /\ \A i \in 1..Len(u) : (t \o u)[Len(t) + i] = u[i]
  BY ConcatExtends
<1>7. PICK t1 \in Seq(T) : t1 = t \o u
  BY <1>6
<1>8. t1 \o v \in Seq(T) /\ Len(t1 \o v) = Len(t1) + Len(v) /\ Extends(t1, t1 \o v)
  BY ConcatExtends
<1>9. PICK t2 \in Seq(T) : t2 = t1 \o v
  BY <1>8
<1>10. t2 \o w \in Seq(T) /\ Len(t2 \o w) = Len(t2) + Len(w) /\ Extends(t2, t2 \o w)
  BY ConcatExtends
<1>11. PICK t3 \in Seq(T) : t3 = t2 \o w
  BY <1>10
<1>12. PICK n \in Nat : n = Len(t) /\ Len(t1) = n + 1 /\ Len(t3) = n + 3
  <2>1. Len(t) \in Nat
    OBVIOUS
  <2>2. Len(t1) = Len(t) + 1
    BY <1>3, <1>6, <1>7, Zenon
  <2>3. Len(t2) = Len(t1) + 1
    BY <1>4, <1>8, <1>9, Zenon
  <2>4. Len(t3) = Len(t2) + 1
    BY <1>5, <1>10, <1>11, Zenon
  <2> QED
    BY <2>1, <2>2, <2>3, <2>4
<1>13. t1[Len(t) + 1] = reply
  BY <1>3, <1>6, <1>7
<1>14. Extends(t, t1) /\ Extends(t1, t2) /\ Extends(t2, t3)
  BY <1>6, <1>7, <1>8, <1>9, <1>10, <1>11
<1>15. Extends(t1, t3)
  BY <1>14, ExtendsIsTransitive
<1>16. Extends(t, t3)
  BY <1>14, <1>15, ExtendsIsTransitive
<1>17. t3[Len(t) + 1] = reply
  <2>1. Len(t) + 1 \in 1..Len(t1)
    BY <1>12
  <2> QED
    BY <1>13, <1>15, <2>1, Zenon DEF Extends
<1>18. t3 = Tokens(more)
  BY <1>1, <1>2, <1>3, <1>4, <1>5, <1>7, <1>9, <1>11
<1> QED
  BY <1>2, <1>12, <1>16, <1>17, <1>18 DEF more

\* A reply, a result and another question, as a turn appends them.
IsTurn(o, sid, turn, tool, a, b, c) ==
    /\ a \in MessagesOf(o) /\ b \in MessagesOf(o) /\ c \in MessagesOf(o)
    /\ a.role = "assistant" /\ a.calls = Calls(tool) /\ b.role = "tool" /\ c.role = "user"
    /\ Len(a.text) = 1 /\ Len(b.text) = 1 /\ Len(c.text) = 1
    /\ turn = 0 => a.text[1] = OwnText("tool", sid)

\* A conversation goes on by a turn.
LEMMA ConversationGoesOn ==
    ASSUME NEW o \in Options, NEW sid \in Nat, NEW turn \in Nat, NEW tool,
           NEW messages, Conversation(o, sid, turn, tool, messages),
           NEW a, NEW b, NEW c, IsTurn(o, sid, turn, tool, a, b, c)
    PROVE  /\ Conversation(o, sid, turn + 1, tool, Append(Append(Append(messages, a), b), c))
           /\ Extends(Tokens(messages), Tokens(Append(Append(Append(messages, a), b), c)))
           /\ Len(Tokens(Append(Append(Append(messages, a), b), c))) = Len(Tokens(messages)) + 3
<1> SUFFICES ASSUME NEW more, more = Append(Append(Append(messages, a), b), c)
             PROVE  /\ Conversation(o, sid, turn + 1, tool, more)
                    /\ Extends(Tokens(messages), Tokens(more))
                    /\ Len(Tokens(more)) = Len(Tokens(messages)) + 3
  OBVIOUS
<1>0. /\ a \in MessagesOf(o) /\ b \in MessagesOf(o) /\ c \in MessagesOf(o)
      /\ a.role = "assistant" /\ a.calls = Calls(tool) /\ b.role = "tool" /\ c.role = "user"
      /\ Len(a.text) = 1 /\ Len(b.text) = 1 /\ Len(c.text) = 1
      /\ turn = 0 => a.text[1] = OwnText("tool", sid)
  BY DEF IsTurn
<1> DEFINE S == MessagesOf(o)
           T == Pieces(o)
           grown == Append(Append(Append(messages, a), b), c)
           reply == a.text[1]
<1>1. messages \in Seq(S)
  BY DEF Conversation
<1>2. more = grown
  OBVIOUS
<1>3. Written(S, T)
  BY PiecesOfRun
<1>4. /\ Tokens(messages) \in Seq(T) /\ Tokens(grown) \in Seq(T)
      /\ Len(Tokens(grown)) = Len(Tokens(messages)) + 3
      /\ Extends(Tokens(messages), Tokens(grown))
      /\ Tokens(grown)[Len(Tokens(messages)) + 1] = reply
  <2> HIDE DEF S, T
  <2>1. a \in S /\ b \in S /\ c \in S
    BY <1>0 DEF S
  <2> QED
    BY <1>0, <1>1, <1>3, <2>1, TokensOfTurn
<1>5. Len(Tokens(messages)) = 2 + 3 * turn /\ Marked(Tokens(messages), "tool", sid)
  BY DEF Conversation
<1>6. Marked(Tokens(more), "tool", sid)
  <2> HIDE DEF grown
  <2>1. turn = 0 => reply = OwnText("tool", sid)
    BY <1>0
  <2> HIDE DEF reply
  <2>2. \A i \in 1..Len(Tokens(messages)) : Tokens(more)[i] = Tokens(messages)[i]
    BY <1>2, <1>4 DEF Extends
  <2>3. CASE turn = 0
    <3>1. Len(Tokens(messages)) = 2 /\ Tokens(more)[3] = reply
      BY <1>2, <1>4, <1>5, <2>3
    <3>2. Tokens(more)[1] = Tokens(messages)[1] /\ Tokens(more)[2] = Tokens(messages)[2]
      BY <2>2, <3>1
    <3> QED
      BY <1>2, <1>4, <1>5, <2>1, <2>3, <3>1, <3>2 DEF Marked
  <2>4. CASE turn # 0
    <3>1. Len(Tokens(messages)) >= 5
      BY <1>5, <2>4
    <3>2. /\ Tokens(more)[1] = Tokens(messages)[1] /\ Tokens(more)[2] = Tokens(messages)[2]
          /\ Tokens(more)[3] = Tokens(messages)[3]
      BY <1>5, <2>2, <3>1
    <3> QED
      BY <1>2, <1>4, <1>5, <3>1, <3>2 DEF Marked
  <2> QED
    BY <2>3, <2>4
<1>7. /\ more \in Seq(S) /\ Len(more) = Len(messages) + 3 /\ Len(messages) \in Nat
      /\ \A i \in 1..Len(messages) : more[i] = messages[i]
      /\ more[Len(messages) + 1] = a /\ more[Len(messages) + 2] = b /\ more[Len(messages) + 3] = c
  BY <1>0, <1>1
<1> HIDE DEF grown, reply
<1>8. PICK n \in Nat : n = Len(messages) /\ Len(more) = n + 3 /\ DOMAIN more = 1..(n + 3)
  BY <1>7
<1>9. \A i \in 1..Len(more) : more[i].role = "assistant" => more[i].calls = Calls(tool)
  <2> SUFFICES ASSUME NEW i \in 1..Len(more), more[i].role = "assistant"
               PROVE  more[i].calls = Calls(tool)
    OBVIOUS
  <2>1. i \in 1..n \/ i = n + 1 \/ i = n + 2 \/ i = n + 3
    BY <1>8
  <2> QED
    BY <1>0, <1>7, <1>8, <2>1 DEF Conversation
<1>10. HasRole(more, "tool") /\ HasRole(more, "assistant")
  <2>1. n + 1 \in DOMAIN more /\ n + 2 \in DOMAIN more
    BY <1>8
  <2> QED
    BY <1>0, <1>7, <1>8, <2>1 DEF HasRole
<1>11. Len(Tokens(more)) = 2 + 3 * (turn + 1) /\ turn + 1 # 0
  BY <1>2, <1>4, <1>5
<1> HIDE DEF T
<1>12. Conversation(o, sid, turn + 1, tool, more)
  BY <1>2, <1>4, <1>6, <1>7, <1>9, <1>10, <1>11 DEF Conversation, T
<1> QED
  BY <1>2, <1>4, <1>12

LEMMA OpeningMessages ==
    ASSUME NEW o \in Options, NEW u \in 1..UserPrompts, NEW tool \in ToolNames, NEW sid,
           NEW messages,
           messages = <<Msg("system", <<<<"system">>>>, <<>>), Msg("user", <<<<"user", u>>>>, <<>>)>>
    PROVE  Conversation(o, sid, 0, tool, messages)
<1> DEFINE a == Msg("system", <<<<"system">>>>, <<>>)
           b == Msg("user", <<<<"user", u>>>>, <<>>)
           S == MessagesOf(o)
           T == Pieces(o)
<1>1. <<<<"system">>>> \in Contents(o) /\ <<<<"user", u>>>> \in Contents(o)
      /\ <<<<"user", u>>>> \in Openers
  BY DEF Contents, Openers
<1>2. a \in S /\ b \in S
  BY <1>1 DEF MessagesOf, Msg, Role
<1>3. a.role = "system" /\ b.role = "user" /\ a.text = <<<<"system">>>> /\ b.text = <<<<"user", u>>>>
  BY DEF Msg
<1> HIDE DEF a, b, S, T
<1>4. Written(S, T)
  BY PiecesOfRun DEF S, T
<1>5. Len(a.text) = 1 /\ a.text[1] = <<"system">>
  BY <1>3
<1>6. Len(b.text) = 1 /\ b.text[1][1] = "user" /\ 1 \in 1..Len(b.text)
  BY <1>3
<1>7. messages = <<a, b>>
  BY DEF a, b
<1>8. /\ Tokens(messages) \in Seq(T) /\ Len(Tokens(messages)) = 1 + Len(b.text)
      /\ Tokens(messages)[1] = a.text[1]
      /\ \A k \in 1..Len(b.text) : Tokens(messages)[1 + k] = b.text[k]
  BY <1>2, <1>4, <1>5, <1>7, TokensOfPair
<1>9. PICK t \in Seq(T) : t = Tokens(messages) /\ Len(t) = 2 /\ t[1] = <<"system">> /\ t[2][1] = "user"
  <2>1. Tokens(messages)[1 + 1] = b.text[1]
    BY <1>6, <1>8, Zenon
  <2>2. Len(Tokens(messages)) = 2 /\ Tokens(messages)[2] = b.text[1]
    BY <1>6, <1>8, <2>1
  <2> QED
    BY <1>5, <1>6, <1>8, <2>2, Zenon
<1>10. Marked(t, "tool", sid)
  <2>1. \A n : n = 2 => ~(n >= 3) /\ n >= 2
    OBVIOUS
  <2> QED
    BY <1>9, <2>1, Zenon DEF Marked
<1>11. /\ messages \in Seq(S) /\ Len(messages) = 2 /\ DOMAIN messages = 1..2
       /\ messages[1] = a /\ messages[2] = b
  BY <1>2, <1>7
<1> HIDE DEF S, T
<1>12. \A i \in 1..Len(messages) :
            messages[i].role = "assistant" => messages[i].calls = Calls(tool)
  BY <1>3, <1>11
<1>13. messages[2].text \in Openers
  BY <1>1, <1>3, <1>11
<1> QED
  <2>1. /\ Tokens(messages) \in Seq(T) /\ Len(Tokens(messages)) = 2 + 3 * 0
        /\ Marked(Tokens(messages), "tool", sid)
    BY <1>9, <1>10
  <2>2. messages[1].role = "system" /\ messages[2].role = "user"
    BY <1>3, <1>11
  <2> QED
    BY <1>11, <1>12, <1>13, <2>1, <2>2, Zenon DEF Conversation, S, T

LEMMA QueryMessages ==
    ASSUME NEW o \in Options, NEW doc \in 1..RagDocs, NEW i \in 0..(Share(o, "rag") - 1),
           NEW q, q = <<<<"doc", doc>>, <<"question", i>>>>,
           NEW messages,
           messages = <<Msg("system", <<<<"system">>>>, <<>>), Msg("user", q, <<>>)>>
    PROVE  /\ q \in Questions(o) /\ messages \in Seq(MessagesOf(o))
           /\ Tokens(messages) \in Seq(Pieces(o))
           /\ Marked(Tokens(messages), "rag", RAG_SID_BASE + i)
<1> DEFINE a == Msg("system", <<<<"system">>>>, <<>>)
           b == Msg("user", q, <<>>)
           S == MessagesOf(o)
           T == Pieces(o)
<1>1. <<<<"system">>>> \in Contents(o) /\ q \in Contents(o) /\ q \in Questions(o)
  BY DEF Contents, Questions
<1>2. a \in S /\ b \in S
  BY <1>1 DEF MessagesOf, Msg, Role
<1>3. a.text = <<<<"system">>>> /\ b.text = q
  BY DEF Msg
<1> HIDE DEF a, b, S, T
<1>4. Written(S, T)
  BY PiecesOfRun DEF S, T
<1>5. Len(a.text) = 1 /\ a.text[1] = <<"system">>
  BY <1>3
<1>6. /\ Len(b.text) = 2 /\ b.text[1] = <<"doc", doc>> /\ b.text[2] = <<"question", i>>
      /\ 1 \in 1..Len(b.text) /\ 2 \in 1..Len(b.text)
  BY <1>3
<1>7. messages = <<a, b>>
  BY DEF a, b
<1>8. /\ Tokens(messages) \in Seq(T) /\ Len(Tokens(messages)) = 1 + Len(b.text)
      /\ Tokens(messages)[1] = a.text[1]
      /\ \A k \in 1..Len(b.text) : Tokens(messages)[1 + k] = b.text[k]
  BY <1>2, <1>4, <1>5, <1>7, TokensOfPair
<1>9. PICK t \in Seq(T) : /\ t = Tokens(messages) /\ Len(t) = 3
                         /\ t[1] = <<"system">> /\ t[2] = <<"doc", doc>> /\ t[3] = <<"question", i>>
  <2>1. 1 + Len(b.text) = 3 /\ 1 + 1 = 2 /\ 1 + 2 = 3
    BY <1>6
  <2> QED
    BY <1>5, <1>6, <1>8, <2>1, Zenon
<1>10. Marked(t, "rag", RAG_SID_BASE + i)
  <2>1. (RAG_SID_BASE + i) - RAG_SID_BASE = i
    BY DEF RAG_SID_BASE
  <2>2. OwnText("rag", RAG_SID_BASE + i) = <<"question", i>>
    BY <2>1 DEF OwnText
  <2>3. t[2][1] = "doc"
    BY <1>9, SMTT(30)
  <2>4. Len(t) >= 2 /\ "rag" # "oneshot"
    BY <1>9
  <2> QED
    BY <1>9, <2>2, <2>3, <2>4, Zenon DEF Marked
<1>11. messages \in Seq(S)
  BY <1>2, <1>7
<1> QED
  BY <1>1, <1>8, <1>9, <1>10, <1>11 DEF S, T

LEMMA OneShotMessages ==
    ASSUME NEW o \in Options, NEW i \in 0..(Share(o, "oneshot") - 1),
           NEW messages, messages = <<Msg("user", <<<<"oneshot", i>>>>, <<>>)>>
    PROVE  /\ messages \in Seq(MessagesOf(o))
           /\ Tokens(messages) \in Seq(Pieces(o))
           /\ Marked(Tokens(messages), "oneshot", ONESHOT_SID_BASE + i)
<1> DEFINE a == Msg("user", <<<<"oneshot", i>>>>, <<>>)
           S == MessagesOf(o)
           T == Pieces(o)
<1>1. <<<<"oneshot", i>>>> \in Contents(o)
  BY DEF Contents
<1>2. a \in S /\ a.text = <<<<"oneshot", i>>>>
  BY <1>1 DEF MessagesOf, Msg, Role
<1> HIDE DEF a, S, T
<1>3. Written(S, T)
  BY PiecesOfRun DEF S, T
<1>4. messages = <<a>>
  BY DEF a
<1>5. Tokens(messages) = a.text
  BY <1>2, <1>3, <1>4, TokensOfSingle
<1>6. Tokens(messages) \in Seq(T)
  BY <1>2, <1>3, <1>5 DEF Written
<1>7. Marked(Tokens(messages), "oneshot", ONESHOT_SID_BASE + i)
  <2>1. (ONESHOT_SID_BASE + i) - ONESHOT_SID_BASE = i
    BY DEF ONESHOT_SID_BASE
  <2>2. OwnText("oneshot", ONESHOT_SID_BASE + i) = <<"oneshot", i>>
    BY <2>1 DEF OwnText
  <2> QED
    BY <1>2, <1>5, <2>2 DEF Marked
<1>8. messages \in Seq(S)
  BY <1>2, <1>4
<1> QED
  BY <1>6, <1>7, <1>8 DEF S, T

-----------------------------------------------------------------------------
(* The invariant holds *)

\* The fields of a request of the stream.
LEMMA FieldsOfRequests ==
    ASSUME NEW o \in Options, NEW r \in Requests(o)
    PROVE  /\ r.session_id \in Nat /\ r.turn_idx \in Nat /\ r.arrival \in Nat /\ r.kind \in Class
           /\ r.messages \in Seq(MessagesOf(o)) /\ Tokens(r.messages) \in Seq(Pieces(o))
           /\ r.block_hashes = hash_blocks(Tokens(r.messages), o.block_size)
           /\ r.block_hashes \in Seq(Blocks(o))
           /\ r.session_id \in FirstSid(r.kind)..(FirstSid(r.kind) + Share(o, r.kind) - 1)
           /\ Marked(Tokens(r.messages), r.kind, r.session_id)
           /\ Signals(r)
  BY DEF Requests

LEMMA InitHasStreamInv == Init => StreamInv
<1> SUFFICES ASSUME Init PROVE StreamInv
  OBVIOUS
<1>1. /\ options \in Options /\ requests = <<>> /\ sorted = FALSE
      /\ clock = [class \in Class |-> 0] /\ count = [class \in Class |-> 0]
  BY DEF Init
<1>2. options.turns \in Nat \ {0}
  BY <1>1, OptionsAreRuns
<1>3. \A class \in Class : Share(options, class) \in Nat
  BY <1>1, ShareIsNat
<1>4. Generated
  <2>1. <<>> \in Seq(Requests(options))
    OBVIOUS
  <2>2. \A class \in Class : count[class] = 0 /\ 0 <= Share(options, class)
    BY <1>1, <1>3
  <2>3. count \in [Class -> Nat] /\ clock \in [Class -> Nat] /\ sorted \in BOOLEAN
    BY <1>1
  <2> QED
    BY <1>1, <2>1, <2>2, <2>3 DEF Generated
<1>5. UnderWay
  <2>1. count["tool"] = 0
    BY <1>1 DEF Class
  <2>2. session = [session_id |-> 0, turn_idx |-> options.turns - 1, arrival |-> 0,
                   tool |-> NoTool, messages |-> <<>>]
    BY DEF Init
  <2>3. options.turns - 1 \in Nat /\ options.turns - 1 < options.turns
    BY <1>2
  <2>4. <<>> \in Seq(MessagesOf(options)) /\ NoTool \in ToolNames
    BY DEF ToolNames
  <2> QED
    BY <2>1, <2>2, <2>3, <2>4 DEF UnderWay, SessionDone
<1>6. 1..Len(requests) = {}
  BY <1>1
<1> QED
  BY <1>4, <1>5, <1>6 DEF StreamInv

\* A step that appends a request, after what went before it, keeps the rest.
LEMMA StreamGrows ==
    ASSUME StreamInv, NEW r \in Requests(options), options' = options,
           requests' = Append(requests, r), count' \in [Class -> Nat], clock' \in [Class -> Nat],
           \A class \in Class : count'[class] <= Share(options, class),
           sorted' = sorted, UnderWay', Begun(r)',
           \A q \in Requests(options) : Begun(q) => Begun(q)' /\ Precedes(q, r)
    PROVE  StreamInv'
<1>1. /\ requests \in Seq(Requests(options)) /\ options \in Options /\ sorted \in BOOLEAN
      /\ \A i \in 1..Len(requests) : Begun(requests[i])
      /\ \A i, j \in 1..Len(requests) : i < j => Precedes(requests[i], requests[j])
  BY DEF StreamInv, Generated
<1>2. PICK n \in Nat : n = Len(requests)
  BY <1>1
<1>3. /\ requests' \in Seq(Requests(options)) /\ Len(requests') = n + 1
      /\ \A i \in 1..n : requests'[i] = requests[i] /\ requests[i] \in Requests(options)
      /\ requests'[n + 1] = r
  BY <1>1, <1>2
<1>4. Generated'
  BY <1>1, <1>3 DEF Generated
<1>5. ASSUME NEW i \in 1..Len(requests') PROVE Begun(requests[i])'
  <2>1. CASE i \in 1..n
    <3>1. PICK q \in Requests(options) : q = requests[i] /\ requests'[i] = q
      BY <1>3, <2>1
    <3>2. Begun(q)'
      BY <1>1, <1>2, <2>1, <3>1
    <3> QED
      BY <3>1, <3>2 DEF Begun
  <2>2. CASE i = n + 1
    BY <1>3, <2>2 DEF Begun
  <2> QED
    BY <1>3, <2>1, <2>2
<1>6. ASSUME NEW i \in 1..Len(requests'), NEW j \in 1..Len(requests'), i < j
      PROVE  Precedes(requests'[i], requests'[j])
  <2>1. i \in 1..n
    BY <1>3, <1>6
  <2>2. CASE j \in 1..n
    BY <1>1, <1>2, <1>3, <1>6, <2>1, <2>2, Zenon
  <2>3. CASE j = n + 1
    BY <1>1, <1>2, <1>3, <2>1, <2>3
  <2> QED
    BY <1>3, <2>2, <2>3
<1>7. \A i, j \in 1..Len(requests') : i < j => Precedes(requests'[i], requests'[j])
  BY <1>6
<1> QED
  BY <1>4, <1>5, <1>7 DEF StreamInv

LEMMA OpenSessionKeeps == StreamInv /\ OpenSession => StreamInv'
<1> SUFFICES ASSUME StreamInv, OpenSession PROVE StreamInv'
  OBVIOUS
<1>1. /\ options \in Options /\ count \in [Class -> Nat] /\ clock \in [Class -> Nat]
      /\ \A class \in Class : count[class] <= Share(options, class)
      /\ options' = options /\ sorted' = sorted
  BY DEF StreamInv, Generated, OpenSession
<1>2a. PICK gap \in Gaps, u \in 1..UserPrompts, tool \in ToolNames : \E messages :
        /\ messages = <<Msg("system", <<<<"system">>>>, <<>>), Msg("user", <<<<"user", u>>>>, <<>>)>>
        /\ count' = [count EXCEPT !["tool"] = @ + 1]
        /\ clock' = [clock EXCEPT !["tool"] = @ + gap]
        /\ session' = [session_id |-> count["tool"], turn_idx |-> 0, tool |-> tool,
                       arrival |-> clock'["tool"], messages |-> messages]
        /\ requests' = Append(requests,
                TurnRequest(count["tool"], 0, clock'["tool"], messages, "tool", NoTool))
  <2>1. \A tool \in (IF options.tool_reliability THEN Tool ELSE {NoTool}) : tool \in ToolNames
    BY DEF ToolNames
  <2> QED
    BY <2>1, Zenon DEF OpenSession, Opened
<1>2. PICK messages :
        /\ messages = <<Msg("system", <<<<"system">>>>, <<>>), Msg("user", <<<<"user", u>>>>, <<>>)>>
        /\ count' = [count EXCEPT !["tool"] = @ + 1]
        /\ clock' = [clock EXCEPT !["tool"] = @ + gap]
        /\ session' = [session_id |-> count["tool"], turn_idx |-> 0, tool |-> tool,
                       arrival |-> clock'["tool"], messages |-> messages]
        /\ requests' = Append(requests,
                TurnRequest(count["tool"], 0, clock'["tool"], messages, "tool", NoTool))
  BY <1>2a, Zenon
<1>3. PICK n \in Nat : n = count["tool"]
  BY <1>1 DEF Class
<1>4. Share(options, "tool") \in Nat
  BY <1>1, ShareIsNat DEF Class
<1>5. n \in 0..(Share(options, "tool") - 1)
  <2>1. n # Share(options, "tool") /\ n <= Share(options, "tool")
    BY <1>1, <1>3 DEF OpenSession, Done, Budget, Class
  <2> QED
    BY <1>4, <2>1
<1>6. PICK arrival \in Nat : arrival = clock'["tool"]
  BY <1>1, <1>2, DelaysAreNat DEF Class
<1>7. Conversation(options, n, 0, tool, messages)
  BY <1>1, <1>2, OpeningMessages
<1>8. PICK r : r = TurnRequest(n, 0, arrival, messages, "tool", NoTool)
  OBVIOUS
<1>9. /\ r.session_id = n /\ r.turn_idx = 0 /\ r.arrival = arrival /\ r.messages = messages
      /\ r.kind = "tool" /\ r.tool_name = NoTool
  BY <1>8 DEF TurnRequest
<1>10. r \in Requests(options)
  <2>1. Signals(r)
    <3>1. 0 \in Nat /\ Conversation(options, n, 0, tool, r.messages)
          /\ r.tool_name = IF 0 = 0 THEN NoTool ELSE tool
      BY <1>7, <1>9
    <3> QED
      BY <1>1, <1>2, <1>9, <3>1, SignalsOfSession, Zenon
  <2>2. n = FirstSid("tool") + n /\ "tool" \in Class /\ NoTool \in ToolNames /\ 0 \in Nat
    BY DEF FirstSid, Class, ToolNames
  <2>3. /\ messages \in Seq(MessagesOf(options)) /\ Tokens(messages) \in Seq(Pieces(options))
        /\ Marked(Tokens(messages), "tool", n)
    BY <1>7 DEF Conversation
  <2> QED
    BY <1>1, <1>5, <1>8, <2>1, <2>2, <2>3, NewRequest, Zenon
<1>11. /\ count' \in [Class -> Nat] /\ clock' \in [Class -> Nat] /\ count'["tool"] = n + 1
       /\ \A class \in Class : count[class] <= count'[class] /\ count'[class] <= Share(options, class)
  <2>1. "tool" \in Class /\ n + 1 \in Nat /\ n + 1 <= Share(options, "tool")
    BY <1>4, <1>5 DEF Class
  <2>2. count' \in [Class -> Nat] /\ count'["tool"] = n + 1
        /\ \A class \in Class : class # "tool" => count'[class] = count[class]
    BY <1>1, <1>2, <1>3, <2>1
  <2>3. clock' \in [Class -> Nat]
    <3>1. clock["tool"] + gap \in Nat
      BY <1>1, <2>1, DelaysAreNat
    <3> QED
      BY <1>1, <1>2, <3>1
  <2> QED
    BY <1>1, <1>3, <2>1, <2>2, <2>3
<1>12. session' = [session_id |-> n, turn_idx |-> 0, tool |-> tool, arrival |-> arrival,
                   messages |-> messages]
  BY <1>2, <1>3, <1>6
<1>13. UnderWay'
  <2>1. messages \in Seq(MessagesOf(options))
    BY <1>7 DEF Conversation
  <2>2. 0 < options.turns
    BY <1>1, OptionsAreRuns
  <2>3. /\ session'.session_id = n /\ session'.turn_idx = 0 /\ session'.tool = tool
        /\ session'.arrival = arrival /\ session'.messages = messages
    BY <1>12
  <2>4. session' \in [session_id : Nat, turn_idx : Nat, arrival : Nat, tool : ToolNames,
                      messages : Seq(MessagesOf(options))]
    BY <1>12, <2>1
  <2>5. count'["tool"] # 0 /\ n = count'["tool"] - 1
    BY <1>11
  <2> QED
    BY <1>1, <1>7, <2>2, <2>3, <2>4, <2>5 DEF UnderWay
<1>14. Begun(r)'
  <2>1. Tokens(messages) \in Seq(Pieces(options))
    BY <1>7 DEF Conversation
  <2>2. Extends(Tokens(messages), Tokens(messages))
    BY <2>1, ExtendsIsReflexive
  <2>3. session'.turn_idx = 0 /\ session'.arrival = arrival /\ session'.messages = messages
    BY <1>12
  <2>4. n < FirstSid("tool") + count'["tool"]
    BY <1>11 DEF FirstSid
  <2> QED
    BY <1>9, <2>2, <2>3, <2>4 DEF Begun
<1>15. ASSUME NEW q \in Requests(options), Begun(q) PROVE Begun(q)' /\ Precedes(q, r)
  <2>1. q.session_id \in Nat /\ q.kind \in Class
    BY <1>1, FieldsOfRequests
  <2>2. q.session_id < FirstSid(q.kind) + count[q.kind]
    BY <1>15 DEF Begun
  <2>3. q.kind = "tool" => q.session_id < n
    BY <1>3, <2>2 DEF FirstSid
  <2>4. q.session_id # n
    <3>1. n = FirstSid("tool") + n /\ "tool" \in Class
      BY DEF FirstSid, Class
    <3>2. q.session_id = n => q.kind = "tool"
      BY <1>1, <1>5, <3>1, KindBySid
    <3> QED
      BY <2>1, <2>3, <3>2
  <2>5. q.session_id < FirstSid(q.kind) + count'[q.kind]
    <3>1. FirstSid(q.kind) \in Nat /\ count[q.kind] \in Nat /\ count'[q.kind] \in Nat
      BY <1>1, <1>11, <2>1 DEF FirstSid, RAG_SID_BASE, ONESHOT_SID_BASE
    <3> QED
      BY <1>11, <2>1, <2>2, <3>1
  <2>6. session'.session_id = n
    BY <1>12
  <2> QED
    BY <1>9, <2>4, <2>5, <2>6 DEF Begun, Precedes
<1> QED
  BY <1>1, <1>2, <1>3, <1>6, <1>8, <1>10, <1>11, <1>13, <1>14, <1>15, StreamGrows

LEMMA ExtendSessionKeeps == StreamInv /\ ExtendSession => StreamInv'
<1> SUFFICES ASSUME StreamInv, ExtendSession PROVE StreamInv'
  OBVIOUS
<1>1. /\ options \in Options /\ count \in [Class -> Nat] /\ clock \in [Class -> Nat]
      /\ \A class \in Class : count[class] <= Share(options, class)
      /\ options' = options /\ clock' = clock /\ count' = count /\ sorted' = sorted
  BY DEF StreamInv, Generated, ExtendSession
<1>2a. PICK sid \in Nat, turn \in Nat, before \in Nat, tool \in ToolNames : \E messages :
        /\ sid = session.session_id /\ turn = session.turn_idx /\ before = session.arrival
        /\ tool = session.tool /\ messages = session.messages
  BY DEF StreamInv, UnderWay
<1>2. PICK messages :
        /\ sid = session.session_id /\ turn = session.turn_idx /\ before = session.arrival
        /\ tool = session.tool /\ messages = session.messages
  BY <1>2a, Zenon
<1>3. session \in [session_id : Nat, turn_idx : Nat, arrival : Nat, tool : ToolNames,
                   messages : Seq(MessagesOf(options))]
  BY DEF StreamInv, UnderWay
<1>4. PICK turns \in Nat \ {0} : turns = options.turns
  BY <1>1, OptionsAreRuns
<1>5. turn < turns /\ turn # turns - 1 /\ count["tool"] # 0
  BY <1>2, <1>4 DEF StreamInv, UnderWay, ExtendSession, SessionDone
<1>6. sid = count["tool"] - 1 /\ Conversation(options, sid, turn, tool, messages)
  BY <1>2, <1>5 DEF StreamInv, UnderWay
<1>7. sid \in 0..(Share(options, "tool") - 1) /\ turn + 1 \in 1..(turns - 1)
  <2>1. Share(options, "tool") \in Nat /\ count["tool"] \in Nat
        /\ count["tool"] <= Share(options, "tool")
    BY <1>1, ShareIsNat DEF Class
  <2> QED
    BY <1>4, <1>5, <1>6, <2>1
<1> DEFINE tag == <<sid, turn + 1>>
           Drawn == {<<"result", tag>>} \cup {<<"canned", k>> : k \in 1..CannedResults}
                        \cup IF tool = NoTool THEN {} ELSE {<<"error", tag>>}
           a == Msg("assistant", <<<<"reply", tag>>>>, Calls(tool))
           c == Msg("user", <<<<"next", tag>>>>, <<>>)
<1>8a. PICK result \in Drawn : \E told, more :
        /\ told = Msg("tool", <<result>>, <<>>)
        /\ more = messages \o <<a, told, c>>
        /\ session' = [session EXCEPT !.turn_idx = turn + 1, !.arrival = NextArrival(result),
                                      !.messages = more]
        /\ requests' = Append(requests,
                TurnRequest(sid, turn + 1, NextArrival(result), more, "tool", tool))
  BY <1>2 DEF ExtendSession, Results, Segment
<1>8. PICK told, more :
        /\ told = Msg("tool", <<result>>, <<>>)
        /\ more = messages \o <<a, told, c>>
        /\ session' = [session EXCEPT !.turn_idx = turn + 1, !.arrival = NextArrival(result),
                                      !.messages = more]
        /\ requests' = Append(requests,
                TurnRequest(sid, turn + 1, NextArrival(result), more, "tool", tool))
  BY <1>8a, Zenon
<1>9. /\ a \in MessagesOf(options) /\ told \in MessagesOf(options) /\ c \in MessagesOf(options)
      /\ a.role = "assistant" /\ a.calls = Calls(tool) /\ told.role = "tool" /\ c.role = "user"
      /\ Len(a.text) = 1 /\ Len(told.text) = 1 /\ Len(c.text) = 1
      /\ turn = 0 => a.text[1] = OwnText("tool", sid)
  <2>1. turn + 1 \in 1..(options.turns - 1)
    BY <1>4, <1>7
  <2>2. <<<<"reply", tag>>>> \in Contents(options) /\ <<<<"next", tag>>>> \in Contents(options)
    BY <1>7, <2>1 DEF Contents
  <2>3. <<result>> \in Contents(options)
    <3>1. CASE result = <<"result", tag>>
      BY <1>7, <2>1, <3>1 DEF Contents
    <3>2. CASE result = <<"error", tag>>
      BY <1>7, <2>1, <3>2 DEF Contents
    <3>3. CASE result \in {<<"canned", k>> : k \in 1..CannedResults}
      BY <3>3 DEF Contents
    <3> QED
      BY <1>8, <3>1, <3>2, <3>3
  <2>4. Calls(tool) \in {<<>>} \cup {<<t>> : t \in Tool}
    BY DEF Calls, ToolNames
  <2>5. a \in MessagesOf(options) /\ c \in MessagesOf(options)
    BY <2>2, <2>4 DEF MessagesOf, Msg, Role
  <2>6. told \in MessagesOf(options)
    BY <1>8, <2>3 DEF MessagesOf, Msg, Role
  <2>7. turn = 0 => <<"reply", tag>> = OwnText("tool", sid)
    <3>1. turn = 0 => turn + 1 = 1
      OBVIOUS
    <3> QED
      BY <3>1 DEF OwnText
  <2>8. a.role = "assistant" /\ a.calls = Calls(tool) /\ a.text = <<<<"reply", tag>>>>
    BY DEF Msg
  <2>9. c.role = "user" /\ c.text = <<<<"next", tag>>>>
    BY DEF Msg
  <2>10. told.role = "tool" /\ told.text = <<result>>
    BY <1>8 DEF Msg
  <2>11. \A x : Len(<<x>>) = 1 /\ <<x>>[1] = x
    OBVIOUS
  <2> HIDE DEF a, c, tag
  <2> QED
    BY <2>5, <2>6, <2>7, <2>8, <2>9, <2>10, <2>11
<1> HIDE DEF a, c, Drawn
<1>10. /\ Conversation(options, sid, turn + 1, tool, more)
       /\ Extends(Tokens(messages), Tokens(more))
       /\ Len(Tokens(more)) = Len(Tokens(messages)) + 3
  <2>1. messages \in Seq(MessagesOf(options))
    BY <1>6 DEF Conversation
  <2>2. messages \o <<a, told, c>> = Append(Append(Append(messages, a), told), c)
    BY <1>9, <2>1
  <2>3. more = Append(Append(Append(messages, a), told), c)
    BY <1>8, <2>2, Zenon
  <2> QED
    <3>1. IsTurn(options, sid, turn, tool, a, told, c)
      BY <1>9 DEF IsTurn
    <3>2. /\ Conversation(options, sid, turn + 1, tool,
                        Append(Append(Append(messages, a), told), c))
          /\ Extends(Tokens(messages), Tokens(Append(Append(Append(messages, a), told), c)))
          /\ Len(Tokens(Append(Append(Append(messages, a), told), c))) = Len(Tokens(messages)) + 3
      BY <1>1, <1>6, <3>1, ConversationGoesOn
    <3> QED
      BY <2>3, <3>2, Zenon
<1>11. PICK arrival \in Nat : arrival = NextArrival(result) /\ before <= arrival
  <2>1. RetryGap \in Nat /\ ThinkTime \in Nat /\ NominalTurn \in Nat
        /\ (tool # NoTool => SuccessLatency[tool] \in Nat)
    BY DelaysAreNat DEF ToolNames
  <2>2. \/ NextArrival(result) = before + RetryGap
        \/ NextArrival(result) = before + (ThinkTime + NominalTurn)
        \/ tool # NoTool /\ NextArrival(result) = before + (ThinkTime + SuccessLatency[tool])
    BY <1>2, Zenon DEF NextArrival
  <2> QED
    BY <2>1, <2>2
<1>12. PICK r : r = TurnRequest(sid, turn + 1, arrival, more, "tool", tool)
  OBVIOUS
<1>13. /\ r.session_id = sid /\ r.turn_idx = turn + 1 /\ r.arrival = arrival /\ r.messages = more
       /\ r.kind = "tool" /\ r.tool_name = tool
  BY <1>12 DEF TurnRequest
<1>14. r \in Requests(options)
  <2>1. Signals(r)
    <3>1. turn + 1 \in Nat /\ turn + 1 # 0
      OBVIOUS
    <3>2. r.tool_name = IF turn + 1 = 0 THEN NoTool ELSE tool
      BY <1>13, <3>1, Zenon
    <3> QED
      BY <1>1, <1>10, <1>13, <3>1, <3>2, SignalsOfSession
  <2>2. sid = FirstSid("tool") + sid /\ "tool" \in Class /\ turn + 1 \in Nat
    BY DEF FirstSid, Class
  <2>3. /\ more \in Seq(MessagesOf(options)) /\ Tokens(more) \in Seq(Pieces(options))
        /\ Marked(Tokens(more), "tool", sid)
    BY <1>10 DEF Conversation
  <2> QED
    BY <1>1, <1>7, <1>12, <2>1, <2>2, <2>3, NewRequest, Zenon
<1>15. /\ session'.session_id = sid /\ session'.turn_idx = turn + 1 /\ session'.tool = tool
       /\ session'.arrival = arrival /\ session'.messages = more
       /\ session' \in [session_id : Nat, turn_idx : Nat, arrival : Nat, tool : ToolNames,
                        messages : Seq(MessagesOf(options))]
  <2>1. more \in Seq(MessagesOf(options))
    BY <1>10 DEF Conversation
  <2>2. session' = [session EXCEPT !.turn_idx = turn + 1, !.arrival = arrival, !.messages = more]
    BY <1>8, <1>11
  <2>3. turn + 1 \in Nat
    OBVIOUS
  <2>4. /\ session'.session_id = sid /\ session'.turn_idx = turn + 1 /\ session'.tool = tool
        /\ session'.arrival = arrival /\ session'.messages = more
    BY <1>2, <1>3, <2>2
  <2>5. session' \in [session_id : Nat, turn_idx : Nat, arrival : Nat, tool : ToolNames,
                      messages : Seq(MessagesOf(options))]
    BY <1>3, <2>1, <2>2, <2>3, Zenon
  <2> QED
    BY <2>4, <2>5
<1>16. UnderWay'
  <2>1. turn + 1 < options.turns
    BY <1>4, <1>7
  <2> QED
    BY <1>1, <1>5, <1>6, <1>10, <1>15, <2>1 DEF UnderWay
<1>17. Begun(r)'
  <2>1. Tokens(more) \in Seq(Pieces(options))
    BY <1>10 DEF Conversation
  <2>2. Extends(Tokens(more), Tokens(more))
    BY <2>1, ExtendsIsReflexive
  <2>3. sid < FirstSid("tool") + count'["tool"]
    BY <1>1, <1>6 DEF FirstSid, Class
  <2> QED
    BY <1>13, <1>15, <2>2, <2>3 DEF Begun
<1>18. ASSUME NEW q \in Requests(options), Begun(q) PROVE Begun(q)' /\ Precedes(q, r)
  <2>1. /\ q.session_id \in Nat /\ q.kind \in Class /\ q.turn_idx \in Nat /\ q.arrival \in Nat
        /\ Tokens(q.messages) \in Seq(Pieces(options))
    BY <1>1, FieldsOfRequests
  <2>2. Tokens(more) \in Seq(Pieces(options)) /\ Tokens(messages) \in Seq(Pieces(options))
    BY <1>6, <1>10 DEF Conversation
  <2>3. ASSUME q.session_id = sid
        PROVE  /\ q.turn_idx <= turn /\ q.arrival <= before
               /\ Extends(Tokens(q.messages), Tokens(messages))
    <3>1. sid = FirstSid("tool") + sid /\ "tool" \in Class
      BY DEF FirstSid, Class
    <3>2. q.kind = "tool"
      BY <1>1, <1>7, <2>3, <3>1, KindBySid
    <3> QED
      BY <1>2, <1>18, <2>3, <3>2 DEF Begun
  <2>4. ASSUME q.session_id = sid
        PROVE  /\ q.turn_idx < turn + 1 /\ q.arrival <= arrival
               /\ Extends(Tokens(q.messages), Tokens(more))
               /\ Len(Tokens(q.messages)) < Len(Tokens(more))
    <3>1. Extends(Tokens(q.messages), Tokens(more))
      BY <1>10, <2>1, <2>2, <2>3, <2>4, ExtendsIsTransitive
    <3>2. Len(Tokens(q.messages)) <= Len(Tokens(messages))
      BY <2>3, <2>4 DEF Extends
    <3>3. Len(Tokens(q.messages)) \in Nat /\ Len(Tokens(messages)) \in Nat
      BY <2>1, <2>2
    <3> QED
      BY <1>10, <1>11, <2>1, <2>3, <2>4, <3>1, <3>2, <3>3
  <2>5. Begun(q)'
    <3>1. q.session_id < FirstSid(q.kind) + count'[q.kind]
      BY <1>1, <1>18 DEF Begun
    <3>2. q.session_id = sid => q.turn_idx <= turn + 1
      BY <2>1, <2>4
    <3> QED
      BY <1>15, <2>4, <3>1, <3>2 DEF Begun
  <2> QED
    BY <1>13, <2>4, <2>5 DEF Precedes
<1> QED
  BY <1>1, <1>8, <1>11, <1>12, <1>14, <1>16, <1>17, <1>18, StreamGrows

LEMMA QueryKeeps == StreamInv /\ Query => StreamInv'
<1> SUFFICES ASSUME StreamInv, Query PROVE StreamInv'
  OBVIOUS
<1>1. /\ options \in Options /\ count \in [Class -> Nat] /\ clock \in [Class -> Nat]
      /\ \A class \in Class : count[class] <= Share(options, class)
      /\ options' = options /\ session' = session /\ sorted' = sorted
  BY DEF StreamInv, Generated, Query
<1>2a. PICK gap \in Gaps, doc \in 1..RagDocs : \E user, messages :
        /\ user = <<<<"doc", doc>>, <<"question", count["rag"]>>>>
        /\ messages = <<Msg("system", <<<<"system">>>>, <<>>), Msg("user", user, <<>>)>>
        /\ count' = [count EXCEPT !["rag"] = @ + 1]
        /\ clock' = [clock EXCEPT !["rag"] = @ + gap]
        /\ requests' = Append(requests,
                TurnRequest(RAG_SID_BASE + count["rag"], 0, clock'["rag"], messages, "rag", NoTool))
  BY Zenon DEF Query, Opened
<1>2. PICK user, messages :
        /\ user = <<<<"doc", doc>>, <<"question", count["rag"]>>>>
        /\ messages = <<Msg("system", <<<<"system">>>>, <<>>), Msg("user", user, <<>>)>>
        /\ count' = [count EXCEPT !["rag"] = @ + 1]
        /\ clock' = [clock EXCEPT !["rag"] = @ + gap]
        /\ requests' = Append(requests,
                TurnRequest(RAG_SID_BASE + count["rag"], 0, clock'["rag"], messages, "rag", NoTool))
  BY <1>2a, Zenon
<1>3. PICK n \in Nat : n = count["rag"]
  BY <1>1 DEF Class
<1>4. Share(options, "rag") \in Nat
  BY <1>1, ShareIsNat DEF Class
<1>5. n \in 0..(Share(options, "rag") - 1)
  <2>1. n # Share(options, "rag") /\ n <= Share(options, "rag")
    BY <1>1, <1>3 DEF Query, Done, Budget, Class
  <2> QED
    BY <1>4, <2>1
<1>6. PICK arrival \in Nat : arrival = clock'["rag"]
  BY <1>1, <1>2, DelaysAreNat DEF Class
<1>7. /\ user \in Questions(options) /\ messages \in Seq(MessagesOf(options))
      /\ Tokens(messages) \in Seq(Pieces(options))
      /\ Marked(Tokens(messages), "rag", RAG_SID_BASE + n)
  BY <1>1, <1>2, <1>3, <1>5, QueryMessages
<1>8. PICK r : r = TurnRequest(RAG_SID_BASE + n, 0, arrival, messages, "rag", NoTool)
  OBVIOUS
<1>9. /\ r.session_id = RAG_SID_BASE + n /\ r.turn_idx = 0 /\ r.arrival = arrival
      /\ r.messages = messages /\ r.kind = "rag" /\ r.tool_name = NoTool
  BY <1>8 DEF TurnRequest
<1>10. r \in Requests(options)
  <2>1. Signals(r)
    BY <1>1, <1>2, <1>7, <1>9, SignalsOfQuery
  <2>2. /\ RAG_SID_BASE + n = FirstSid("rag") + n /\ "rag" \in Class
        /\ NoTool \in ToolNames /\ 0 \in Nat
    BY DEF FirstSid, Class, ToolNames
  <2> QED
    BY <1>1, <1>5, <1>7, <1>8, <2>1, <2>2, NewRequest, Zenon
<1>11. /\ count' \in [Class -> Nat] /\ clock' \in [Class -> Nat] /\ count'["rag"] = n + 1
       /\ count'["tool"] = count["tool"]
       /\ \A class \in Class : count[class] <= count'[class] /\ count'[class] <= Share(options, class)
  <2>1. "rag" \in Class /\ "tool" \in Class /\ n + 1 \in Nat /\ n + 1 <= Share(options, "rag")
    BY <1>4, <1>5 DEF Class
  <2>2. /\ count' \in [Class -> Nat] /\ count'["rag"] = n + 1
        /\ \A class \in Class : class # "rag" => count'[class] = count[class]
    BY <1>1, <1>2, <1>3, <2>1
  <2>3. clock' \in [Class -> Nat]
    <3>1. clock["rag"] + gap \in Nat
      BY <1>1, <2>1, DelaysAreNat
    <3> QED
      BY <1>1, <1>2, <3>1
  <2>4. count'["tool"] = count["tool"]
    BY <2>1, <2>2
  <2> QED
    BY <1>1, <1>3, <2>1, <2>2, <2>3, <2>4
<1>12. UnderWay'
  BY <1>1, <1>11 DEF StreamInv, UnderWay, SessionDone
<1>13. Begun(r)'
  <2>1. RAG_SID_BASE + n < FirstSid("rag") + count'["rag"]
    BY <1>11 DEF FirstSid, RAG_SID_BASE
  <2> QED
    BY <1>9, <2>1 DEF Begun
<1>14. ASSUME NEW q \in Requests(options), Begun(q) PROVE Begun(q)' /\ Precedes(q, r)
  <2>1. q.session_id \in Nat /\ q.kind \in Class
    BY <1>1, FieldsOfRequests
  <2>2. q.session_id < FirstSid(q.kind) + count[q.kind]
    BY <1>14 DEF Begun
  <2>3. q.session_id # RAG_SID_BASE + n
    <3>1. RAG_SID_BASE + n = FirstSid("rag") + n /\ "rag" \in Class
      BY DEF FirstSid, Class
    <3>2. q.session_id = RAG_SID_BASE + n => q.kind = "rag"
      BY <1>1, <1>5, <3>1, KindBySid
    <3>3. q.kind = "rag" => q.session_id < RAG_SID_BASE + n
      BY <1>3, <2>2, <3>1
    <3>4. RAG_SID_BASE + n \in Nat
      BY DEF RAG_SID_BASE
    <3> QED
      BY <2>1, <3>2, <3>3, <3>4
  <2>4. q.session_id < FirstSid(q.kind) + count'[q.kind]
    <3>1. FirstSid(q.kind) \in Nat /\ count[q.kind] \in Nat /\ count'[q.kind] \in Nat
      BY <1>1, <1>11, <2>1 DEF FirstSid, RAG_SID_BASE, ONESHOT_SID_BASE
    <3> QED
      BY <1>11, <2>1, <2>2, <3>1
  <2>5. Begun(q)'
    BY <1>1, <1>14, <2>4 DEF Begun
  <2> QED
    BY <1>9, <2>3, <2>5 DEF Precedes
<1> QED
  BY <1>1, <1>2, <1>3, <1>6, <1>8, <1>10, <1>11, <1>12, <1>13, <1>14, StreamGrows

LEMMA OneShotKeeps == StreamInv /\ OneShot => StreamInv'
<1> SUFFICES ASSUME StreamInv, OneShot PROVE StreamInv'
  OBVIOUS
<1>1. /\ options \in Options /\ count \in [Class -> Nat] /\ clock \in [Class -> Nat]
      /\ \A class \in Class : count[class] <= Share(options, class)
      /\ options' = options /\ session' = session /\ sorted' = sorted
  BY DEF StreamInv, Generated, OneShot
<1>2a. PICK gap \in Gaps : \E messages :
        /\ messages = <<Msg("user", <<<<"oneshot", count["oneshot"]>>>>, <<>>)>>
        /\ count' = [count EXCEPT !["oneshot"] = @ + 1]
        /\ clock' = [clock EXCEPT !["oneshot"] = @ + gap]
        /\ requests' = Append(requests,
                TurnRequest(ONESHOT_SID_BASE + count["oneshot"], 0, clock'["oneshot"], messages,
                            "oneshot", NoTool))
  BY Zenon DEF OneShot, Opened
<1>2. PICK messages :
        /\ messages = <<Msg("user", <<<<"oneshot", count["oneshot"]>>>>, <<>>)>>
        /\ count' = [count EXCEPT !["oneshot"] = @ + 1]
        /\ clock' = [clock EXCEPT !["oneshot"] = @ + gap]
        /\ requests' = Append(requests,
                TurnRequest(ONESHOT_SID_BASE + count["oneshot"], 0, clock'["oneshot"], messages,
                            "oneshot", NoTool))
  BY <1>2a, Zenon
<1>3. PICK n \in Nat : n = count["oneshot"]
  BY <1>1 DEF Class
<1>4. Share(options, "oneshot") \in Nat
  BY <1>1, ShareIsNat DEF Class
<1>5. n \in 0..(Share(options, "oneshot") - 1)
  <2>1. n # Share(options, "oneshot") /\ n <= Share(options, "oneshot")
    BY <1>1, <1>3 DEF OneShot, Done, Budget, Class
  <2> QED
    BY <1>4, <2>1
<1>6. PICK arrival \in Nat : arrival = clock'["oneshot"]
  BY <1>1, <1>2, DelaysAreNat DEF Class
<1>7. /\ messages \in Seq(MessagesOf(options))
      /\ Tokens(messages) \in Seq(Pieces(options))
      /\ Marked(Tokens(messages), "oneshot", ONESHOT_SID_BASE + n)
  BY <1>1, <1>2, <1>3, <1>5, OneShotMessages
<1>8. PICK r : r = TurnRequest(ONESHOT_SID_BASE + n, 0, arrival, messages, "oneshot", NoTool)
  OBVIOUS
<1>9. /\ r.session_id = ONESHOT_SID_BASE + n /\ r.turn_idx = 0 /\ r.arrival = arrival
      /\ r.messages = messages /\ r.kind = "oneshot" /\ r.tool_name = NoTool
  BY <1>8 DEF TurnRequest
<1>10. r \in Requests(options)
  <2>1. Signals(r)
    BY <1>1, <1>2, <1>7, <1>9, SignalsOfOneShot
  <2>2. /\ ONESHOT_SID_BASE + n = FirstSid("oneshot") + n /\ "oneshot" \in Class
        /\ NoTool \in ToolNames /\ 0 \in Nat
    BY DEF FirstSid, Class, ToolNames
  <2> QED
    BY <1>1, <1>5, <1>7, <1>8, <2>1, <2>2, NewRequest, Zenon
<1>11. /\ count' \in [Class -> Nat] /\ clock' \in [Class -> Nat] /\ count'["oneshot"] = n + 1
       /\ count'["tool"] = count["tool"]
       /\ \A class \in Class : count[class] <= count'[class] /\ count'[class] <= Share(options, class)
  <2>1. "oneshot" \in Class /\ "tool" \in Class /\ n + 1 \in Nat /\ n + 1 <= Share(options, "oneshot")
    BY <1>4, <1>5 DEF Class
  <2>2. /\ count' \in [Class -> Nat] /\ count'["oneshot"] = n + 1
        /\ \A class \in Class : class # "oneshot" => count'[class] = count[class]
    BY <1>1, <1>2, <1>3, <2>1
  <2>3. clock' \in [Class -> Nat]
    <3>1. clock["oneshot"] + gap \in Nat
      BY <1>1, <2>1, DelaysAreNat
    <3> QED
      BY <1>1, <1>2, <3>1
  <2>4. count'["tool"] = count["tool"]
    BY <2>1, <2>2
  <2> QED
    BY <1>1, <1>3, <2>1, <2>2, <2>3, <2>4
<1>12. UnderWay'
  BY <1>1, <1>11 DEF StreamInv, UnderWay, SessionDone
<1>13. Begun(r)'
  <2>1. ONESHOT_SID_BASE + n < FirstSid("oneshot") + count'["oneshot"]
    BY <1>11 DEF FirstSid, ONESHOT_SID_BASE
  <2> QED
    BY <1>9, <2>1 DEF Begun
<1>14. ASSUME NEW q \in Requests(options), Begun(q) PROVE Begun(q)' /\ Precedes(q, r)
  <2>1. q.session_id \in Nat /\ q.kind \in Class
    BY <1>1, FieldsOfRequests
  <2>2. q.session_id < FirstSid(q.kind) + count[q.kind]
    BY <1>14 DEF Begun
  <2>3. q.session_id # ONESHOT_SID_BASE + n
    <3>1. ONESHOT_SID_BASE + n = FirstSid("oneshot") + n /\ "oneshot" \in Class
      BY DEF FirstSid, Class
    <3>2. q.session_id = ONESHOT_SID_BASE + n => q.kind = "oneshot"
      BY <1>1, <1>5, <3>1, KindBySid
    <3>3. q.kind = "oneshot" => q.session_id < ONESHOT_SID_BASE + n
      BY <1>3, <2>2, <3>1
    <3>4. ONESHOT_SID_BASE + n \in Nat
      BY DEF ONESHOT_SID_BASE
    <3> QED
      BY <2>1, <3>2, <3>3, <3>4
  <2>4. q.session_id < FirstSid(q.kind) + count'[q.kind]
    <3>1. FirstSid(q.kind) \in Nat /\ count[q.kind] \in Nat /\ count'[q.kind] \in Nat
      BY <1>1, <1>11, <2>1 DEF FirstSid, RAG_SID_BASE, ONESHOT_SID_BASE
    <3> QED
      BY <1>11, <2>1, <2>2, <3>1
  <2>5. Begun(q)'
    BY <1>1, <1>14, <2>4 DEF Begun
  <2> QED
    BY <1>9, <2>3, <2>5 DEF Precedes
<1> QED
  BY <1>1, <1>2, <1>3, <1>6, <1>8, <1>10, <1>11, <1>12, <1>13, <1>14, StreamGrows

\* A later turn is not sorted before an earlier one.
LEMMA TurnsStayInOrder ==
    ASSUME NEW S, Keyed(S), NEW s \in Seq(S), NEW i \in 1..Len(s), NEW j \in 1..Len(s),
           \A k, l \in 1..Len(s) : k < l => Precedes(s[k], s[l]), Before(s, i, j)
    PROVE  Precedes(s[i], s[j])
<1> SUFFICES ASSUME s[i].session_id = s[j].session_id PROVE Precedes(s[i], s[j])
  BY DEF Precedes
<1>1. i \in Nat /\ j \in Nat
  OBVIOUS
<1>2. i # j
  BY BeforeIsOrder
<1>3. ASSUME j < i PROVE FALSE
  <2>1. Precedes(s[j], s[i])
    BY <1>3
  <2>2. s[j].turn_idx < s[i].turn_idx /\ s[j].arrival <= s[i].arrival
    BY <2>1 DEF Precedes
  <2>3. /\ s[i].arrival \in Nat /\ s[j].arrival \in Nat
        /\ s[i].turn_idx \in Nat /\ s[j].turn_idx \in Nat
    BY DEF Keyed
  <2>4. Earlier(s[j], s[i])
    BY <2>2, <2>3 DEF Earlier
  <2>5. Before(s, j, i)
    BY <2>4 DEF Before
  <2> QED
    BY <2>5, BeforeIsOrder
<1> QED
  BY <1>1, <1>2, <1>3

LEMMA SortKeeps == StreamInv /\ Sort => StreamInv'
<1> SUFFICES ASSUME StreamInv, Sort PROVE StreamInv'
  OBVIOUS
<1>1. /\ options' = options /\ count' = count /\ clock' = clock /\ session' = session
      /\ sorted' = TRUE /\ requests' = InOrder(requests)
  BY DEF Sort
<1>2. /\ requests \in Seq(Requests(options)) /\ options \in Options
      /\ \A i \in 1..Len(requests) : Begun(requests[i])
      /\ \A i, j \in 1..Len(requests) : i < j => Precedes(requests[i], requests[j])
  BY DEF StreamInv, Generated
<1>3. Keyed(Requests(options))
  BY <1>2, FieldsOfRequests DEF Keyed
<1>4. PICK n \in Nat : n = Len(requests)
  BY <1>2
<1>5. InOrder(requests) \in Seq(Requests(options)) /\ Len(InOrder(requests)) = n
  BY <1>2, <1>3, <1>4, InOrderSorts
<1>6. PICK p : Sorts(p, requests)
  BY <1>2, <1>3, InOrderSorts
<1>7. /\ \A i \in 1..n : p[i] \in 1..n /\ requests'[i] = requests[p[i]]
      /\ \A i, j \in 1..n : i < j => Before(requests, p[i], p[j])
      /\ Len(requests') = n
  BY <1>1, <1>4, <1>5, <1>6 DEF Sorts
<1>8. Generated'
  BY <1>1, <1>5 DEF StreamInv, Generated
<1>9. UnderWay'
  BY <1>1 DEF StreamInv, UnderWay, SessionDone
<1>10. ASSUME NEW i \in 1..Len(requests') PROVE Begun(requests[i])'
  <2>1. p[i] \in 1..n /\ requests'[i] = requests[p[i]]
    BY <1>7
  <2>2. Begun(requests[p[i]])
    BY <1>2, <1>4, <2>1
  <2> QED
    BY <1>1, <2>1, <2>2 DEF Begun
<1>11. ASSUME NEW i \in 1..Len(requests'), NEW j \in 1..Len(requests'), i < j
       PROVE  Precedes(requests'[i], requests'[j])
  <2>1. /\ p[i] \in 1..n /\ requests'[i] = requests[p[i]]
        /\ p[j] \in 1..n /\ requests'[j] = requests[p[j]]
        /\ Before(requests, p[i], p[j])
    BY <1>7, <1>11
  <2>2. Precedes(requests[p[i]], requests[p[j]])
    BY <1>2, <1>3, <1>4, <2>1, TurnsStayInOrder
  <2> QED
    BY <2>1, <2>2
<1> QED
  BY <1>8, <1>9, <1>10, <1>11 DEF StreamInv

\* Every step of the generator keeps the invariant, and so does a replay step.
LEMMA StepKeepsStreamInv == StreamInv /\ [Next]_vars => StreamInv'
<1> SUFFICES ASSUME StreamInv, [Next]_vars PROVE StreamInv'
  OBVIOUS
<1>1. CASE Generate
  BY <1>1, OpenSessionKeeps, ExtendSessionKeeps, QueryKeeps, OneShotKeeps, SortKeeps DEF Generate
<1>2. CASE UNCHANGED workloadVars
  BY <1>2 DEF workloadVars, StreamInv, Generated, UnderWay, SessionDone, Begun
<1> QED
  BY <1>1, <1>2 DEF Next, Admit, vars

LEMMA StreamInvHolds == Spec => []StreamInv
<1>1. ReplayInit => StreamInv
  BY InitHasStreamInv DEF ReplayInit
<1> QED
  BY <1>1, StepKeepsStreamInv, PTL DEF Spec

-----------------------------------------------------------------------------
(* What follows *)

\* What the generator records of a request is what the plugin reads off its messages: class and
\* tool (generate_mixed against classify.go).
THEOREM SignalsAgree == Spec => []SignalsMatchTheWire
<1>1. StreamInv => SignalsMatchTheWire
  <2> SUFFICES ASSUME StreamInv, NEW r \in Range(requests) PROVE Signals(r)
    BY DEF SignalsMatchTheWire, Signals
  <2>1. options \in Options /\ requests \in Seq(Requests(options))
    BY DEF StreamInv, Generated
  <2>2. r \in Requests(options)
    BY <2>1 DEF Range
  <2> QED
    BY <2>1, <2>2, FieldsOfRequests
<1> QED
  BY <1>1, StreamInvHolds, PTL

\* The session header the live sender adds gives two turns one key just when they are turns of
\* one session.
THEOREM HeadersAreSessions == Spec => []LiveKeysAreSessions
<1>1. StreamInv => LiveKeysAreSessions
  <2> SUFFICES ASSUME StreamInv, NEW p \in Range(requests), NEW q \in Range(requests)
               PROVE  LiveKey(p) = LiveKey(q) <=> p.session_id = q.session_id
    BY DEF LiveKeysAreSessions
  <2>1. options \in Options /\ requests \in Seq(Requests(options))
    BY DEF StreamInv, Generated
  <2>2. p \in Requests(options) /\ q \in Requests(options)
    BY <2>1 DEF Range
  <2>3. p.session_id \in Nat /\ q.session_id \in Nat
    BY <2>1, <2>2, FieldsOfRequests
  <2>4. LiveKey(p) = p.session_id /\ LiveKey(q) = q.session_id
    BY <2>3, NoScopeIsNoSession DEF LiveKey, SentSession, ConversationKey
  <2> QED
    BY <2>4
<1> QED
  BY <1>1, StreamInvHolds, PTL

\* Each turn's prompt has those before it in the session as strict prefixes, its blocks theirs,
\* and the sorted stream asks them in order (workload.py, requests.sort).
THEOREM SessionsGrowInOrder == Spec => []TurnsExtendInOrder
<1>1. StreamInv => TurnsExtendInOrder
  <2> SUFFICES ASSUME StreamInv, NEW i \in DOMAIN requests, NEW j \in DOMAIN requests, i < j,
                      requests[i].session_id = requests[j].session_id
               PROVE  /\ requests[i].turn_idx < requests[j].turn_idx
                      /\ IsStrictPrefix(Tokens(requests[i].messages), Tokens(requests[j].messages))
                      /\ IsPrefix(requests[i].block_hashes, requests[j].block_hashes)
    BY DEF TurnsExtendInOrder
  <2>1. options \in Options /\ requests \in Seq(Requests(options))
    BY DEF StreamInv, Generated
  <2>2. i \in 1..Len(requests) /\ j \in 1..Len(requests)
    BY <2>1
  <2>3. PICK p \in Requests(options) : p = requests[i]
    BY <2>1, <2>2
  <2>4. PICK q \in Requests(options) : q = requests[j]
    BY <2>1, <2>2
  <2>5. Precedes(p, q) /\ p.session_id = q.session_id
    BY <2>2, <2>3, <2>4 DEF StreamInv
  <2>6. PICK t \in Seq(Pieces(options)) :
            t = Tokens(p.messages) /\ p.block_hashes = hash_blocks(t, options.block_size)
    BY <2>1, FieldsOfRequests
  <2>7. PICK u \in Seq(Pieces(options)) :
            u = Tokens(q.messages) /\ q.block_hashes = hash_blocks(u, options.block_size)
    BY <2>1, FieldsOfRequests
  <2>8. p.turn_idx < q.turn_idx /\ Extends(t, u) /\ Len(t) < Len(u)
    BY <2>5, <2>6, <2>7 DEF Precedes
  <2>9. IsPrefix(t, u)
    BY <2>8, ExtensionHasPrefix
  <2>10. t # u
    <3>1. Len(t) \in Nat
      OBVIOUS
    <3> QED
      BY <2>8, <3>1
  <2>11. options.block_size \in Nat \ {0} /\ Counted(Pieces(options))
    BY <2>1, OptionsAreRuns, PiecesOfRun
  <2>12. IsPrefix(hash_blocks(t, options.block_size), hash_blocks(u, options.block_size))
    BY <2>8, <2>11, BlocksExtend
  <2> QED
    BY <2>3, <2>4, <2>6, <2>7, <2>8, <2>9, <2>10, <2>12 DEF IsStrictPrefix
<1> QED
  BY <1>1, StreamInvHolds, PTL

\* Sessions do not share their own texts.
LEMMA OwnTextsDiffer ==
    ASSUME NEW k \in Class, NEW l \in Class, NEW m \in Nat, NEW n \in Nat, m # n
    PROVE  OwnText(k, m) # OwnText(l, n) /\ OwnText("oneshot", m) # <<"system">>
<1>1. /\ OwnText("tool", m) = <<"reply", <<m, 1>>>> /\ OwnText("tool", n) = <<"reply", <<n, 1>>>>
      /\ OwnText("rag", m) = <<"question", m - RAG_SID_BASE>>
      /\ OwnText("rag", n) = <<"question", n - RAG_SID_BASE>>
      /\ OwnText("oneshot", m) = <<"oneshot", m - ONESHOT_SID_BASE>>
      /\ OwnText("oneshot", n) = <<"oneshot", n - ONESHOT_SID_BASE>>
  BY DEF OwnText
<1>2. m - RAG_SID_BASE # n - RAG_SID_BASE /\ m - ONESHOT_SID_BASE # n - ONESHOT_SID_BASE
  BY DEF RAG_SID_BASE, ONESHOT_SID_BASE
<1>3. <<m, 1>> # <<n, 1>>
  OBVIOUS
<1> QED
  BY <1>1, <1>2, <1>3 DEF Class

\* What two prompts of different sessions both begin with is a system prompt, an opening
\* question or a document.
LEMMA SharedBeginnings ==
    ASSUME NEW T, NEW t \in Seq(T), NEW u \in Seq(T), NEW k \in Class, NEW l \in Class,
           NEW m \in Nat, NEW n \in Nat, m # n, Marked(t, k, m), Marked(u, l, n),
           NEW both \in Nat, both <= Len(t), both <= Len(u), \A i \in 1..both : t[i] = u[i]
    PROVE  \A i \in 1..both : t[i][1] \in {"system", "user", "doc"}
<1> SUFFICES ASSUME NEW i \in 1..both PROVE t[i][1] \in {"system", "user", "doc"}
  OBVIOUS
<1>1. 1 \in 1..both /\ t[1] = u[1]
  OBVIOUS
<1>2. PICK x, y : x = OwnText(k, m) /\ y = OwnText(l, n) /\ x # y
  BY OwnTextsDiffer
<1>3. k = "oneshot" => t[1] = x /\ x # <<"system">>
  BY <1>2, OwnTextsDiffer DEF Marked
<1>4. l = "oneshot" => u[1] = y /\ y # <<"system">>
  BY <1>2, OwnTextsDiffer DEF Marked
<1>5. k # "oneshot" => /\ t[1] = <<"system">> /\ t[2][1] \in {"user", "doc"}
                       /\ Len(t) >= 3 => t[3] = x
  BY <1>2 DEF Marked
<1>6. l # "oneshot" => /\ u[1] = <<"system">>
                       /\ Len(u) >= 3 => u[3] = y
  BY <1>2 DEF Marked
<1>7. k # "oneshot" /\ l # "oneshot"
  BY <1>1, <1>2, <1>3, <1>4, <1>5, <1>6, Zenon
<1>8. both < 3
  <2> SUFFICES ASSUME both >= 3 PROVE FALSE
    OBVIOUS
  <2>1. 3 \in 1..both /\ Len(t) >= 3 /\ Len(u) >= 3
    OBVIOUS
  <2>2. t[3] = u[3]
    BY <2>1
  <2> QED
    BY <1>2, <1>5, <1>6, <1>7, <2>1, <2>2, Zenon
<1>9. i = 1 \/ i = 2
  BY <1>8
<1>10. t[1][1] = "system"
  BY <1>5, <1>7
<1> QED
  BY <1>5, <1>7, <1>9, <1>10, Zenon

\* Two sessions have no block in common that covers a reply, a tool result, a question or
\* anything behind one: what a cache can share between users is the openings.
THEOREM OnlyOpeningsShared == Spec => []OnlyOpeningsAreShared
<1>1. StreamInv => OnlyOpeningsAreShared
  <2> SUFFICES ASSUME StreamInv, NEW p \in Range(requests), NEW q \in Range(requests),
                      p.session_id # q.session_id,
                      NEW b \in Range(p.block_hashes) \cap Range(q.block_hashes),
                      NEW text \in Range(b.texts)
               PROVE  text[1] \in {"system", "user", "doc"}
    BY DEF OnlyOpeningsAreShared
  <2>1. options \in Options /\ requests \in Seq(Requests(options))
    BY DEF StreamInv, Generated
  <2>2. p \in Requests(options) /\ q \in Requests(options)
    BY <2>1 DEF Range
  <2>3. options.block_size \in Nat \ {0} /\ Counted(Pieces(options))
    BY <2>1, OptionsAreRuns, PiecesOfRun
  <2>4. PICK t \in Seq(Pieces(options)) :
            /\ p.block_hashes = hash_blocks(t, options.block_size)
            /\ Marked(t, p.kind, p.session_id)
    BY <2>1, <2>2, FieldsOfRequests
  <2>5. PICK u \in Seq(Pieces(options)) :
            /\ q.block_hashes = hash_blocks(u, options.block_size)
            /\ Marked(u, q.kind, q.session_id)
    BY <2>1, <2>2, FieldsOfRequests
  <2>6. PICK m \in 0..Len(t) : b.texts = SubSeq(t, 1, m)
    BY <2>3, <2>4, BlocksAreSpans
  <2>7. PICK n \in 0..Len(u) : b.texts = SubSeq(u, 1, n)
    BY <2>3, <2>5, BlocksAreSpans
  <2>8. /\ Len(SubSeq(t, 1, m)) = m /\ Len(SubSeq(u, 1, n)) = n
        /\ DOMAIN SubSeq(t, 1, m) = 1..m
        /\ \A i \in 1..m : SubSeq(t, 1, m)[i] = t[i]
        /\ \A i \in 1..n : SubSeq(u, 1, n)[i] = u[i]
    OBVIOUS
  <2>9. m = n
    BY <2>6, <2>7, <2>8
  <2>10. \A i \in 1..m : t[i] = u[i]
    BY <2>6, <2>7, <2>8, <2>9
  <2>11. PICK i \in 1..m : text = t[i]
    BY <2>6, <2>8 DEF Range
  <2>12. /\ p.session_id \in Nat /\ q.session_id \in Nat /\ p.kind \in Class /\ q.kind \in Class
    BY <2>1, <2>2, FieldsOfRequests
  <2>13. m \in Nat /\ m <= Len(t) /\ m <= Len(u)
    BY <2>9
  <2>14. \A k \in 1..m : t[k][1] \in {"system", "user", "doc"}
    BY <2>4, <2>5, <2>10, <2>12, <2>13, SharedBeginnings
  <2> QED
    BY <2>11, <2>14
<1> QED
  BY <1>1, StreamInvHolds, PTL

-----------------------------------------------------------------------------
(* The replay *)

AtIsNat == at \in Nat

LEMMA AtIsNatHolds == Spec => []AtIsNat
<1>1. ReplayInit => AtIsNat
  BY DEF ReplayInit, AtIsNat
<1>2. AtIsNat /\ [Next]_vars => AtIsNat'
  BY DEF AtIsNat, Next, Admit, vars
<1> QED
  BY <1>1, <1>2, PTL DEF Spec

\* While nothing in its cache is asked for again the reference node evicts as the live node's
\* LRU does (_pick_victim's tie goes to the first in the dict): where their hits differ the
\* reference node looked ahead.
THEOREM IgnoranceIsLRU == Spec => UnknownFutureIsLRU
<1>1. StreamInv /\ AtIsNat /\ [Next]_vars
        => (at' > at =>
             LET order == R!Touched(cache, requests[at'].block_hashes)
             IN  (\A b \in DOMAIN order : NextUse(b, at') = Never)
                    => cache' = R!Kept(order, R!MostRecent(order, Capacity)))
  <2> SUFFICES ASSUME StreamInv, AtIsNat, [Next]_vars, at' > at,
                      NEW order, order = R!Touched(cache, requests[at'].block_hashes),
                      \A b \in DOMAIN order : NextUse(b, at') = Never
               PROVE  cache' = R!Kept(order, R!MostRecent(order, Capacity))
    BY Zenon
  <2>1. at' # at
    BY DEF AtIsNat
  <2>2. Admit
    BY <2>1 DEF Next, vars
  <2>3. at' = at + 1 /\ cache' = R!Kept(order, Staying(order, at + 1))
    BY <2>2 DEF Admit
  <2>4. Never \in Nat
    <3>1. Len(requests) \in Nat
      BY DEF StreamInv, Generated
    <3> QED
      BY <3>1 DEF Never
  <2>5. ASSUME NEW b \in DOMAIN order, NEW x \in DOMAIN order
        PROVE  FurtherUse(order, at + 1, b, x) <=> b \in order[x]
    <3>1. NextUse(b, at + 1) = Never /\ NextUse(x, at + 1) = Never
      BY <2>3
    <3> QED
      BY <2>4, <3>1 DEF FurtherUse
  <2>6. ASSUME NEW b \in DOMAIN order
        PROVE  {x \in DOMAIN order : FurtherUse(order, at + 1, b, x)} = R!NewerThan(order, b)
    BY <2>5, Zenon DEF R!NewerThan
  <2>7. Staying(order, at + 1) = R!MostRecent(order, Capacity)
    <3>1. \A b \in DOMAIN order :
            Cardinality({x \in DOMAIN order : FurtherUse(order, at + 1, b, x)})
                = Cardinality(R!NewerThan(order, b))
      BY <2>6, Zenon
    <3>2. ASSUME NEW b \in DOMAIN order
          PROVE  b \in Staying(order, at + 1) <=> b \in R!MostRecent(order, Capacity)
      <4>1. PICK c : c = Cardinality(R!NewerThan(order, b))
        BY Zenon
      <4>2. b \in Staying(order, at + 1) <=> c < Capacity
        BY <3>1, <4>1, Zenon DEF Staying
      <4>3. b \in R!MostRecent(order, Capacity) <=> R!Cardinality(R!NewerThan(order, b)) < Capacity
        BY Zenon DEF R!MostRecent
      <4>4. \A S : R!Cardinality(S) = Cardinality(S)
        BY DEF R!Cardinality, Cardinality
      <4>5. R!Cardinality(R!NewerThan(order, b)) = c
        BY <4>1, <4>4, Zenon
      <4> QED
        BY <4>2, <4>3, <4>5, Zenon
    <3>3. Staying(order, at + 1) \subseteq DOMAIN order
      BY Zenon DEF Staying
    <3>4. R!MostRecent(order, Capacity) \subseteq DOMAIN order
      BY Zenon DEF R!MostRecent
    <3> HIDE DEF Staying
    <3> QED
      BY <3>2, <3>3, <3>4, Zenon
  <2> QED
    BY <2>3, <2>7
<1> QED
  BY <1>1, StreamInvHolds, AtIsNatHolds, PTL DEF UnknownFutureIsLRU, Spec

-----------------------------------------------------------------------------
(* Ranks *)

LEMMA FewerInPart ==
    ASSUME NEW T, IsFiniteSet(T), NEW S, S \subseteq T
    PROVE  /\ IsFiniteSet(S) /\ Cardinality(S) \in Nat /\ Cardinality(T) \in Nat
           /\ Cardinality(S) <= Cardinality(T)
           /\ S # T => Cardinality(S) < Cardinality(T)
<1>1. IsFiniteSet(S) /\ Cardinality(S) <= Cardinality(T)
  BY FS_Subset
<1>2. Cardinality(S) = Cardinality(T) => S = T
  BY FS_Subset
<1>3. Cardinality(S) \in Nat /\ Cardinality(T) \in Nat
  BY <1>1, FS_CardinalityType
<1> QED
  BY <1>1, <1>2, <1>3

LEMMA DisjointCount ==
    ASSUME NEW S, NEW T, IsFiniteSet(S), IsFiniteSet(T), S \cap T = {}
    PROVE  Cardinality(S \cup T) = Cardinality(S) + Cardinality(T)
<1>1. Cardinality(S) \in Nat /\ Cardinality(T) \in Nat /\ Cardinality({}) = 0
  BY FS_CardinalityType, FS_EmptySet
<1>2. Cardinality(S \cup T) = Cardinality(S) + Cardinality(T) - Cardinality(S \cap T)
  BY FS_Union
<1>3. Cardinality(S \cap T) = 0
  BY <1>1, Zenon
<1> QED
  BY <1>1, <1>2, <1>3

\* The first and the last of some elements in an order.
LEMMA LastOfSome ==
    ASSUME NEW above, R!IsOrder(above), IsFiniteSet(DOMAIN above),
           NEW W \in SUBSET DOMAIN above, W # {}
    PROVE  \E b \in W : above[b] \cap W = {}
<1> DEFINE C == {Cardinality(above[b]) : b \in W}
<1>1. \A b \in W : above[b] \subseteq DOMAIN above
  BY DEF R!IsOrder
<1>2. \A b \in W : IsFiniteSet(above[b]) /\ Cardinality(above[b]) \in Nat
  BY <1>1, FewerInPart
<1>3. C \in SUBSET Nat /\ C # {}
  BY <1>2
<1>4. PICK k \in C : \A j \in C : k <= j
  <2> HIDE DEF C
  <2> QED
    BY <1>3, LeastNumber
<1>5. PICK b \in W : k = Cardinality(above[b])
  BY <1>4
<1>6. \A x \in W : Cardinality(above[b]) <= Cardinality(above[x])
  BY <1>4, <1>5
<1>7. ASSUME NEW x \in above[b] \cap W PROVE FALSE
  <2>1. above[x] \subseteq above[b] /\ x \notin above[x] /\ x \in above[b]
    BY <1>7 DEF R!IsOrder
  <2>2. above[x] # above[b]
    BY <2>1
  <2>3. Cardinality(above[x]) < Cardinality(above[b])
    BY <1>2, <2>1, <2>2, FewerInPart
  <2> QED
    BY <1>2, <1>6, <2>3
<1> QED
  BY <1>7

LEMMA FirstOfSome ==
    ASSUME NEW above, R!IsOrder(above), IsFiniteSet(DOMAIN above),
           NEW W \in SUBSET DOMAIN above, W # {}
    PROVE  \E b \in W : W \ {b} \subseteq above[b]
<1> DEFINE Rest(b) == W \ above[b]
           C == {Cardinality(Rest(b)) : b \in W}
<1>1. \A b \in W : IsFiniteSet(Rest(b)) /\ Cardinality(Rest(b)) \in Nat
  BY FewerInPart
<1>2. C \in SUBSET Nat /\ C # {}
  <2> HIDE DEF Rest
  <2> QED
    BY <1>1
<1>3. PICK k \in C : \A j \in C : k <= j
  <2> HIDE DEF C
  <2> QED
    BY <1>2, LeastNumber
<1>4. PICK b \in W : k = Cardinality(Rest(b))
  BY <1>3
<1>5. \A x \in W : Cardinality(Rest(b)) <= Cardinality(Rest(x))
  BY <1>3, <1>4
<1>6. ASSUME NEW x \in W \ {b}, x \notin above[b] PROVE FALSE
  <2>1. b \in above[x]
    BY <1>6 DEF R!IsOrder
  <2>2. above[b] \subseteq above[x] /\ b \notin above[b]
    BY <1>6, <2>1 DEF R!IsOrder
  <2>3. Rest(x) \subseteq Rest(b) /\ b \in Rest(b) /\ b \notin Rest(x)
    BY <2>1, <2>2
  <2>4. Rest(x) # Rest(b)
    BY <2>3
  <2> HIDE DEF Rest
  <2>5. Cardinality(Rest(x)) < Cardinality(Rest(b))
    BY <1>1, <2>3, <2>4, FewerInPart
  <2> QED
    BY <1>1, <1>5, <1>6, <2>5
<1> QED
  BY <1>6

\* Those that fewer than n others come after: the last n, and nothing else.
LastOnes(above, n) == {b \in DOMAIN above : Cardinality(above[b]) < n}

LEMMA CountLastOnes ==
    ASSUME NEW above, R!IsOrder(above), IsFiniteSet(DOMAIN above), NEW n \in Nat
    PROVE  LET stay == LastOnes(above, n)
               size == Cardinality(DOMAIN above)
           IN  /\ Cardinality(stay) = IF size < n THEN size ELSE n
               /\ \A b \in stay : above[b] \subseteq stay
<1> DEFINE stay == LastOnes(above, n)
           all == DOMAIN above
<1>1. stay \subseteq all /\ \A b \in all : b \in stay <=> Cardinality(above[b]) < n
  BY DEF LastOnes
<1> HIDE DEF stay
<1>2. \A b \in all : above[b] \subseteq all /\ b \notin above[b]
  BY DEF R!IsOrder
<1>3. \A b \in all : IsFiniteSet(above[b]) /\ Cardinality(above[b]) \in Nat
  BY <1>2, FewerInPart
<1>4. /\ IsFiniteSet(stay) /\ Cardinality(stay) \in Nat /\ Cardinality(all) \in Nat
      /\ Cardinality(stay) <= Cardinality(all)
      /\ stay # all => Cardinality(stay) < Cardinality(all)
  BY <1>1, FewerInPart
<1>5. Cardinality(stay) <= n
  <2>1. CASE stay = {}
    BY <2>1, FS_EmptySet
  <2>2. CASE stay # {}
    <3>1. PICK x \in stay : stay \ {x} \subseteq above[x]
      BY <1>1, <2>2, FirstOfSome
    <3>2. Cardinality(stay \ {x}) <= Cardinality(above[x]) /\ Cardinality(above[x]) < n
      BY <1>1, <1>3, <3>1, FewerInPart
    <3>3. Cardinality(stay \ {x}) = Cardinality(stay) - 1
      BY <1>4, FS_RemoveElement
    <3> QED
      BY <1>1, <1>3, <1>4, <3>2, <3>3
  <2> QED
    BY <2>1, <2>2
<1>6. stay # all => Cardinality(stay) >= n
  <2> SUFFICES ASSUME stay # all, Cardinality(stay) < n PROVE FALSE
    BY <1>4
  <2>1. all \ stay \in SUBSET all /\ all \ stay # {}
    BY <1>1
  <2>2. PICK b \in all \ stay : above[b] \cap (all \ stay) = {}
    BY <2>1, LastOfSome
  <2>3. above[b] \subseteq stay
    BY <1>2, <2>2
  <2>4. Cardinality(above[b]) <= Cardinality(stay)
    BY <1>4, <2>3, FewerInPart
  <2> QED
    BY <1>1, <1>3, <1>4, <2>2, <2>4
<1>7. Cardinality(stay) = IF Cardinality(all) < n THEN Cardinality(all) ELSE n
  BY <1>4, <1>5, <1>6
<1>8. ASSUME NEW b \in stay, NEW x \in above[b] PROVE x \in stay
  <2>1. x \in all /\ above[x] \subseteq above[b]
    BY <1>1, <1>2, <1>8 DEF R!IsOrder
  <2>2. Cardinality(above[x]) <= Cardinality(above[b])
    BY <1>1, <1>3, <2>1, FewerInPart
  <2> QED
    BY <1>1, <1>3, <2>1, <2>2
<1> QED
  BY <1>7, <1>8 DEF stay

-----------------------------------------------------------------------------
(* Future uses *)

Listed == Len(requests) \in Nat /\ DOMAIN requests = 1..Len(requests)

LEMMA LeastIsMin ==
    ASSUME NEW S \in SUBSET Nat, S # {}
    PROVE  Min(S) \in S /\ \A x \in S : Min(S) <= x
<1>1. \E n \in S : \A m \in S : n <= m
  BY LeastNumber
<1> QED
  BY <1>1 DEF Min

\* The next use after i, seen from request i + 1.
LEMMA NextUseGoesOn ==
    ASSUME Listed, NEW b, NEW i \in Nat
    PROVE  /\ NextUse(b, i) \in Nat
           /\ i <= Len(requests) => NextUse(b, i) > i
           /\ i < Len(requests)
                => NextUse(b, i) = IF b \in BlocksOf(requests[i + 1]) THEN i + 1
                                                                   ELSE NextUse(b, i + 1)
<1> DEFINE S(k) == {j \in Uses(b) : j > k} \cup {Never}
<1>1. /\ Never \in Nat /\ Never = Len(requests) + 1 /\ Len(requests) \in Nat
      /\ Uses(b) \subseteq 1..Len(requests)
  BY DEF Listed, Never, Uses
<1>2. \A k \in Nat : S(k) \in SUBSET Nat /\ S(k) # {}
  BY <1>1
<1>3. \A k \in Nat : NextUse(b, k) = Min(S(k))
  BY DEF NextUse
<1>4. \A k \in Nat : NextUse(b, k) \in S(k) /\ \A x \in S(k) : NextUse(b, k) <= x
  <2> SUFFICES ASSUME NEW k \in Nat
               PROVE  NextUse(b, k) \in S(k) /\ \A x \in S(k) : NextUse(b, k) <= x
    OBVIOUS
  <2> HIDE DEF S
  <2> QED
    BY <1>2, <1>3, LeastIsMin, Zenon
<1>5. NextUse(b, i) \in Nat
  BY <1>2, <1>4
<1>6. i <= Len(requests) => NextUse(b, i) > i
  BY <1>1, <1>4
<1>7. ASSUME i < Len(requests)
      PROVE  NextUse(b, i) = IF b \in BlocksOf(requests[i + 1]) THEN i + 1
                                                               ELSE NextUse(b, i + 1)
  <2>1. i + 1 \in DOMAIN requests
    BY <1>7 DEF Listed
  <2>2. i + 1 \in Uses(b) <=> b \in BlocksOf(requests[i + 1])
    BY <2>1 DEF Uses
  <2>3. CASE i + 1 \in Uses(b)
    <3>1. i + 1 \in S(i) /\ \A x \in S(i) : x >= i + 1
      BY <1>1, <1>7, <2>3
    <3> HIDE DEF S
    <3>2. NextUse(b, i) \in S(i) /\ NextUse(b, i) <= i + 1
      BY <1>4, <3>1
    <3>3. NextUse(b, i) >= i + 1
      BY <3>1, <3>2
    <3>4. NextUse(b, i) = i + 1
      BY <1>5, <3>2, <3>3
    <3> QED
      BY <2>2, <2>3, <3>4
  <2>4. CASE i + 1 \notin Uses(b)
    <3>1. S(i) = S(i + 1)
      BY <1>1, <2>4
    <3>2. i + 1 \in Nat
      OBVIOUS
    <3> HIDE DEF S
    <3>3. NextUse(b, i) = Min(S(i)) /\ NextUse(b, i + 1) = Min(S(i + 1))
      BY <1>3, <3>2
    <3>4. NextUse(b, i) = NextUse(b, i + 1)
      BY <3>1, <3>3, Zenon
    <3> QED
      BY <2>2, <2>4, <3>4
  <2> QED
    BY <2>3, <2>4
<1> QED
  BY <1>5, <1>6, <1>7

\* The blocks of S that are asked for again after request i and no later than t.
Soon(S, i, t) == {b \in S : NextUse(b, i) <= t}

\* What a request finds is what was soon to be used, and makes room for what is again.
LEMMA AskedWereSoon ==
    ASSUME Listed, NEW i \in Nat, i < Len(requests), NEW B, B = BlocksOf(requests[i + 1]),
           IsFiniteSet(B), NEW S, IsFiniteSet(S), NEW t \in Nat
    PROVE  /\ Cardinality(Soon(S, i, i + 1)) = Cardinality(B \cap S)
           /\ t > i => Cardinality(Soon(S \cup B, i + 1, t)) + Cardinality(B \cap S)
                         = Cardinality(Soon(S, i, t)) + Cardinality(Soon(B, i + 1, t))
<1>1. \A b : /\ NextUse(b, i) \in Nat /\ NextUse(b, i + 1) \in Nat
             /\ NextUse(b, i) > i /\ NextUse(b, i + 1) > i + 1
             /\ NextUse(b, i) = IF b \in B THEN i + 1 ELSE NextUse(b, i + 1)
  <2>1. i <= Len(requests) /\ i + 1 <= Len(requests) /\ i + 1 \in Nat
    BY DEF Listed
  <2> QED
    BY <2>1, NextUseGoesOn
<1>3. Cardinality(Soon(S, i, i + 1)) = Cardinality(B \cap S)
  <2>1. \A b : NextUse(b, i) <= i + 1 <=> b \in B
    BY <1>1
  <2>2. Soon(S, i, i + 1) = B \cap S
    BY <2>1 DEF Soon
  <2> QED
    BY <2>2, Zenon
<1>4. ASSUME t > i
      PROVE  Cardinality(Soon(S \cup B, i + 1, t)) + Cardinality(B \cap S)
               = Cardinality(Soon(S, i, t)) + Cardinality(Soon(B, i + 1, t))
  <2> DEFINE Old == Soon(S \ B, i + 1, t)
             New == Soon(B, i + 1, t)
             Both == B \cap S
  <2>1. \A b \in B : NextUse(b, i) <= t
    BY <1>1, <1>4
  <2>2. Soon(S \cup B, i + 1, t) = Old \cup New /\ Old \cap New = {}
    BY DEF Soon
  <2>3. Soon(S, i, t) = Old \cup Both /\ Old \cap Both = {}
    <3>1. \A b : b \notin B => (NextUse(b, i) <= t <=> NextUse(b, i + 1) <= t)
      BY <1>1
    <3> QED
      BY <2>1, <3>1 DEF Soon
  <2>4. IsFiniteSet(Old) /\ IsFiniteSet(New) /\ IsFiniteSet(Both)
    <3>1. Old \subseteq S /\ New \subseteq B /\ Both \subseteq S
      BY DEF Soon
    <3> QED
      BY <3>1, FewerInPart
  <2> HIDE DEF Old, New, Both
  <2>5. /\ Cardinality(Old \cup New) = Cardinality(Old) + Cardinality(New)
        /\ Cardinality(Old \cup Both) = Cardinality(Old) + Cardinality(Both)
    BY <2>2, <2>3, <2>4, DisjointCount
  <2>6. Cardinality(Old) \in Nat /\ Cardinality(New) \in Nat /\ Cardinality(Both) \in Nat
    BY <2>4, FS_CardinalityType
  <2>7. /\ Cardinality(Soon(S \cup B, i + 1, t)) = Cardinality(Old \cup New)
        /\ Cardinality(Soon(S, i, t)) = Cardinality(Old \cup Both)
    BY <2>2, <2>3, Zenon
  <2>8. Cardinality(Soon(S \cup B, i + 1, t)) + Cardinality(Both)
               = Cardinality(Soon(S, i, t)) + Cardinality(New)
    BY <2>5, <2>6, <2>7
  <2> QED
    BY <2>8, Zenon DEF New, Both
<1> QED
  BY <1>3, <1>4

-----------------------------------------------------------------------------
(* Eviction *)

\* Those that are used again sooner than b, or come behind it in the cache.
Outliving(order, i) ==
    [b \in DOMAIN order |-> {x \in DOMAIN order : FurtherUse(order, i, b, x)}]

LEMMA FurtherUseIsOrder ==
    ASSUME Listed, NEW i \in Nat, NEW order, R!IsOrder(order)
    PROVE  /\ R!IsOrder(Outliving(order, i)) /\ DOMAIN Outliving(order, i) = DOMAIN order
           /\ Staying(order, i) = LastOnes(Outliving(order, i), Capacity)
<1> DEFINE all == DOMAIN order
           above == Outliving(order, i)
<1>1. /\ DOMAIN above = all
      /\ \A b \in all : above[b] = {x \in all : FurtherUse(order, i, b, x)}
  BY DEF Outliving
<1>2. \A b : NextUse(b, i) \in Nat
  BY NextUseGoesOn
<1>3. /\ \A a, b \in all : a \in order[b] => b \notin order[a] /\ order[a] \subseteq order[b]
      /\ \A a, b \in all : a = b \/ a \in order[b] \/ b \in order[a]
  BY DEF R!IsOrder
<1>4. \A a, b \in all : FurtherUse(order, i, b, a) => ~FurtherUse(order, i, a, b)
  BY <1>2, <1>3 DEF FurtherUse
<1>5. \A a, b, c \in all :
         FurtherUse(order, i, b, a) /\ FurtherUse(order, i, a, c) => FurtherUse(order, i, b, c)
  <2> SUFFICES ASSUME NEW a \in all, NEW b \in all, NEW c \in all,
                      FurtherUse(order, i, b, a), FurtherUse(order, i, a, c)
               PROVE  FurtherUse(order, i, b, c)
    OBVIOUS
  <2>1. NextUse(b, i) >= NextUse(a, i) /\ NextUse(a, i) >= NextUse(c, i)
    BY <1>2 DEF FurtherUse
  <2>2. CASE NextUse(b, i) = NextUse(c, i)
    <3>1. NextUse(b, i) = NextUse(a, i) /\ NextUse(a, i) = NextUse(c, i)
      BY <1>2, <2>1, <2>2
    <3>2. b \in order[a] /\ a \in order[c]
      BY <1>2, <3>1 DEF FurtherUse
    <3>3. b \in order[c]
      BY <1>3, <3>2
    <3> QED
      BY <2>2, <3>3 DEF FurtherUse
  <2>3. CASE NextUse(b, i) # NextUse(c, i)
    BY <1>2, <2>1, <2>3 DEF FurtherUse
  <2> QED
    BY <2>2, <2>3
<1>6. \A a, b \in all : a = b \/ FurtherUse(order, i, b, a) \/ FurtherUse(order, i, a, b)
  BY <1>2, <1>3 DEF FurtherUse
<1>7. R!IsOrder(above)
  <2>1. above = [b \in all |-> above[b]] /\ \A b \in all : above[b] \in SUBSET all
    BY DEF Outliving
  <2> HIDE DEF above
  <2>2. above \in [DOMAIN above -> SUBSET DOMAIN above]
    BY <1>1, <2>1
  <2>3. \A a, b \in all : a \in above[b] <=> FurtherUse(order, i, b, a)
    BY <1>1
  <2>4. \A a, b \in all : a \in above[b] => b \notin above[a] /\ above[a] \subseteq above[b]
    <3> SUFFICES ASSUME NEW a \in all, NEW b \in all, a \in above[b]
                 PROVE  b \notin above[a] /\ above[a] \subseteq above[b]
      OBVIOUS
    <3>1. b \notin above[a]
      BY <1>4, <2>3
    <3>2. ASSUME NEW c \in above[a] PROVE c \in above[b]
      <4>1. c \in all
        BY <1>1
      <4> QED
        BY <1>5, <2>3, <3>2, <4>1
    <3> QED
      BY <3>1, <3>2
  <2>5. \A a, b \in all : a = b \/ a \in above[b] \/ b \in above[a]
    BY <1>6, <2>3
  <2> QED
    BY <1>1, <2>2, <2>4, <2>5 DEF R!IsOrder
<1>8. Staying(order, i) = LastOnes(above, Capacity)
  <2> HIDE DEF above
  <2> QED
    BY <1>1, Zenon DEF Staying, LastOnes
<1> QED
  BY <1>1, <1>7, <1>8

\* As many stay as fit, and of two blocks the one that is sooner used.
LEMMA SoonestStay ==
    ASSUME Listed, NEW i \in Nat, NEW order, R!IsOrder(order), IsFiniteSet(DOMAIN order),
           NEW t \in Nat
    PROVE  LET stay == Staying(order, i)
               size == Cardinality(DOMAIN order)
           IN  /\ stay \subseteq DOMAIN order
               /\ Cardinality(stay) = IF size < Capacity THEN size ELSE Capacity
               /\ \/ Soon(DOMAIN order, i, t) = Soon(stay, i, t)
                  \/ Cardinality(Soon(stay, i, t)) = Capacity
<1> DEFINE all == DOMAIN order
           above == Outliving(order, i)
<1>1. PICK stay : stay = Staying(order, i)
  OBVIOUS
<1>2. R!IsOrder(above) /\ DOMAIN above = all /\ stay = LastOnes(above, Capacity)
  BY <1>1, FurtherUseIsOrder
<1>3. /\ Cardinality(stay) = IF Cardinality(all) < Capacity THEN Cardinality(all) ELSE Capacity
      /\ \A b \in stay : above[b] \subseteq stay
  <2> HIDE DEF above
  <2> QED
    BY <1>2, CapacityIsNat, CountLastOnes
<1>4. stay \subseteq all
  BY <1>2 DEF LastOnes
<1>5. ASSUME NEW b \in Soon(all, i, t), b \notin stay
      PROVE  Cardinality(Soon(stay, i, t)) = Capacity
  <2>1. b \in all /\ NextUse(b, i) <= t
    BY DEF Soon
  <2>2. \A x \in all : NextUse(x, i) \in Nat
    BY NextUseGoesOn
  <2>3. ASSUME NEW x \in stay PROVE NextUse(x, i) <= t
    <3>1. b \notin above[x] /\ x # b
      BY <1>3, <1>5
    <3>2. x \in above[b]
      BY <1>2, <1>4, <2>1, <3>1 DEF R!IsOrder
    <3>3. FurtherUse(order, i, b, x)
      BY <2>1, <3>2 DEF Outliving
    <3>4. NextUse(b, i) >= NextUse(x, i)
      BY <1>4, <2>1, <2>2, <3>3 DEF FurtherUse
    <3> QED
      BY <1>4, <2>1, <2>2, <3>4
  <2>4. Soon(stay, i, t) = stay
    BY <2>3 DEF Soon
  <2>5. stay # all
    BY <1>5, <2>1
  <2>6. Cardinality(stay) < Cardinality(all) /\ Cardinality(all) \in Nat
    BY <1>4, <2>5, FewerInPart
  <2>7. Cardinality(stay) = Capacity
    BY <1>3, <2>6, CapacityIsNat
  <2> QED
    BY <2>4, <2>7, Zenon
<1>6. (\A b \in Soon(all, i, t) : b \in stay) => Soon(all, i, t) = Soon(stay, i, t)
  BY <1>4 DEF Soon
<1> QED
  BY <1>1, <1>3, <1>4, <1>5, <1>6

-----------------------------------------------------------------------------
(* Admission *)

\* No block comes twice in what a request asks for.
Chained(req) ==
    /\ DOMAIN req = 1..Len(req) /\ Len(req) \in Nat
    /\ \A i, j \in 1..Len(req) : req[i] = req[j] => i = j

LEMMA ChainInFront ==
    ASSUME NEW req, Chained(req)
    PROVE  \A i \in 1..Len(req) : R!InFrontOf(req, req[i]) = {req[k] : k \in 1..(i - 1)}
<1>1. DOMAIN req = 1..Len(req) /\ Len(req) \in Nat
  BY DEF Chained
<1>2. ASSUME NEW i \in 1..Len(req)
      PROVE  {k \in DOMAIN req : \E j \in DOMAIN req : k < j /\ req[j] = req[i]} = 1..(i - 1)
  BY <1>1 DEF Chained
<1>3. ASSUME NEW i \in 1..Len(req)
      PROVE  R!InFrontOf(req, req[i]) = {req[k] : k \in 1..(i - 1)}
  BY <1>2 DEF R!InFrontOf
<1> QED
  BY <1>3

\* The blocks asked for become the most recent ones, the others keep their order.
LEMMA TouchedIsOrder ==
    ASSUME NEW order, R!IsOrder(order), NEW req, Chained(req)
    PROVE  /\ R!IsOrder(R!Touched(order, req))
           /\ DOMAIN R!Touched(order, req) = DOMAIN order \cup Range(req)
<1> DEFINE asked == Range(req)
           old == DOMAIN order \ asked
<1>1. PICK new : new = R!Touched(order, req)
  OBVIOUS
<1>2. R!Range(req) = asked /\ DOMAIN req = 1..Len(req) /\ Len(req) \in Nat
  BY DEF R!Range, Range, Chained
<1>3. new = [b \in old \cup asked |-> IF b \in old THEN order[b] \ asked
                                                 ELSE old \cup R!InFrontOf(req, b)]
  BY <1>1, <1>2 DEF R!Touched
<1>4. DOMAIN new = DOMAIN order \cup asked
  BY <1>3
<1>5. \A b \in old : new[b] = order[b] \ asked
  BY <1>3
<1>6. \A i \in 1..Len(req) : new[req[i]] = old \cup {req[k] : k \in 1..(i - 1)}
  <2> SUFFICES ASSUME NEW i \in 1..Len(req)
               PROVE  new[req[i]] = old \cup {req[k] : k \in 1..(i - 1)}
    OBVIOUS
  <2>1. req[i] \in asked
    BY <1>2 DEF Range
  <2>2. new[req[i]] = old \cup R!InFrontOf(req, req[i])
    BY <1>3, <2>1
  <2> QED
    BY <2>2, ChainInFront
<1>7. /\ \A b \in asked : \E i \in 1..Len(req) : b = req[i]
      /\ \A i \in 1..Len(req) : req[i] \in asked
  BY <1>2 DEF Range
<1>8. \A i \in 1..Len(req) : \A k \in 1..(i - 1) : k \in 1..Len(req)
  BY <1>2
<1>9. \A b \in DOMAIN new : b \in old \/ b \in asked
  BY <1>4
<1> HIDE DEF asked, old
<1>10. new \in [DOMAIN new -> SUBSET DOMAIN new]
  <2>1. \A b \in old : new[b] \subseteq DOMAIN new
    BY <1>4, <1>5 DEF R!IsOrder, old
  <2>2. \A b \in asked : new[b] \subseteq DOMAIN new
    <3> SUFFICES ASSUME NEW i \in 1..Len(req) PROVE new[req[i]] \subseteq DOMAIN new
      BY <1>7
    <3>1. {req[k] : k \in 1..(i - 1)} \subseteq asked
      BY <1>7, <1>8
    <3> QED
      BY <1>4, <1>6, <3>1 DEF old
  <2>3. new = [b \in DOMAIN new |-> new[b]]
    BY <1>3
  <2> QED
    BY <1>9, <2>1, <2>2, <2>3
<1>11. ASSUME NEW a \in DOMAIN new, NEW b \in DOMAIN new, a \in new[b]
       PROVE  b \notin new[a] /\ new[a] \subseteq new[b]
  <2>1. CASE a \in old /\ b \in old
    BY <2>1, <1>5, <1>11 DEF R!IsOrder, old
  <2>2. CASE a \in old /\ b \in asked
    <3>1. PICK j \in 1..Len(req) : b = req[j]
      BY <2>2, <1>7
    <3>2. new[a] \subseteq old /\ b \notin old
      BY <2>2, <1>5 DEF R!IsOrder, old
    <3> QED
      BY <3>1, <3>2, <1>6
  <2>3. CASE a \in asked /\ b \in old
    BY <2>3, <1>5, <1>11
  <2>4. CASE a \in asked /\ b \in asked
    <3>1. PICK i \in 1..Len(req) : a = req[i]
      BY <2>4, <1>7
    <3>2. PICK j \in 1..Len(req) : b = req[j]
      BY <2>4, <1>7
    <3>3. a \notin old /\ b \notin old
      BY <2>4 DEF old
    <3>4. PICK k \in 1..(j - 1) : a = req[k]
      BY <3>2, <3>3, <1>6, <1>11
    <3>5. i = k /\ i < j
      <4>1. k \in 1..Len(req) /\ k < j
        BY <1>2, <3>4
      <4> QED
        BY <3>1, <3>4, <4>1 DEF Chained
    <3>6. b \notin {req[x] : x \in 1..(i - 1)}
      <4> SUFFICES ASSUME NEW x \in 1..(i - 1), b = req[x] PROVE FALSE
        OBVIOUS
      <4>1. x \in 1..Len(req) /\ x # j
        BY <1>2, <3>5
      <4> QED
        BY <3>2, <4>1 DEF Chained
    <3>7. {req[x] : x \in 1..(i - 1)} \subseteq {req[x] : x \in 1..(j - 1)}
      BY <1>2, <3>5
    <3> QED
      BY <3>1, <3>2, <3>3, <3>6, <3>7, <1>6
  <2> QED
    BY <2>1, <2>2, <2>3, <2>4, <1>9
<1>12. ASSUME NEW a \in DOMAIN new, NEW b \in DOMAIN new
       PROVE  a = b \/ a \in new[b] \/ b \in new[a]
  <2>1. CASE a \in old /\ b \in old
    BY <2>1, <1>5 DEF R!IsOrder, old
  <2>2. CASE a \in old /\ b \in asked
    BY <2>2, <1>6, <1>7
  <2>3. CASE a \in asked /\ b \in old
    BY <2>3, <1>6, <1>7
  <2>4. CASE a \in asked /\ b \in asked
    <3>1. PICK i \in 1..Len(req) : a = req[i]
      BY <2>4, <1>7
    <3>2. PICK j \in 1..Len(req) : b = req[j]
      BY <2>4, <1>7
    <3>3. i < j \/ j < i \/ i = j
      BY <1>2
    <3>4. i < j => a \in new[b]
      BY <3>1, <3>2, <1>2, <1>6
    <3>5. j < i => b \in new[a]
      BY <3>1, <3>2, <1>2, <1>6
    <3> QED
      BY <3>1, <3>2, <3>3, <3>4, <3>5
  <2> QED
    BY <2>1, <2>2, <2>3, <2>4, <1>9
<1>13. R!IsOrder(new)
  BY <1>10, <1>11, <1>12 DEF R!IsOrder
<1> QED
  BY <1>1, <1>4, <1>13 DEF asked

LEMMA KeptIsOrder ==
    ASSUME NEW order, R!IsOrder(order), NEW S \in SUBSET DOMAIN order
    PROVE  R!IsOrder(R!Kept(order, S)) /\ DOMAIN R!Kept(order, S) = S
BY DEF R!IsOrder, R!Kept

\* The requests of a stream are chains of finitely many blocks.
LEMMA StreamIsChained ==
    ASSUME StreamInv
    PROVE  /\ Listed
           /\ \A i \in 1..Len(requests) :
                /\ Chained(requests[i].block_hashes)
                /\ IsFiniteSet(BlocksOf(requests[i]))
<1>1. options \in Options /\ requests \in Seq(Requests(options))
  BY DEF StreamInv, Generated
<1>2. Listed
  BY <1>1 DEF Listed
<1>3. ASSUME NEW i \in 1..Len(requests)
      PROVE  Chained(requests[i].block_hashes) /\ IsFiniteSet(BlocksOf(requests[i]))
  <2>1. requests[i] \in Requests(options)
    BY <1>1
  <2>2. PICK t \in Seq(Pieces(options)) :
            requests[i].block_hashes = hash_blocks(t, options.block_size)
    BY <1>1, <2>1, FieldsOfRequests
  <2>3. options.block_size \in Nat \ {0} /\ Counted(Pieces(options))
    BY <1>1, OptionsAreRuns, PiecesOfRun
  <2>4. PICK size \in Nat \ {0} : size = options.block_size
    BY <2>3
  <2>5. PICK f : Counts(f, t)
    BY <2>3, CountsExist
  <2>6. Words(t) \in Nat
    BY <2>3, <2>5, WordsAreCounts DEF Counts
  <2>7. PICK p : p = Words(t) \div size
    OBVIOUS
  <2>8. p \in Nat
    BY <2>6, <2>7
  <2>9. PICK hashes : hashes = requests[i].block_hashes
    OBVIOUS
  <2>10. hashes = [k \in 1..p |-> [texts |-> Spanned(t, k * size), words |-> k * size]]
    BY <2>2, <2>4, <2>7, <2>9 DEF hash_blocks
  <2>11. DOMAIN hashes = 1..p /\ Len(hashes) = p /\ \A k \in 1..p : hashes[k].words = k * size
    BY <2>8, <2>10
  <2>12. ASSUME NEW k \in 1..p, NEW m \in 1..p, hashes[k] = hashes[m] PROVE k = m
    <3>1. k * size = m * size
      BY <2>11, <2>12
    <3> QED
      BY <2>8, <3>1
  <2>13. Chained(hashes)
    BY <2>8, <2>11, <2>12 DEF Chained
  <2>14. IsFiniteSet(Range(hashes))
    <3>1. IsFiniteSet(1..p)
      BY <2>8, FS_Interval
    <3>2. hashes \in Surjection(1..p, Range(hashes))
      BY <2>10, <2>11 DEF Surjection, Range
    <3> QED
      BY <3>1, <3>2, FS_Surjection
  <2> QED
    BY <2>9, <2>13, <2>14 DEF BlocksOf
<1> QED
  BY <1>2, <1>3

-----------------------------------------------------------------------------
(* No way of keeping blocks has more hits *)

\* However far one looks ahead, what a way had and what it keeps for the next uses is no more
\* than what the node had and keeps for them.
Dominated(way, i, C, h) ==
    /\ IsFiniteSet(way.kept) /\ way.hits \in Nat
    /\ \A t \in Nat : t >= i => way.hits + Cardinality(Soon(way.kept, i, t))
                                 <= h + Cardinality(Soon(C, i, t))

LEMMA AdmitDominates ==
    ASSUME Listed, NEW i \in Nat, i < Len(requests), NEW B, B = BlocksOf(requests[i + 1]),
           IsFiniteSet(B), NEW C, IsFiniteSet(C), NEW h \in Nat,
           NEW order, R!IsOrder(order), DOMAIN order = C \cup B,
           NEW way, Dominated(way, i, C, h),
           NEW new, new.hits = way.hits + Cardinality(B \cap way.kept),
           new.kept \subseteq way.kept \cup B, Cardinality(new.kept) <= Capacity
    PROVE  Dominated(new, i + 1, Staying(order, i + 1), h + Cardinality(B \cap C))
<1>1. PICK K : K = way.kept
  OBVIOUS
<1>2. PICK g : g = way.hits
  OBVIOUS
<1>3. PICK L : L = new.kept
  OBVIOUS
<1>4. PICK stay : stay = Staying(order, i + 1)
  OBVIOUS
<1>5. IsFiniteSet(K) /\ g \in Nat /\ i + 1 \in Nat
  BY <1>1, <1>2 DEF Dominated
<1>6. PICK hitK : hitK = Cardinality(B \cap K)
  OBVIOUS
<1>7. PICK hitC : hitC = Cardinality(B \cap C)
  OBVIOUS
<1>8. hitK \in Nat /\ hitC \in Nat
  BY <1>6, <1>7, FewerInPart
<1>9. IsFiniteSet(K \cup B) /\ IsFiniteSet(C \cup B)
  BY <1>5, FS_Union
<1>10. L \subseteq K \cup B /\ IsFiniteSet(L) /\ Cardinality(L) <= Capacity
  BY <1>1, <1>3, <1>9, FewerInPart
<1>11. \A S, t : IsFiniteSet(S) => /\ IsFiniteSet(Soon(S, i + 1, t))
                                  /\ Cardinality(Soon(S, i + 1, t)) \in Nat
                                  /\ Cardinality(Soon(S, i, t)) \in Nat
  <2>1. \A S, t, j : Soon(S, j, t) \subseteq S
    BY DEF Soon
  <2> QED
    BY <2>1, FewerInPart
<1>12. g + hitK <= h + hitC
  <2>1. g + Cardinality(Soon(K, i, i + 1)) <= h + Cardinality(Soon(C, i, i + 1))
    BY <1>1, <1>2, <1>5 DEF Dominated
  <2>2. \A S : IsFiniteSet(S) => Cardinality(Soon(S, i, i + 1)) = Cardinality(B \cap S)
    <3> SUFFICES ASSUME NEW S, IsFiniteSet(S)
                 PROVE  Cardinality(Soon(S, i, i + 1)) = Cardinality(B \cap S)
      OBVIOUS
    <3> QED
      BY AskedWereSoon, ZenonT(30)
  <2>3. /\ Cardinality(Soon(K, i, i + 1)) = hitK
        /\ Cardinality(Soon(C, i, i + 1)) = hitC
    BY <1>5, <1>6, <1>7, <2>2
  <2> QED
    BY <2>1, <2>3
<1>13. ASSUME NEW t \in Nat, t >= i + 1
       PROVE  g + hitK + Cardinality(Soon(L, i + 1, t))
                <= h + hitC + Cardinality(Soon(stay, i + 1, t))
  <2>1. g + Cardinality(Soon(K, i, t)) <= h + Cardinality(Soon(C, i, t))
    BY <1>1, <1>2, <1>13 DEF Dominated
  <2>2. t > i
    BY <1>13
  <2>3. PICK again : again = Cardinality(Soon(B, i + 1, t))
    OBVIOUS
  <2>4. Cardinality(Soon(K \cup B, i + 1, t)) + hitK = Cardinality(Soon(K, i, t)) + again
    BY <1>5, <1>6, <2>2, <2>3, AskedWereSoon
  <2>5. Cardinality(Soon(C \cup B, i + 1, t)) + hitC = Cardinality(Soon(C, i, t)) + again
    BY <1>7, <2>2, <2>3, AskedWereSoon
  <2>6. PICK all : all = Cardinality(Soon(C \cup B, i + 1, t))
    OBVIOUS
  <2>7. PICK some : some = Cardinality(Soon(K \cup B, i + 1, t))
    OBVIOUS
  <2>8. all \in Nat /\ some \in Nat /\ again \in Nat
    BY <1>9, <1>11, <2>3, <2>6, <2>7
  <2>9. g + hitK + some <= h + hitC + all
    <3>1. PICK x : x = Cardinality(Soon(K, i, t))
      OBVIOUS
    <3>2. PICK y : y = Cardinality(Soon(C, i, t))
      OBVIOUS
    <3>3. x \in Nat /\ y \in Nat
      BY <1>5, <1>11, <3>1, <3>2
    <3>4. g + x <= h + y /\ some + hitK = x + again /\ all + hitC = y + again
      BY <2>1, <2>4, <2>5, <2>6, <2>7, <3>1, <3>2
    <3> QED
      BY <1>5, <1>8, <2>8, <3>3, <3>4
  <2>10. PICK kept : kept = Cardinality(Soon(L, i + 1, t))
    OBVIOUS
  <2>11. kept \in Nat /\ kept <= some /\ kept <= Capacity
    <3>1. Soon(L, i + 1, t) \subseteq Soon(K \cup B, i + 1, t) /\ Soon(L, i + 1, t) \subseteq L
      BY <1>10 DEF Soon
    <3>2. /\ Cardinality(Soon(L, i + 1, t)) <= Cardinality(Soon(K \cup B, i + 1, t))
          /\ Cardinality(Soon(L, i + 1, t)) <= Cardinality(L)
          /\ Cardinality(Soon(L, i + 1, t)) \in Nat /\ Cardinality(L) \in Nat
      BY <1>9, <1>10, <1>11, <3>1, FewerInPart
    <3> QED
      BY <1>10, <2>7, <2>10, <3>2, CapacityIsNat
  <2>12. all = Cardinality(Soon(stay, i + 1, t)) \/ Cardinality(Soon(stay, i + 1, t)) = Capacity
    <3>1. \/ Soon(C \cup B, i + 1, t) = Soon(stay, i + 1, t)
          \/ Cardinality(Soon(stay, i + 1, t)) = Capacity
      BY <1>4, <1>5, <1>9, SoonestStay
    <3> QED
      BY <2>6, <3>1
  <2> QED
    BY <1>5, <1>8, <1>12, <2>8, <2>9, <2>10, <2>11, <2>12, CapacityIsNat
<1>14. new.hits = g + hitK /\ new.hits \in Nat
  BY <1>1, <1>2, <1>5, <1>6, <1>8
<1> QED
  BY <1>3, <1>4, <1>7, <1>10, <1>13, <1>14 DEF Dominated

\* ways[k] are the ways of keeping blocks over the first k requests, of n.
WaysRun(ways, n) ==
    ways = [k \in 0..n |-> IF k = 0 THEN {[kept |-> {}, hits |-> 0]}
                                    ELSE Kept(ways[k - 1], requests[k])]

LEMMA WaysTurns ==
    ASSUME NEW ways, NEW n \in Nat, WaysRun(ways, n)
    PROVE  /\ ways[0] = {[kept |-> {}, hits |-> 0]}
           /\ \A k \in 1..n : ways[k] = Kept(ways[k - 1], requests[k])
<1>1. ways = [k \in 0..n |-> IF k = 0 THEN {[kept |-> {}, hits |-> 0]}
                                      ELSE Kept(ways[k - 1], requests[k])]
  BY DEF WaysRun
<1>2. 0 \in 0..n
  OBVIOUS
<1>3. ways[0] = {[kept |-> {}, hits |-> 0]}
  BY <1>1, <1>2, Zenon
<1>4. ASSUME NEW k \in 1..n PROVE ways[k] = Kept(ways[k - 1], requests[k])
  <2>1. k \in 0..n /\ k # 0
    OBVIOUS
  <2> QED
    BY <1>1, <2>1, Zenon
<1> QED
  BY <1>3, <1>4

\* There is one such list.
LEMMA WaysAreUnique ==
    ASSUME NEW n \in Nat, NEW ways, WaysRun(ways, n), NEW others, WaysRun(others, n)
    PROVE  ways[n] = others[n]
<1> DEFINE Bad == {k \in 0..n : ways[k] # others[k]}
<1>1. /\ ways[0] = others[0]
      /\ \A k \in 1..n : /\ ways[k] = Kept(ways[k - 1], requests[k])
                         /\ others[k] = Kept(others[k - 1], requests[k])
  BY WaysTurns
<1>2. Bad = {}
  <2> SUFFICES ASSUME Bad # {} PROVE FALSE
    OBVIOUS
  <2>1. Bad \in SUBSET Nat
    OBVIOUS
  <2>2. PICK k \in Bad : \A m \in Bad : k <= m
    BY <2>1, LeastNumber
  <2>3. k \in 0..n /\ ways[k] # others[k]
    BY <2>2
  <2>4. k # 0
    BY <1>1, <2>3
  <2>5. k \in 1..n /\ k - 1 \in 0..n /\ k - 1 \notin Bad
    BY <2>2, <2>3, <2>4
  <2>6. ways[k - 1] = others[k - 1]
    BY <2>5
  <2>7. ways[k] = Kept(ways[k - 1], requests[k]) /\ others[k] = Kept(others[k - 1], requests[k])
    BY <1>1, <2>5
  <2> QED
    BY <2>3, <2>6, <2>7, Zenon
<1> QED
  BY <1>2

\* One request more.
LEMMA WaysGoOn ==
    ASSUME NEW n \in Nat, NEW ways, WaysRun(ways, n)
    PROVE  \E more : WaysRun(more, n + 1) /\ more[n + 1] = Kept(ways[n], requests[n + 1])
<1> DEFINE last == Kept(ways[n], requests[n + 1])
           more == [k \in 0..(n + 1) |-> IF k = n + 1 THEN last ELSE ways[k]]
<1>1. /\ ways[0] = {[kept |-> {}, hits |-> 0]}
      /\ \A k \in 1..n : ways[k] = Kept(ways[k - 1], requests[k])
  BY WaysTurns
<1>2. more[n + 1] = last /\ \A k \in 0..n : more[k] = ways[k]
  <2> HIDE DEF last
  <2> QED
    OBVIOUS
<1>3. more = [k \in 0..(n + 1) |-> more[k]]
  OBVIOUS
<1> HIDE DEF more
<1>4. ASSUME NEW k \in 0..(n + 1)
      PROVE  more[k] = IF k = 0 THEN {[kept |-> {}, hits |-> 0]}
                                ELSE Kept(more[k - 1], requests[k])
  <2>1. CASE k = 0
    <3>1. more[0] = ways[0]
      BY <1>2
    <3> QED
      BY <1>1, <2>1, <3>1, Zenon
  <2>2. CASE k \in 1..n
    <3>1. more[k] = ways[k] /\ more[k - 1] = ways[k - 1] /\ k # 0
      BY <1>2, <2>2
    <3> QED
      BY <1>1, <2>2, <3>1, Zenon
  <2>3. CASE k = n + 1
    <3>1. more[k - 1] = ways[n] /\ k # 0
      BY <1>2, <2>3
    <3>2. more[k] = Kept(ways[n], requests[k])
      BY <1>2, <2>3, Zenon
    <3> QED
      BY <3>1, <3>2, Zenon
  <2> QED
    BY <2>1, <2>2, <2>3
<1>5. [k \in 0..(n + 1) |-> more[k]]
        = [k \in 0..(n + 1) |-> IF k = 0 THEN {[kept |-> {}, hits |-> 0]}
                                         ELSE Kept(more[k - 1], requests[k])]
  BY <1>4, Zenon
<1>6. WaysRun(more, n + 1)
  BY <1>3, <1>5, Zenon DEF WaysRun
<1> QED
  BY <1>2, <1>6

\* The inductive invariant: what the node keeps is one of the ways, and no way does better, now
\* or in what it holds for any stretch of the future.
Leads(i, C, h) ==
    \E ways :
        /\ WaysRun(ways, i)
        /\ [kept |-> C, hits |-> h] \in ways[i]
        /\ \A way \in ways[i] : Dominated(way, i, C, h)

\* One more request.
LEMMA LeadGoesOn ==
    ASSUME Listed, NEW i \in Nat, i < Len(requests), IsFiniteSet(BlocksOf(requests[i + 1])),
           NEW C, IsFiniteSet(C), NEW h \in Nat, Leads(i, C, h),
           NEW order, R!IsOrder(order), DOMAIN order = C \cup BlocksOf(requests[i + 1])
    PROVE  Leads(i + 1, Staying(order, i + 1),
                 h + Cardinality(BlocksOf(requests[i + 1]) \cap C))
<1>1. PICK ways : /\ WaysRun(ways, i)
                  /\ [kept |-> C, hits |-> h] \in ways[i]
                  /\ \A way \in ways[i] : Dominated(way, i, C, h)
  BY DEF Leads
<1>2. PICK W : W = ways[i]
  OBVIOUS
<1> DEFINE r == requests[i + 1]
           B == BlocksOf(r)
<1>3. B = BlocksOf(requests[i + 1]) /\ IsFiniteSet(B) /\ DOMAIN order = C \cup B
  OBVIOUS
<1>4. PICK more : WaysRun(more, i + 1) /\ more[i + 1] = Kept(W, r)
  BY <1>1, <1>2, WaysGoOn
<1>5. PICK stay : stay = Staying(order, i + 1)
  OBVIOUS
<1>6. PICK h2 : h2 = h + Cardinality(B \cap C)
  OBVIOUS
<1> DEFINE Room(way) == IF Cardinality(way.kept \cup B) < Capacity
                        THEN Cardinality(way.kept \cup B) ELSE Capacity
           After(way, K) == [kept |-> K, hits |-> way.hits + Cardinality(B \cap way.kept)]
<1>7. \A new : new \in Kept(W, r)
        <=> \E way \in W : \E K \in kSubset(Room(way), way.kept \cup B) : new = After(way, K)
  <2> DEFINE One(way) == {After(way, K) : K \in kSubset(Room(way), way.kept \cup B)}
  <2> HIDE DEF r
  <2>1. Kept(W, r) = UNION {One(way) : way \in W}
    BY Zenon DEF Kept
  <2>2. \A new : new \in UNION {One(way) : way \in W} <=> \E way \in W : new \in One(way)
    <3> HIDE DEF One
    <3> QED
      OBVIOUS
  <2>3. \A new, way : new \in One(way)
           <=> \E K \in kSubset(Room(way), way.kept \cup B) : new = After(way, K)
    <3> HIDE DEF Room, After
    <3> QED
      BY Zenon
  <2> HIDE DEF One, Room, After
  <2> QED
    BY <2>1, <2>2, <2>3, Zenon
<1> HIDE DEF r, B
<1>8. \A k, S, K : K \in kSubset(k, S) <=> K \subseteq S /\ Cardinality(K) = k
  BY DEF kSubset
<1>9. [kept |-> stay, hits |-> h2] \in more[i + 1]
  <2>1. PICK way \in W : way.kept = C /\ way.hits = h
    <3>1. [kept |-> C, hits |-> h].kept = C /\ [kept |-> C, hits |-> h].hits = h
      OBVIOUS
    <3> QED
      BY <1>1, <1>2, <3>1, Zenon
  <2>2. IsFiniteSet(DOMAIN order) /\ i + 1 \in Nat /\ 0 \in Nat
    <3>1. IsFiniteSet(C \cup B)
      BY <1>3, FS_Union
    <3> QED
      BY <1>3, <3>1
  <2>3. stay \subseteq C \cup B
        /\ Cardinality(stay) = IF Cardinality(C \cup B) < Capacity
                               THEN Cardinality(C \cup B) ELSE Capacity
    BY <1>3, <1>5, <2>2, SoonestStay
  <2>4. stay \in kSubset(Room(way), way.kept \cup B)
    BY <1>8, <2>1, <2>3
  <2>5. [kept |-> stay, hits |-> h2] = After(way, stay)
    BY <1>6, <2>1, Zenon
  <2> QED
    BY <1>4, <1>7, <2>4, <2>5, Zenon
<1>10. ASSUME NEW new \in more[i + 1] PROVE Dominated(new, i + 1, stay, h2)
  <2>1. PICK way \in W, K \in SUBSET (UNION {x.kept \cup B : x \in W}) :
            K \in kSubset(Room(way), way.kept \cup B) /\ new = After(way, K)
    <3>1. new \in Kept(W, r)
      BY <1>4, <1>10
    <3>2. PICK way \in W : \E K \in kSubset(Room(way), way.kept \cup B) : new = After(way, K)
      BY <1>7, <3>1, Zenon
    <3>3. PICK K \in kSubset(Room(way), way.kept \cup B) : new = After(way, K)
      BY <3>2, Zenon
    <3>4. K \subseteq way.kept \cup B
      BY <1>8
    <3> QED
      BY <3>3, <3>4
  <2>2. K \subseteq way.kept \cup B /\ Cardinality(K) = Room(way)
    BY <1>8, <2>1
  <2>3. Dominated(way, i, C, h)
    BY <1>1, <1>2
  <2>4. Cardinality(way.kept \cup B) \in Nat
    BY <1>3, <2>3, FS_Union, FS_CardinalityType DEF Dominated
  <2>5. Cardinality(K) <= Capacity
    BY <2>2, <2>4, CapacityIsNat
  <2>6. new.kept = K /\ new.hits = way.hits + Cardinality(B \cap way.kept)
    BY <2>1
  <2> HIDE DEF Room, After
  <2>7. Dominated(new, i + 1, Staying(order, i + 1), h + Cardinality(B \cap C))
    BY <1>3, <2>2, <2>3, <2>5, <2>6, AdmitDominates
  <2> QED
    BY <1>5, <1>6, <2>7
<1> QED
  BY <1>3, <1>4, <1>5, <1>6, <1>9, <1>10 DEF Leads

\* At the start nothing is kept.
LEMMA LeadBegins ==
    ASSUME Listed
    PROVE  Leads(0, {}, 0)
<1> DEFINE start == [kept |-> {}, hits |-> 0]
           ways == [k \in 0..0 |-> {start}]
<1>1. WaysRun(ways, 0)
  <2>1. \A k \in 0..0 : {start} = IF k = 0 THEN {[kept |-> {}, hits |-> 0]}
                                          ELSE Kept(ways[k - 1], requests[k])
    <3>1. \A k \in 0..0 : k = 0
      OBVIOUS
    <3> QED
      BY <3>1, Zenon
  <2>2. [k \in 0..0 |-> {start}]
          = [k \in 0..0 |-> IF k = 0 THEN {[kept |-> {}, hits |-> 0]}
                                     ELSE Kept(ways[k - 1], requests[k])]
    BY <2>1, Zenon
  <2> QED
    BY <2>2, Zenon DEF WaysRun
<1>2. ways[0] = {start}
  BY DEF start
<1>3. Dominated(start, 0, {}, 0)
  <2>1. IsFiniteSet({}) /\ start.kept = {} /\ start.hits = 0
    BY FS_EmptySet
  <2>2. \A t : Cardinality(Soon({}, 0, t)) \in Nat
    <3>1. \A t : Soon({}, 0, t) = {}
      BY DEF Soon
    <3> QED
      BY <2>1, <3>1, FS_CardinalityType
  <2> HIDE DEF start
  <2> QED
    BY <2>1, <2>2 DEF Dominated
<1> HIDE DEF ways, start
<1> QED
  BY <1>1, <1>2, <1>3 DEF Leads, start

ReplayInv ==
    /\ at \in Nat /\ at <= Len(requests) /\ hits \in Nat
    /\ R!IsOrder(cache) /\ IsFiniteSet(DOMAIN cache)
    /\ ~sorted => at = 0 /\ DOMAIN cache = {} /\ hits = 0
    /\ Leads(at, DOMAIN cache, hits)

\* While the stream is being generated nothing was replayed.
LEMMA UnstartedLeads ==
    Listed /\ at = 0 /\ hits = 0 /\ R!IsOrder(cache) /\ DOMAIN cache = {} => ReplayInv
<1> SUFFICES ASSUME Listed, at = 0, hits = 0, R!IsOrder(cache), DOMAIN cache = {}
             PROVE  ReplayInv
  OBVIOUS
<1>1. Leads(0, {}, 0)
  BY LeadBegins
<1>2. Leads(at, DOMAIN cache, hits)
  BY <1>1, Zenon
<1>3. IsFiniteSet(DOMAIN cache)
  BY FS_EmptySet
<1> QED
  BY <1>2, <1>3 DEF ReplayInv, Listed

LEMMA UnstartedLeadsNext ==
    (Listed /\ at = 0 /\ hits = 0 /\ R!IsOrder(cache) /\ DOMAIN cache = {} => ReplayInv)'
BY UnstartedLeads, PTL

\* Nothing but the requests decides what leads.
LEMMA LeadsAlike ==
    ASSUME UNCHANGED requests, NEW i, NEW C, NEW h
    PROVE  Leads(i, C, h)' <=> Leads(i, C, h)
<1>1. \A b, k : NextUse(b, k)' = NextUse(b, k)
  BY DEF NextUse, Uses, Never
<1>2. \A S, k, t : Soon(S, k, t)' = Soon(S, k, t)
  BY <1>1 DEF Soon
<1>3. \A way : Dominated(way, i, C, h)' <=> Dominated(way, i, C, h)
  BY <1>2 DEF Dominated
<1>4. \A ways : WaysRun(ways, i)' <=> WaysRun(ways, i)
  BY DEF WaysRun
<1> QED
  BY <1>3, <1>4 DEF Leads

LEMMA StepKeepsReplayInv == StreamInv /\ StreamInv' /\ ReplayInv /\ [Next]_vars => ReplayInv'
<1> SUFFICES ASSUME StreamInv, StreamInv', ReplayInv, [Next]_vars PROVE ReplayInv'
  OBVIOUS
<1>1. CASE Generate /\ UNCHANGED <<cache, at, hits>>
  <2>1. ~sorted
    BY <1>1 DEF Generate, OpenSession, ExtendSession, Query, OneShot, Sort, Opened
  <2>2. at = 0 /\ DOMAIN cache = {} /\ hits = 0 /\ R!IsOrder(cache)
    BY <2>1 DEF ReplayInv
  <2>3. at' = 0 /\ DOMAIN cache' = {} /\ hits' = 0 /\ R!IsOrder(cache)'
    BY <1>1, <2>2 DEF R!IsOrder
  <2>4. Listed'
    BY DEF StreamInv, Generated, Listed
  <2> QED
    BY <2>3, <2>4, UnstartedLeadsNext
<1>2. CASE Admit
  <2>1. PICK i : i = at
    OBVIOUS
  <2>2. PICK C : C = DOMAIN cache
    OBVIOUS
  <2>3. PICK h : h = hits
    OBVIOUS
  <2>4. PICK req : req = requests[i + 1].block_hashes
    OBVIOUS
  <2>5. PICK order : order = R!Touched(cache, req)
    OBVIOUS
  <2>6. PICK B : B = BlocksOf(requests[i + 1])
    OBVIOUS
  <2>7. /\ Listed /\ i \in Nat /\ i < Len(requests) /\ h \in Nat /\ sorted
        /\ R!IsOrder(cache) /\ IsFiniteSet(C) /\ Leads(i, C, h)
    BY <1>2, <2>1, <2>2, <2>3, StreamIsChained DEF ReplayInv, Admit
  <2>8. i + 1 \in 1..Len(requests) /\ i + 1 \in Nat
    BY <2>7 DEF Listed
  <2>9. Chained(req) /\ IsFiniteSet(B)
    BY <2>4, <2>6, <2>8, StreamIsChained
  <2>10. B = Range(req)
    BY <2>4, <2>6 DEF BlocksOf
  <2>11. R!IsOrder(order) /\ DOMAIN order = C \cup B
    BY <2>2, <2>5, <2>7, <2>9, <2>10, TouchedIsOrder
  <2>12. /\ cache' = R!Kept(order, Staying(order, i + 1))
         /\ hits' = h + Cardinality(B \cap C) /\ at' = i + 1
         /\ UNCHANGED <<requests, sorted>>
    BY <1>2, <2>1, <2>2, <2>3, <2>4, <2>5, <2>6 DEF Admit, workloadVars
  <2>13. PICK stay : stay = Staying(order, i + 1)
    OBVIOUS
  <2>14. stay \subseteq DOMAIN order
    BY <2>13, Zenon DEF Staying
  <2>15. R!IsOrder(R!Kept(order, stay)) /\ DOMAIN R!Kept(order, stay) = stay
    BY <2>11, <2>14, KeptIsOrder
  <2>16. R!IsOrder(cache') /\ DOMAIN cache' = stay
    BY <2>12, <2>13, <2>15
  <2>17. IsFiniteSet(stay)
    BY <2>7, <2>9, <2>11, <2>14, FS_Union, FS_Subset
  <2>18. PICK h2 : h2 = h + Cardinality(B \cap C)
    OBVIOUS
  <2>19. Leads(i + 1, stay, h2)
    BY <2>6, <2>7, <2>9, <2>11, <2>13, <2>18, LeadGoesOn
  <2>20. h2 \in Nat
    BY <2>7, <2>18, FewerInPart
  <2>21. Leads(i + 1, stay, h2)'
    BY <2>12, <2>19, LeadsAlike
  <2>22. Leads(at, DOMAIN cache, hits)'
    BY <2>12, <2>16, <2>18, <2>21 DEF Leads
  <2>23. at' \in Nat /\ at' <= Len(requests') /\ hits' \in Nat /\ sorted'
    BY <2>7, <2>8, <2>12, <2>18, <2>20
  <2>24. R!IsOrder(cache)'
    BY <2>16 DEF R!IsOrder
  <2> QED
    BY <2>16, <2>17, <2>22, <2>23, <2>24 DEF ReplayInv
<1>3. CASE UNCHANGED vars
  <2>1. UNCHANGED <<requests, sorted, cache, at, hits>>
    BY <1>3 DEF vars, workloadVars
  <2>2. PICK i : i = at
    OBVIOUS
  <2>3. PICK C : C = DOMAIN cache
    OBVIOUS
  <2>4. PICK h : h = hits
    OBVIOUS
  <2>5. Leads(i, C, h)'
    BY <2>1, <2>2, <2>3, <2>4, LeadsAlike DEF ReplayInv
  <2>6. Leads(at, DOMAIN cache, hits)'
    BY <2>1, <2>2, <2>3, <2>4, <2>5 DEF Leads
  <2> QED
    BY <2>1, <2>6 DEF ReplayInv, R!IsOrder
<1> QED
  BY <1>1, <1>2, <1>3 DEF Next

LEMMA ReplayInvHolds == Spec => []ReplayInv
<1>1. ReplayInit => ReplayInv
  <2> SUFFICES ASSUME ReplayInit PROVE ReplayInv
    OBVIOUS
  <2>1. Listed
    BY DEF ReplayInit, Init, Listed
  <2>2. R!IsOrder(cache) /\ DOMAIN cache = {}
    BY DEF ReplayInit, R!NoBlocks, R!IsOrder
  <2> QED
    BY <2>1, <2>2, UnstartedLeads DEF ReplayInit
<1> QED
  BY <1>1, StepKeepsReplayInv, StreamInvHolds, PTL DEF Spec

\* Evicting what is used again last (BeladyNode._pick_victim, ties from the oldest end, many
\* blocks at a time) has at every point of the stream the most block hits that any way of
\* evicting has, whatever the stream and the capacity.
THEOREM MinIsBest == Spec => []MinIsOptimal
<1>1. StreamInv /\ ReplayInv => MinIsOptimal
  <2> SUFFICES ASSUME StreamInv, ReplayInv PROVE MinIsOptimal
    OBVIOUS
  <2>1. PICK n : n = at
    OBVIOUS
  <2>2. n \in Nat /\ n <= Len(requests) /\ hits \in Nat /\ Listed
    BY <2>1, StreamIsChained DEF ReplayInv
  <2>3. PICK ways : /\ WaysRun(ways, n)
                    /\ [kept |-> DOMAIN cache, hits |-> hits] \in ways[n]
                    /\ \A way \in ways[n] : Dominated(way, n, DOMAIN cache, hits)
    BY <2>1 DEF ReplayInv, Leads
  <2>4. PICK run : run = CHOOSE f : WaysRun(f, n)
    OBVIOUS
  <2>5. WaysRun(run, n)
    BY <2>3, <2>4, Zenon
  <2>6. run[n] = ways[n]
    BY <2>2, <2>3, <2>5, WaysAreUnique
  <2>7. BestHits = Max({way.hits : way \in run[n]})
    BY <2>1, <2>4, Zenon DEF BestHits, WaysRun
  <2>8. ASSUME NEW way \in run[n] PROVE way.hits \in Nat /\ way.hits <= hits
    <3>1. Dominated(way, n, DOMAIN cache, hits)
      BY <2>3, <2>6
    <3>2. \A S : Soon(S, n, n) = {}
      <4>1. \A b : NextUse(b, n) \in Nat /\ NextUse(b, n) > n
        BY <2>2, NextUseGoesOn
      <4>2. \A b : ~(NextUse(b, n) <= n)
        BY <2>2, <4>1
      <4> QED
        BY <4>2 DEF Soon
    <3>3. way.hits + Cardinality(Soon(way.kept, n, n))
             <= hits + Cardinality(Soon(DOMAIN cache, n, n))
      BY <2>2, <3>1 DEF Dominated
    <3>4. /\ Cardinality(Soon(way.kept, n, n)) = 0
          /\ Cardinality(Soon(DOMAIN cache, n, n)) = 0
      BY <3>2, FS_EmptySet
    <3>5. way.hits \in Nat
      BY <3>1 DEF Dominated
    <3> QED
      BY <2>2, <3>3, <3>4, <3>5
  <2>9. PICK H : H = {way.hits : way \in run[n]}
    OBVIOUS
  <2>10. hits \in H
    <3>1. [kept |-> DOMAIN cache, hits |-> hits].hits = hits
      OBVIOUS
    <3> QED
      BY <2>3, <2>6, <2>9, <3>1
  <2>11. \A x \in H : x \in Nat /\ x <= hits
    BY <2>8, <2>9
  <2>12. Max(H) \in H /\ \A x \in H : Max(H) >= x
    BY <2>10, <2>11 DEF Max
  <2>13. Max(H) = hits
    <3>1. PICK m : m = Max(H)
      OBVIOUS
    <3>2. m \in H /\ \A x \in H : m >= x
      BY <2>12, <3>1, Zenon
    <3>3. m \in Nat /\ m <= hits /\ m >= hits
      BY <2>10, <2>11, <3>2
    <3> QED
      BY <2>2, <3>1, <3>3
  <2> QED
    BY <2>7, <2>9, <2>13 DEF MinIsOptimal
<1> QED
  BY <1>1, StreamInvHolds, ReplayInvHolds, PTL
=============================================================================
