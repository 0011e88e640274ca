---------------------------- MODULE ClusterProofs ----------------------------
(***************************************************************************)
(* What is proved of run_simulation: see Cluster.                          *)
(***************************************************************************)
EXTENDS Cluster, OperatorLemmas

\* A chain request's blocks are addressed from 1, and their matches can be counted.
LEMMA MatchesAreCounted ==
    ASSUME NEW req \in Request, NEW blocks
    PROVE  /\ MatchedPrefix(req, blocks) \in 0..Len(req)
           /\ blocks = {} => MatchedPrefix(req, blocks) = 0
<1> DEFINE M == {i \in DOMAIN req : \A j \in 1..i : req[j] \in blocks}
<1>1. req \in Seq(Block) /\ DOMAIN req = 1..Len(req) /\ Len(req) \in Nat
  BY RequestIsChain
<1>2. IsFiniteSet(1..Len(req)) /\ Cardinality(1..Len(req)) = Len(req)
  BY <1>1, FS_Interval, SMTT(30)
<1>3. M \in SUBSET (1..Len(req))
  BY <1>1
<1>4. IsFiniteSet(M) /\ Cardinality(M) <= Len(req) /\ Cardinality(M) \in Nat
  BY <1>2, <1>3, FS_Subset, FS_CardinalityType
<1>5. ASSUME blocks = {} PROVE M = {}
  BY <1>1, <1>5
<1>6. M = {} => Cardinality(M) = 0
  BY FS_EmptySet, Zenon
<1> HIDE DEF M
<1>7. Cardinality(M) \in 0..Len(req) /\ (blocks = {} => Cardinality(M) = 0)
  BY <1>1, <1>4, <1>5, <1>6
<1> QED
  BY <1>7 DEF MatchedPrefix, M

\* Requests are finite, and what they match of a node is a part of them.
LEMMA MatchedIsPart ==
    ASSUME NEW req \in Request, NEW nd
    PROVE  Len(req) \in Nat /\ matched(req, nd) \in Nat /\ matched(req, nd) <= Len(req)
<1>1. Len(req) \in Nat
  BY RequestIsChain
<1> QED
  BY <1>1, MatchesAreCounted DEF matched

-----------------------------------------------------------------------------
(* The cost model *)

\* Some node has the longest prefix, and the lowest id among those that do.
LEMMA HotNodeIsHottest ==
    ASSUME NEW req \in Request, NEW ns
    PROVE  /\ hot_node(req, ns) \in NodeId
           /\ \A n \in NodeId : matched(req, ns[n]) <= matched(req, ns[hot_node(req, ns)])
           /\ \A n \in NodeId : matched(req, ns[n]) = matched(req, ns[hot_node(req, ns)])
                                   => hot_node(req, ns) <= n
<1> DEFINE m(n) == matched(req, ns[n])
           Hot(h) == \A n \in NodeId : m(n) < m(h) \/ (m(n) = m(h) /\ h <= n)
           Missed == {Len(req) - m(n) : n \in NodeId}
<1>1. \A n \in NodeId : m(n) \in Nat /\ m(n) <= Len(req) /\ Len(req) \in Nat
  BY MatchedIsPart
<1>2. 0 \in NodeId /\ NodeId \subseteq Nat
  BY NumNodesIsPositive DEF NodeId
<1> HIDE DEF m
<1>3. PICK k \in NodeId : \A n \in NodeId : m(n) <= m(k)
  <2>1. Missed \in SUBSET Nat /\ Missed # {}
    BY <1>1, <1>2
  <2>2. PICK least \in Missed : \A x \in Missed : least <= x
    <3> HIDE DEF Missed
    <3> QED
      BY <2>1, LeastOf
  <2>3. PICK k \in NodeId : least = Len(req) - m(k)
    BY <2>2
  <2>4. \A n \in NodeId : Len(req) - m(k) <= Len(req) - m(n)
    BY <2>2, <2>3
  <2> QED
    BY <1>1, <2>4
<1>4. PICK h \in NodeId : m(h) = m(k) /\ \A n \in NodeId : m(n) = m(k) => h <= n
  <2> DEFINE Hottest == {n \in NodeId : m(n) = m(k)}
  <2>1. Hottest \in SUBSET Nat /\ Hottest # {}
    BY <1>2
  <2>2. PICK h \in Hottest : \A n \in Hottest : h <= n
    <3> HIDE DEF Hottest
    <3> QED
      BY <2>1, LeastOf
  <2> QED
    BY <2>2
<1>5. Hot(h)
  BY <1>1, <1>3, <1>4
<1>6. hot_node(req, ns) = CHOOSE x \in NodeId : Hot(x)
  BY DEF hot_node, m
<1>7. hot_node(req, ns) \in NodeId /\ Hot(hot_node(req, ns))
  <2> HIDE DEF Hot
  <2> QED
    BY <1>5, <1>6
<1>8. \A n \in NodeId : m(n) <= m(hot_node(req, ns))
  BY <1>1, <1>7
<1>9. \A n \in NodeId : m(n) = m(hot_node(req, ns)) => hot_node(req, ns) <= n
  BY <1>1, <1>7
<1> QED
  BY <1>7, <1>8, <1>9 DEF m

Placement == [node : NodeId, transfer : BOOLEAN, ttft : Nat]

\* Of some placements one comes before all: the order on (ttft, node, transfer) is total.
LEMMA ArgminIsLeast ==
    ASSUME NEW P \in SUBSET Placement, P # {}
    PROVE  Argmin(P) \in P /\ \A q \in P : Before(Argmin(P), q)
<1>1. \A p \in P : p.ttft \in Nat /\ p.node \in Nat /\ p.transfer \in BOOLEAN
  BY NumNodesIsPositive DEF Placement, NodeId
<1>2. PICK a \in P : \A q \in P : a.ttft <= q.ttft
  <2> DEFINE T == {p.ttft : p \in P}
  <2>1. T \in SUBSET Nat /\ T # {}
    BY <1>1
  <2>2. PICK t \in T : \A u \in T : t <= u
    <3> HIDE DEF T
    <3> QED
      BY <2>1, LeastOf
  <2> QED
    BY <2>2
<1>3. PICK b \in P : b.ttft = a.ttft /\ \A q \in P : q.ttft = a.ttft => b.node <= q.node
  <2> DEFINE T == {p.node : p \in {q \in P : q.ttft = a.ttft}}
  <2>1. T \in SUBSET Nat /\ T # {}
    BY <1>1
  <2>2. PICK t \in T : \A u \in T : t <= u
    <3> HIDE DEF T
    <3> QED
      BY <2>1, LeastOf
  <2> QED
    BY <2>2
<1>4. \E c \in P : \A q \in P : Before(c, q)
  <2>1. CASE \E c \in P : c.ttft = b.ttft /\ c.node = b.node /\ ~c.transfer
    BY <1>1, <1>2, <1>3, <2>1 DEF Before
  <2>2. CASE \A c \in P : c.ttft = b.ttft /\ c.node = b.node => c.transfer
    BY <1>1, <1>2, <1>3, <2>2 DEF Before
  <2> QED
    BY <2>1, <2>2
<1> QED
  BY <1>4 DEF Argmin

\* The order has one least placement, up to equality of all three parts.
LEMMA BeforeBoth ==
    ASSUME NEW p \in Placement, NEW q \in Placement, Before(p, q), Before(q, p)
    PROVE  p.ttft = q.ttft /\ p.node = q.node /\ p.transfer = q.transfer
<1>1. /\ p.ttft \in Nat /\ p.node \in Nat /\ p.transfer \in BOOLEAN
      /\ q.ttft \in Nat /\ q.node \in Nat /\ q.transfer \in BOOLEAN
  BY NumNodesIsPositive DEF Placement, NodeId
<1> QED
  BY <1>1 DEF Before

\* Every price is a natural number, and no more blocks are reused than the request has.
LEMMA PricesOfPlacement ==
    ASSUME NEW req \in Request, NEW ns, NEW hot \in NodeId, NEW n \in NodeId,
           NEW t \in Int, NEW transfer \in BOOLEAN, ns[n].busyUntil \in Int
    PROVE  /\ Transferred(req, ns, hot, n, transfer) \in Nat
           /\ Reused(req, ns, hot, n, transfer) \in Nat
           /\ Reused(req, ns, hot, n, transfer) <= Len(req)
           /\ Wait(ns[n], t) \in Nat
           /\ Ttft(req, ns, hot, n, t, transfer) - Wait(ns[n], t) \in Nat
           /\ Ttft(req, ns, hot, n, t, transfer) \in Nat
           /\ predict(req, ns, hot, n, t, transfer) \in Placement
<1> DEFINE sent == Transferred(req, ns, hot, n, transfer)
           missing == Len(req) - matched(req, ns[n]) - sent
           wait == Wait(ns[n], t)
           copy == transfer_time(sent)
           prefill == prefill_time(missing)
<1>1. /\ Len(req) \in Nat
      /\ matched(req, ns[n]) \in Nat /\ matched(req, ns[n]) <= Len(req)
      /\ matched(req, ns[hot]) \in Nat /\ matched(req, ns[hot]) <= Len(req)
  BY MatchedIsPart
<1>2. sent \in Nat /\ missing \in Nat
  BY <1>1 DEF Transferred, MaxOf
<1>3. wait \in Nat
  BY DEF Wait, MaxOf
<1>4. Reused(req, ns, hot, n, transfer) \in Nat /\ Reused(req, ns, hot, n, transfer) <= Len(req)
  BY <1>1, <1>2 DEF Reused
<1> HIDE DEF sent, missing, wait
<1>6. copy \in Nat
  <2>1. sent * BlockTransfer \in Nat
    BY <1>2, PricesAreNat, NatProduct
  <2> QED
    BY <1>2, <2>1, PricesAreNat DEF transfer_time
<1>7. prefill \in Nat
  <2>1. missing * BlockPrefill \in Nat
    BY <1>2, PricesAreNat, NatProduct
  <2> QED
    BY <2>1, PricesAreNat DEF prefill_time
<1> HIDE DEF copy, prefill
<1>5. Ttft(req, ns, hot, n, t, transfer) = wait + copy + prefill
  BY DEF Ttft, sent, missing, wait, copy, prefill
<1>8. wait + copy + prefill \in Nat /\ (wait + copy + prefill) - wait \in Nat
  BY <1>3, <1>6, <1>7
<1>9. predict(req, ns, hot, n, t, transfer) \in Placement
  BY <1>5, <1>8 DEF predict, Placement
<1>10. /\ Ttft(req, ns, hot, n, t, transfer) - wait \in Nat
       /\ Ttft(req, ns, hot, n, t, transfer) \in Nat
  BY <1>5, <1>8
<1> QED
  BY <1>2, <1>3, <1>4, <1>9, <1>10 DEF sent, wait

\* The arms a request may be sent by: best_placement takes the first of them in the order.
LEMMA BestIsFirst ==
    ASSUME NEW req \in Request, NEW ns, NEW t \in Int,
           \A n \in NodeId : ns[n].busyUntil \in Int
    PROVE  LET best == best_placement(req, ns, t)
               hot == hot_node(req, ns)
           IN  /\ <<best.node, best.transfer>> \in Arms(hot)
               /\ best = predict(req, ns, hot, best.node, t, best.transfer)
               /\ best \in Placement
               /\ \A n \in NodeId, transfer \in BOOLEAN : <<n, transfer>> \in Arms(hot) =>
                     Before(best, predict(req, ns, hot, n, t, transfer))
<1> DEFINE best == best_placement(req, ns, t)
           hot == hot_node(req, ns)
           p(c) == predict(req, ns, hot, c[1], t, c[2])
           P == {p(c) : c \in Arms(hot)}
<1>1. hot \in NodeId
  BY HotNodeIsHottest
<1>2. best = Argmin(P)
  BY DEF best_placement
<1> HIDE DEF best, hot
<1>3. \A c \in Arms(hot) : c[1] \in NodeId /\ c[2] \in BOOLEAN /\ c = <<c[1], c[2]>>
  BY DEF Arms
<1>4. \A c \in Arms(hot) : p(c) \in Placement /\ p(c).node = c[1] /\ p(c).transfer = c[2]
  <2> SUFFICES ASSUME NEW c \in Arms(hot)
               PROVE  p(c) \in Placement /\ p(c).node = c[1] /\ p(c).transfer = c[2]
    OBVIOUS
  <2>1. p(c) \in Placement
    BY <1>1, <1>3, PricesOfPlacement
  <2> QED
    BY <2>1 DEF predict
<1>5. P \in SUBSET Placement /\ P # {}
  <2>1. <<hot, FALSE>> \in Arms(hot)
    BY <1>1 DEF Arms
  <2> HIDE DEF p
  <2> QED
    BY <1>4, <2>1
<1>6. best \in P /\ \A q \in P : Before(best, q)
  <2> HIDE DEF P
  <2> QED
    BY <1>2, <1>5, ArgminIsLeast
<1>7. PICK c \in Arms(hot) : best = p(c)
  BY <1>6
<1>8. /\ <<best.node, best.transfer>> \in Arms(hot)
      /\ best = predict(req, ns, hot, best.node, t, best.transfer)
      /\ best \in Placement
  BY <1>3, <1>4, <1>7
<1>9. ASSUME NEW n \in NodeId, NEW transfer \in BOOLEAN, <<n, transfer>> \in Arms(hot)
      PROVE  Before(best, predict(req, ns, hot, n, t, transfer))
  <2>1. p(<<n, transfer>>) \in P
    BY <1>9
  <2>2. p(<<n, transfer>>) = predict(req, ns, hot, n, t, transfer)
    OBVIOUS
  <2> QED
    BY <1>6, <2>1, <2>2
<1> QED
  BY <1>8, <1>9 DEF best, hot

\* No arm is cheaper than the best placement.
LEMMA BestIsCheapest ==
    ASSUME NEW req \in Request, NEW ns, NEW t \in Int,
           \A n \in NodeId : ns[n].busyUntil \in Int,
           NEW n \in NodeId, NEW transfer \in BOOLEAN,
           <<n, transfer>> \in Arms(hot_node(req, ns))
    PROVE  /\ best_placement(req, ns, t).ttft \in Nat
           /\ Ttft(req, ns, hot_node(req, ns), n, t, transfer) \in Nat
           /\ best_placement(req, ns, t).ttft <= Ttft(req, ns, hot_node(req, ns), n, t, transfer)
<1> DEFINE best == best_placement(req, ns, t)
           hot == hot_node(req, ns)
<1>1. hot \in NodeId
  BY HotNodeIsHottest
<1>2. best \in Placement /\ Before(best, predict(req, ns, hot, n, t, transfer))
  BY BestIsFirst
<1> HIDE DEF best, hot
<1>3. Ttft(req, ns, hot, n, t, transfer) \in Nat
  BY <1>1, PricesOfPlacement
<1>4. predict(req, ns, hot, n, t, transfer).ttft = Ttft(req, ns, hot, n, t, transfer)
  BY DEF predict
<1>5. best.ttft \in Nat
  BY <1>2 DEF Placement
<1> QED
  BY <1>2, <1>3, <1>4, <1>5 DEF Before, best, hot

-----------------------------------------------------------------------------
(* The coarse load signal *)

\* Rounding to whole requests moves a time by at most half a request.
LEMMA RoundedIsNear ==
    ASSUME NEW num \in Nat, NEW den \in Nat \ {0}
    PROVE  /\ Rounded(num, den) \in Nat
           /\ 2 * (Rounded(num, den) * den) <= 2 * num + den
           /\ 2 * num - den <= 2 * (Rounded(num, den) * den)
<1> DEFINE low == num \div den
           rest == num % den
<1>1. low \in Nat /\ rest \in Nat /\ rest < den /\ num = den * low + rest
  OBVIOUS
<1>2. Rounded(num, den) = IF 2 * rest > den \/ (2 * rest = den /\ low % 2 = 1) THEN low + 1 ELSE low
  BY DEF Rounded
<1> HIDE DEF low, rest
<1>3. low * den = den * low /\ (low + 1) * den = den * low + den /\ den * low \in Nat
  BY <1>1
<1>4. CASE Rounded(num, den) = low /\ 2 * rest <= den
  BY <1>1, <1>3, <1>4
<1>5. CASE Rounded(num, den) = low + 1 /\ 2 * rest >= den
  BY <1>1, <1>3, <1>5
<1> QED
  BY <1>1, <1>2, <1>4, <1>5

LEMMA NominalIsNat == NominalService \in Nat
<1>1. InterToken * NominalTokens \in Nat
  BY PricesAreNat, PolicyParametersAreNat, NatProduct
<1> QED
  BY <1>1, PricesAreNat DEF NominalService

\* A quantized wait is a whole number of requests, half a request off at most.
LEMMA QuantizedIsNear ==
    ASSUME NEW nd, nd.busyUntil \in Int, NEW t \in Int
    PROVE  /\ QuantizedWait(nd, t) \in Nat /\ Wait(nd, t) \in Nat
           /\ 2 * QuantizedWait(nd, t) <= 2 * Wait(nd, t) + NominalService
           /\ 2 * Wait(nd, t) - NominalService <= 2 * QuantizedWait(nd, t)
           /\ NominalService > 0 => \E k \in Nat : QuantizedWait(nd, t) = k * NominalService
<1>1. Wait(nd, t) \in Nat
  BY DEF Wait, MaxOf
<1>2. CASE NominalService > 0
  <2> DEFINE k == Rounded(Wait(nd, t), NominalService)
  <2>1. NominalService \in Nat \ {0}
    BY <1>2, NominalIsNat
  <2>2. /\ k \in Nat
        /\ 2 * (k * NominalService) <= 2 * Wait(nd, t) + NominalService
        /\ 2 * Wait(nd, t) - NominalService <= 2 * (k * NominalService)
    BY <1>1, <2>1, RoundedIsNear
  <2>3. QuantizedWait(nd, t) = k * NominalService
    BY <1>2 DEF QuantizedWait
  <2> HIDE DEF k
  <2>4. k * NominalService \in Nat
    BY <2>1, <2>2, NatProduct
  <2> QED
    BY <1>1, <2>2, <2>3, <2>4
<1>3. CASE ~(NominalService > 0)
  <2>1. QuantizedWait(nd, t) = Wait(nd, t)
    BY <1>3 DEF QuantizedWait
  <2>2. NominalService = 0
    BY <1>3, NominalIsNat
  <2> QED
    BY <1>1, <2>1, <2>2
<1> QED
  BY <1>2, <1>3

-----------------------------------------------------------------------------
(* What each policy decides *)

\* Staying on a node, without a transfer, is an arm whichever node is hot.
LEMMA ToIsArm ==
    ASSUME NEW n \in NodeId, NEW hot
    PROVE  <<To(n, FALSE).node, To(n, FALSE).transfer>> \in Arms(hot) /\ To(n, FALSE).node = n
BY DEF To, Arms

LEMMA RoundRobinIsNode ==
    ASSUME NEW k \in Nat
    PROVE  k % NumNodes \in NodeId
BY NumNodesIsPositive DEF NodeId

LEMMA LeastLoadedIsNode ==
    ASSUME NEW ns, NEW t \in Int, \A n \in NodeId : ns[n].busyUntil \in Int
    PROVE  \E n \in NodeId : least_loaded(ns, t) = To(n, FALSE)
<1> DEFINE w(n) == QuantizedWait(ns[n], t)
           Least(b) == \A n \in NodeId : w(b) < w(n) \/ (w(b) = w(n) /\ b <= n)
<1>1. \A n \in NodeId : w(n) \in Nat
  BY QuantizedIsNear
<1>2. 0 \in NodeId /\ NodeId \subseteq Nat
  BY NumNodesIsPositive DEF NodeId
<1>3. least_loaded(ns, t) = To(CHOOSE b \in NodeId : Least(b), FALSE)
  BY DEF least_loaded
<1> HIDE DEF w
<1>4. PICK a \in NodeId : \A n \in NodeId : w(a) <= w(n)
  <2> DEFINE T == {w(n) : n \in NodeId}
  <2>1. T \in SUBSET Nat /\ T # {}
    BY <1>1, <1>2
  <2>2. PICK x \in T : \A y \in T : x <= y
    <3> HIDE DEF T
    <3> QED
      BY <2>1, LeastOf
  <2> QED
    BY <2>2
<1>5. PICK b \in NodeId : w(b) = w(a) /\ \A n \in NodeId : w(n) = w(a) => b <= n
  <2> DEFINE T == {n \in NodeId : w(n) = w(a)}
  <2>1. T \in SUBSET Nat /\ T # {}
    BY <1>2
  <2>2. PICK x \in T : \A y \in T : x <= y
    <3> HIDE DEF T
    <3> QED
      BY <2>1, LeastOf
  <2> QED
    BY <2>2
<1>6. Least(b)
  BY <1>1, <1>4, <1>5
<1> HIDE DEF Least
<1> QED
  BY <1>3, <1>6

\* transfer-aware takes an arm, whose true price is at most one nominal service above the
\* best: each of the two waits compared is half a request off at most.
LEMMA TransferAwareIsNear ==
    ASSUME NEW req \in Request, NEW ns, NEW t \in Int,
           \A n \in NodeId : ns[n].busyUntil \in Int
    PROVE  \E n \in NodeId, transfer \in BOOLEAN :
              /\ transfer_aware(req, ns, t) = To(n, transfer)
              /\ <<n, transfer>> \in Arms(hot_node(req, ns))
              /\ Ttft(req, ns, hot_node(req, ns), n, t, transfer)
                    <= best_placement(req, ns, t).ttft + NominalService
<1> DEFINE hot == hot_node(req, ns)
           w(c) == Wait(ns[c[1]], t)
           q(c) == QuantizedWait(ns[c[1]], t)
           x(c) == Ttft(req, ns, hot, c[1], t, c[2])
           Scored(c) == [predict(req, ns, hot, c[1], t, c[2]) EXCEPT !.ttft = @ - w(c) + q(c)]
           P == {Scored(c) : c \in Arms(hot)}
           best == best_placement(req, ns, t)
<1>1. transfer_aware(req, ns, t) = To(Argmin(P).node, Argmin(P).transfer)
  BY DEF transfer_aware
<1>2. hot \in NodeId
  BY HotNodeIsHottest
<1>3. /\ <<best.node, best.transfer>> \in Arms(hot)
      /\ best = predict(req, ns, hot, best.node, t, best.transfer)
  BY BestIsFirst
<1>4. \A c \in Arms(hot) : c[1] \in NodeId /\ c[2] \in BOOLEAN /\ c = <<c[1], c[2]>>
  BY DEF Arms
<1> HIDE DEF hot, best, P, w, q, x
<1>5. ASSUME NEW c \in Arms(hot)
      PROVE  /\ Scored(c) = [node |-> c[1], transfer |-> c[2], ttft |-> (x(c) - w(c)) + q(c)]
             /\ w(c) \in Nat /\ q(c) \in Nat /\ x(c) \in Nat /\ x(c) - w(c) \in Nat
             /\ 2 * q(c) <= 2 * w(c) + NominalService
             /\ 2 * w(c) - NominalService <= 2 * q(c)
  <2>1. c[1] \in NodeId /\ c[2] \in BOOLEAN /\ ns[c[1]].busyUntil \in Int
    BY <1>4
  <2>2. w(c) \in Nat /\ x(c) \in Nat /\ x(c) - w(c) \in Nat
    BY <1>2, <2>1, PricesOfPlacement DEF w, x
  <2>3. /\ q(c) \in Nat
        /\ 2 * q(c) <= 2 * w(c) + NominalService
        /\ 2 * w(c) - NominalService <= 2 * q(c)
    BY <2>1, QuantizedIsNear DEF w, q
  <2>4. Scored(c) = [node |-> c[1], transfer |-> c[2], ttft |-> (x(c) - w(c)) + q(c)]
    BY DEF predict, x
  <2> QED
    BY <2>2, <2>3, <2>4
<1>6. P \in SUBSET Placement /\ P # {}
  <2>1. \A c \in Arms(hot) : Scored(c) \in Placement
    <3> SUFFICES ASSUME NEW c \in Arms(hot)
                 PROVE  Scored(c) \in Placement
      OBVIOUS
    <3> HIDE DEF Scored
    <3>0. x(c) - w(c) \in Nat /\ q(c) \in Nat
      BY <1>5
    <3>1. (x(c) - w(c)) + q(c) \in Nat
      BY <3>0
    <3> QED
      BY <1>4, <1>5, <3>1 DEF Placement
  <2> HIDE DEF Scored
  <2> QED
    BY <1>3, <2>1 DEF P
<1>7. Argmin(P) \in P /\ \A p \in P : Before(Argmin(P), p)
  BY <1>6, ArgminIsLeast
<1> HIDE DEF Scored
<1>8. PICK c \in Arms(hot) : Argmin(P) = Scored(c)
  BY <1>7 DEF P
<1> DEFINE b == <<best.node, best.transfer>>
<1>9. b \in Arms(hot) /\ Scored(b) \in P
  BY <1>3 DEF P
<1>10. Scored(c).ttft <= Scored(b).ttft
  <2>1. Scored(c).ttft \in Nat /\ Scored(b).ttft \in Nat
    BY <1>6, <1>7, <1>8, <1>9 DEF Placement
  <2> QED
    BY <1>7, <1>8, <1>9, <2>1 DEF Before
<1> HIDE DEF b
<1>11. (x(c) - w(c)) + q(c) <= (x(b) - w(b)) + q(b)
  BY <1>5, <1>9, <1>10
<1>12. x(c) <= x(b) + NominalService
  BY <1>5, <1>9, <1>11, NominalIsNat
<1>13. x(b) = best.ttft
  BY <1>3 DEF x, predict, b
<1>14. /\ transfer_aware(req, ns, t) = To(c[1], c[2])
       /\ c[1] \in NodeId /\ c[2] \in BOOLEAN /\ <<c[1], c[2]>> \in Arms(hot)
  BY <1>1, <1>4, <1>5, <1>8
<1> QED
  BY <1>12, <1>13, <1>14 DEF x, hot, best

\* A weighted policy goes to one of the nodes the saturation filter leaves.
LEMMA WeightedIsCandidate ==
    ASSUME NEW req \in Request, NEW ns, NEW t \in Int,
           \A n \in NodeId : ns[n].busyUntil \in Int, NEW held \in [NodeId -> Nat]
    PROVE  /\ Candidates(ns, t) \subseteq NodeId
           /\ \E n \in Candidates(ns, t) : weighted(req, ns, t, held) = To(n, FALSE)
<1> DEFINE C == Candidates(ns, t)
           wait == [n \in C |-> QuantizedWait(ns[n], t)]
           longest == Max(Range(wait))
           spread == MaxOf(1, longest - Min(Range(wait)))
           Score(n) == PrefixWeight * held[n] * spread
                         + LoadWeight * MaxOf(1, Len(req)) * (longest - wait[n])
           Best(b) == \A n \in C : Score(n) < Score(b) \/ (Score(n) = Score(b) /\ b <= n)
<1>1. 0 \in NodeId /\ NodeId \subseteq Nat /\ IsFiniteSet(NodeId)
  BY NumNodesIsPositive, FS_Interval DEF NodeId
<1>2. C \subseteq NodeId /\ C # {}
  BY <1>1 DEF Candidates
<1>3. weighted(req, ns, t, held) = To(CHOOSE b \in C : Best(b), FALSE)
  BY DEF weighted
<1>4. wait \in [C -> Nat]
  BY <1>2, QuantizedIsNear
<1> HIDE DEF C, wait
<1>5. IsFiniteSet(C)
  BY <1>1, <1>2, FS_Subset
<1>6. longest \in Int
  BY <1>2, <1>4, <1>5, GreatestValue
<1>7. Min(Range(wait)) \in Int
  <2> DEFINE T == Range(wait)
  <2>1. T \in SUBSET Nat /\ T # {}
    BY <1>2, <1>4 DEF Range
  <2> HIDE DEF T
  <2>2. \E x \in T : \A y \in T : x <= y
    BY <2>1, LeastOf
  <2>3. Min(T) \in T
    BY <2>2 DEF Min
  <2> QED
    BY <2>1, <2>3 DEF T
<1> HIDE DEF longest
<1>8. spread \in Int
  BY <1>6, <1>7 DEF MaxOf
<1> HIDE DEF spread
<1>9. \A n \in C : Score(n) \in Int
  <2> SUFFICES ASSUME NEW n \in C
               PROVE  Score(n) \in Int
    OBVIOUS
  <2>1. /\ held[n] \in Int /\ wait[n] \in Int /\ longest - wait[n] \in Int
        /\ PrefixWeight \in Int /\ LoadWeight \in Int
    BY <1>2, <1>4, <1>6, PolicyParametersAreNat
  <2>2. MaxOf(1, Len(req)) \in Int
    BY MatchedIsPart DEF MaxOf
  <2> QED
    BY <1>8, <2>1, <2>2, SMTT(30)
<1> HIDE DEF Score
<1>10. PICK a \in C : \A n \in C : Score(n) <= Score(a)
  <2> DEFINE score == [n \in C |-> Score(n)]
  <2>1. score \in [C -> Int]
    BY <1>9
  <2>2. PICK a \in C : \A n \in C : score[n] <= score[a]
    <3> HIDE DEF score
    <3> QED
      BY <1>2, <1>5, <2>1, GreatestValue
  <2> QED
    BY <2>2
<1>11. PICK b \in C : Score(b) = Score(a) /\ \A n \in C : Score(n) = Score(a) => b <= n
  <2> DEFINE T == {n \in C : Score(n) = Score(a)}
  <2>1. T \in SUBSET Nat /\ T # {}
    BY <1>1, <1>2
  <2>2. PICK x \in T : \A y \in T : x <= y
    <3> HIDE DEF T
    <3> QED
      BY <2>1, LeastOf
  <2> QED
    BY <2>2
<1>12. Best(b)
  BY <1>9, <1>10, <1>11
<1> HIDE DEF Best
<1> QED
  BY <1>2, <1>3, <1>12 DEF C

\* The node a weighted policy goes to is queued beyond the limit only if every node is.
LEMMA CandidatesAreSpared ==
    ASSUME NEW ns, NEW t \in Int, \A n \in NodeId : ns[n].busyUntil \in Int,
           NEW n \in Candidates(ns, t), 2 * Wait(ns[n], t) > HalfPastLimit
    PROVE  \A m \in NodeId : ~(2 * Wait(ns[m], t) < HalfPastLimit)
<1> DEFINE q(m) == QuantizedWait(ns[m], t)
           N == NominalService
<1>1. N \in Nat /\ SaturationDepth \in Nat
  BY NominalIsNat, PolicyParametersAreNat
<1>2. /\ SaturationLimit = SaturationDepth * N /\ SaturationDepth * N \in Nat
      /\ HalfPastLimit = 2 * SaturationLimit + N
  <2>1. (2 * SaturationDepth + 1) * N = 2 * (SaturationDepth * N) + N
    BY <1>1
  <2> QED
    BY <1>1, <2>1, NatProduct DEF SaturationLimit, HalfPastLimit
<1>3. \A m \in NodeId : /\ q(m) \in Nat /\ Wait(ns[m], t) \in Nat
                        /\ 2 * q(m) <= 2 * Wait(ns[m], t) + N
                        /\ 2 * Wait(ns[m], t) - N <= 2 * q(m)
                        /\ N > 0 => \E k \in Nat : q(m) = k * N
  BY QuantizedIsNear
<1> HIDE DEF q, N
<1>4. n \in NodeId
  BY DEF Candidates
<1>5. q(n) > SaturationLimit
  BY <1>1, <1>2, <1>3, <1>4
<1>6. \A m \in NodeId : q(m) > SaturationLimit
  <2>1. \A m \in NodeId : ~(q(m) <= SaturationLimit)
    BY <1>4, <1>5, <1>1, <1>2, <1>3 DEF Candidates, q
  <2> QED
    BY <1>1, <1>2, <1>3, <2>1
<1> SUFFICES ASSUME NEW m \in NodeId
             PROVE  2 * Wait(ns[m], t) >= HalfPastLimit
  BY <1>1, <1>2, <1>3
<1>7. CASE N = 0
  BY <1>1, <1>2, <1>3, <1>6, <1>7
<1>8. CASE N > 0
  <2>1. PICK k \in Nat : q(m) = k * N
    BY <1>3, <1>8
  <2>2. k * N > SaturationDepth * N
    BY <1>2, <1>6, <2>1
  <2>3. k >= SaturationDepth + 1
    BY <1>1, <1>8, <2>2
  <2>4. k * N >= SaturationDepth * N + N
    BY <1>1, <1>8, <2>3
  <2> QED
    BY <1>1, <1>2, <1>3, <2>1, <2>4
<1> QED
  BY <1>1, <1>7, <1>8

\* The class-aware policies take an arm too, and set no directive of their own.
LEMMA ClassAwareIsArm ==
    ASSUME NEW req \in Request, NEW ns, NEW t \in Int,
           \A n \in NodeId : ns[n].busyUntil \in Int, NEW kind
    PROVE  \E n \in NodeId, transfer \in BOOLEAN :
              /\ class_aware(kind, req, ns, t) = To(n, transfer)
              /\ <<n, transfer>> \in Arms(hot_node(req, ns))
<1>1. ASSUME NEW n \in NodeId
      PROVE  <<n, FALSE>> \in Arms(hot_node(req, ns))
  BY DEF Arms
<1>2. CASE class_aware(kind, req, ns, t) = least_loaded(ns, t)
  BY <1>1, <1>2, LeastLoadedIsNode
<1>3. CASE class_aware(kind, req, ns, t) = cache_local(req, ns)
  BY <1>1, <1>3, HotNodeIsHottest DEF cache_local
<1>4. CASE class_aware(kind, req, ns, t) = transfer_aware(req, ns, t)
  BY <1>4, TransferAwareIsNear
<1> QED
  BY <1>2, <1>3, <1>4 DEF class_aware

\* The three directives a placement may carry.
Unmarked(place) == place.priority = NoPriority /\ place.retain_until = 0
Shed(place) == place.priority = EVICT_FIRST /\ place.retain_until = 0
Leased(place, t) ==
    place.priority = HIGH /\ place.retain_until \in Nat /\ place.retain_until > t

\* The reliability layer marks one-shots and leases the prefixes of tool turns worth a pin,
\* on the node and by the transfer that were chosen.
LEMMA RetainedIsDirective ==
    ASSUME NEW n, NEW transfer, NEW kind, NEW est, NEW t \in Nat,
           WorthPinning(est) => est.mean \in Nat \ {0} /\ est.var \in Nat
    PROVE  LET place == Retained(To(n, transfer), kind, est, t)
           IN  /\ place.node = n /\ place.transfer = transfer
               /\ Unmarked(place) \/ Shed(place) \/ Leased(place, t)
               /\ kind = "oneshot" => Shed(place)
<1> DEFINE plain == To(n, transfer)
           place == Retained(plain, kind, est, t)
<1>1. CASE kind = "oneshot"
  <2>1. place = [plain EXCEPT !.priority = EVICT_FIRST]
    BY <1>1 DEF Retained
  <2>2. place = [node |-> n, transfer |-> transfer, retain_until |-> 0, priority |-> EVICT_FIRST]
    BY <2>1 DEF To
  <2> QED
    BY <2>2 DEF Shed
<1>2. CASE kind # "oneshot" /\ kind = "tool" /\ WorthPinning(est)
  <2> DEFINE until == t + LeaseWindow(est)
  <2>1. place = [plain EXCEPT !.retain_until = until, !.priority = HIGH]
    BY <1>2 DEF Retained
  <2>2. LeaseWindow(est) \in Nat \ {0}
    <3>1. est.mean \in Nat \ {0} /\ est.var \in Nat
      BY <1>2
    <3>2. LeaseWindow(est) \in Nat /\ est.mean <= LeaseWindow(est)
      BY <3>1, LeaseCoversMean
    <3> QED
      BY <3>1, <3>2
  <2>3. until \in Nat /\ until > t
    BY <2>2
  <2> HIDE DEF until
  <2>4. place = [node |-> n, transfer |-> transfer, retain_until |-> until, priority |-> HIGH]
    BY <2>1 DEF To
  <2> QED
    BY <1>2, <2>3, <2>4 DEF Leased
<1>3. CASE kind # "oneshot" /\ ~(kind = "tool" /\ WorthPinning(est))
  <2>1. place = plain
    BY <1>3 DEF Retained
  <2> QED
    BY <1>3, <2>1 DEF To, Unmarked
<1> QED
  BY <1>1, <1>2, <1>3

-----------------------------------------------------------------------------
(* The tables gaps are learned from *)

\* An observation keeps the last-seen table one; the gap to learn is the time since then.
LEMMA ObservedIsTable ==
    ASSUME NEW table, IsTable(table, TrackerCapacity),
           \A k \in DOMAIN table.val : table.val[k] \in Nat,
           NEW scope, NEW tool, NEW at \in Nat
    PROVE  LET seen == Observed(table, scope, tool, at)
           IN  /\ IsTable(seen.tracker, TrackerCapacity)
               /\ \A k \in DOMAIN seen.tracker.val : seen.tracker.val[k] \in Nat
               /\ seen.learn => Has(table, scope) /\ seen.gap = at - table.val[scope]
<1> DEFINE seen == Observed(table, scope, tool, at)
           new == Put(table, scope, at, TrackerCapacity)
           learn == Has(table, scope) /\ tool # NoTool
<1>1. CASE scope = NoScope
  <2>1. seen = [tracker |-> table, learn |-> FALSE, gap |-> 0]
    BY <1>1 DEF Observed
  <2> QED
    BY <2>1
<1>2. CASE scope # NoScope
  <2>1. seen = [tracker |-> new, learn |-> learn,
                gap |-> IF learn THEN at - table.val[scope] ELSE 0]
    BY <1>2 DEF Observed
  <2>2. /\ IsTable(new, TrackerCapacity)
        /\ scope \in DOMAIN new.val /\ new.val[scope] = at
        /\ DOMAIN new.val \subseteq DOMAIN table.val \cup {scope}
        /\ \A k \in DOMAIN new.val \ {scope} : new.val[k] = table.val[k]
    BY PutFits, CapacitiesArePositive
  <2> HIDE DEF new
  <2>3. \A k \in DOMAIN new.val : new.val[k] \in Nat
    BY <2>2
  <2>4. seen.tracker = new /\ seen.learn = learn
        /\ (learn => seen.gap = at - table.val[scope])
    BY <2>1
  <2> HIDE DEF seen
  <2>5. /\ IsTable(seen.tracker, TrackerCapacity)
        /\ \A k \in DOMAIN seen.tracker.val : seen.tracker.val[k] \in Nat
        /\ seen.learn => Has(table, scope) /\ seen.gap = at - table.val[scope]
    BY <2>2, <2>3, <2>4
  <2> QED
    BY <2>5 DEF seen
<1> QED
  BY <1>1, <1>2

\* Learnt gaps are at least one time unit, and so are the means made of them.
IsGapTable(table) ==
    /\ IsTable(table, IndexCapacity)
    /\ \A t \in DOMAIN table.val : table.val[t] \in Stat /\ Scale <= table.val[t].mean

LEMMA RecordedIsGapTable ==
    ASSUME NEW table, IsGapTable(table), NEW tool, NEW g \in Nat \ {0}
    PROVE  IsGapTable(Recorded(table, tool, g))
<1> DEFINE old == IF Has(table, tool) THEN table.val[tool] ELSE NoStat
           stat == Folded(old, g)
           new == Put(table, tool, stat, IndexCapacity)
<1>1. Scale \in Nat \ {0} /\ g * Scale \in Int /\ Scale <= g * Scale
  BY ScaleIsPositive
<1>2. stat \in Stat /\ Scale <= stat.mean
  <2>1. CASE Has(table, tool)
    <3>1. old \in Stat /\ Scale <= old.mean
      BY <2>1 DEF IsGapTable, Has
    <3> HIDE DEF old
    <3>2. /\ stat \in Stat
          /\ \/ old.mean <= stat.mean /\ stat.mean <= g * Scale
             \/ g * Scale <= stat.mean /\ stat.mean <= old.mean
      BY <3>1, FoldedKnown
    <3>3. old.mean \in Int /\ stat.mean \in Int
      BY <3>1, <3>2 DEF Stat
    <3> HIDE DEF stat
    <3> QED
      BY <1>1, <3>1, <3>2, <3>3
  <2>2. CASE ~Has(table, tool)
    <3>1. old = NoStat
      BY <2>2
    <3> HIDE DEF old
    <3>2. stat \in Stat /\ stat.mean = g * Scale
      BY <3>1, FoldedFirst
    <3> QED
      BY <1>1, <3>2
  <2> QED
    BY <2>1, <2>2
<1>3. Recorded(table, tool, g) = new
  BY DEF Recorded
<1> HIDE DEF stat
<1>4. /\ IsTable(new, IndexCapacity)
      /\ tool \in DOMAIN new.val /\ new.val[tool] = stat
      /\ DOMAIN new.val \subseteq DOMAIN table.val \cup {tool}
      /\ \A k \in DOMAIN new.val \ {tool} : new.val[k] = table.val[k]
  BY PutFits, CapacitiesArePositive DEF IsGapTable
<1> HIDE DEF new
<1> QED
  BY <1>2, <1>3, <1>4 DEF IsGapTable

\* The reliability policy's own last-seen table is always the engine's.
Tables ==
    /\ IsTable(last_seen, TrackerCapacity)
    /\ \A c \in DOMAIN last_seen.val : last_seen.val[c] \in Nat
    /\ policy = "class-aware-reliability" => tracker = last_seen
    /\ IsGapTable(gaps)
    /\ now \in Nat

LEMMA InitTables == Init => Tables
<1> SUFFICES ASSUME Init
             PROVE  Tables
  OBVIOUS
<1>1. IsTable(EmptyTable, TrackerCapacity) /\ IsTable(EmptyTable, IndexCapacity)
      /\ DOMAIN EmptyTable.val = {}
  BY EmptyIsTable, CapacitiesArePositive
<1> QED
  BY <1>1 DEF Init, Tables, IsGapTable

\* Whatever the policy, a step is one Serve of a turn that is due.
LEMMA NextServes ==
    ASSUME Next
    PROVE  \E c \in Conversation, at \in now..MaxTime : \E place :
             /\ Arrives(c, at) /\ Serve(c, at, place)
             /\ policy = "class-aware-reliability" => Reliability(c, at)
             /\ policy # "class-aware-reliability" => gaps' = gaps
<1> PICK c \in Conversation, at \in now..MaxTime :
        \/ RoundRobin(c, at) \/ Stateless(c, at) \/ WeightedPrecise(c, at)
        \/ WeightedApprox(c, at) \/ Reliability(c, at)
  BY DEF Next
<1>1. CASE RoundRobin(c, at)
  BY <1>1 DEF RoundRobin
<1>2. CASE Stateless(c, at)
  BY <1>2 DEF Stateless
<1>3. CASE WeightedPrecise(c, at)
  BY <1>3 DEF WeightedPrecise
<1>4. CASE WeightedApprox(c, at)
  BY <1>4 DEF WeightedApprox
<1>5. CASE Reliability(c, at)
  BY <1>5 DEF Reliability
<1> QED
  BY <1>1, <1>2, <1>3, <1>4, <1>5

\* A conversation's turns come at different times, so no gap that is learned is zero.
LEMMA NextTables == Tables /\ [Next]_vars => Tables'
<1> SUFFICES ASSUME Tables, [Next]_vars
             PROVE  Tables'
  OBVIOUS
<1>1. CASE Next
  <2>0. PICK c \in Conversation, at \in now..MaxTime : \E place :
             /\ Arrives(c, at) /\ Serve(c, at, place)
             /\ policy = "class-aware-reliability" => Reliability(c, at)
             /\ policy # "class-aware-reliability" => gaps' = gaps
    BY <1>1, NextServes
  <2>1. PICK place :
             /\ Arrives(c, at) /\ Serve(c, at, place)
             /\ policy = "class-aware-reliability" => Reliability(c, at)
             /\ policy # "class-aware-reliability" => gaps' = gaps
    BY <2>0
  <2> DEFINE tool == Sent(c).tool
             seen == Observed(last_seen, c, tool, at)
  <2>2. at \in Nat
    BY MaxTimeIsNat DEF Tables
  <2>3. last_seen' = seen.tracker /\ policy' = policy /\ now' = at
    BY <2>1 DEF Serve
  <2>4. /\ IsTable(seen.tracker, TrackerCapacity)
        /\ \A k \in DOMAIN seen.tracker.val : seen.tracker.val[k] \in Nat
        /\ seen.learn => Has(last_seen, c) /\ seen.gap = at - last_seen.val[c]
    BY <2>2, ObservedIsTable DEF Tables
  <2>5. CASE policy = "class-aware-reliability"
    <3>1. /\ tracker' = Observed(tracker, c, tool, at).tracker
          /\ gaps' = IF Observed(tracker, c, tool, at).learn
                     THEN Recorded(gaps, tool, Observed(tracker, c, tool, at).gap) ELSE gaps
      BY <2>1, <2>5 DEF Reliability
    <3>2. tracker = last_seen
      BY <2>5 DEF Tables
    <3>3. tracker' = seen.tracker
          /\ gaps' = IF seen.learn THEN Recorded(gaps, tool, seen.gap) ELSE gaps
      BY <3>1, <3>2
    <3> HIDE DEF seen, tool
    <3>4. seen.learn => seen.gap \in Nat \ {0}
      <4> SUFFICES ASSUME seen.learn
                   PROVE  seen.gap \in Nat \ {0}
        OBVIOUS
      <4>1. last_seen.val[c] \in Nat /\ at > last_seen.val[c]
        BY <2>1, <2>4 DEF Arrives, Has, Tables
      <4> QED
        BY <2>2, <2>4, <4>1
    <3>5. IsGapTable(gaps')
      BY <3>3, <3>4, RecordedIsGapTable DEF Tables
    <3> QED
      BY <2>2, <2>3, <2>4, <3>3, <3>5 DEF Tables
  <2>6. CASE policy # "class-aware-reliability"
    <3> HIDE DEF seen, tool
    <3> QED
      BY <2>1, <2>2, <2>3, <2>4, <2>6 DEF Tables
  <2> QED
    BY <2>5, <2>6
<1>2. CASE UNCHANGED vars
  BY <1>2 DEF vars, Tables
<1> QED
  BY <1>1, <1>2

-----------------------------------------------------------------------------
(* A step *)

\* What the engine and the policies keep.
Shape ==
    /\ DOMAIN nodes = NodeId
    /\ \A n \in NodeId : IsNode(nodes[n]) /\ Cardinality(Resident(nodes[n])) <= Capacity
    /\ turn \in [Conversation -> Nat]
    /\ next \in Nat
    /\ result.coupled \in Nat /\ result.reused \in Nat /\ result.total \in Nat

LEMMA BusyIsInt ==
    ASSUME Shape
    PROVE  \A n \in NodeId : nodes[n].busyUntil \in Int
BY DEF Shape, IsNode

LEMMA SentIsTurn ==
    ASSUME Shape, NEW c \in Conversation, turn[c] < Len(Script[c])
    PROVE  /\ Sent(c).blocks \in Request /\ Sent(c).gen \in Nat
           /\ turn[c] \in Nat /\ turn[c] + 1 \in 1..Len(Script[c])
<1> DEFINE Turns == [blocks : Request, messages : Seq(Message), tool : Tool \cup {NoTool},
                     gen : Nat]
<1>1. Script[c] \in Seq(Turns)
  BY ScriptsSendTurns
<1>2. turn[c] \in Nat
  BY DEF Shape
<1>3. \A t \in Turns : t.blocks \in Request /\ t.gen \in Nat
  OBVIOUS
<1> HIDE DEF Turns
<1>4. turn[c] + 1 \in 1..Len(Script[c])
  BY <1>1, <1>2
<1>5. Script[c][turn[c] + 1] \in Turns
  BY <1>1, <1>4
<1> QED
  BY <1>2, <1>3, <1>4, <1>5 DEF Sent

\* What is known of the placement of c's turn: it is an arm, its directive one of the three,
\* and it is what its policy says.
Decision(c, at, place) ==
    LET req == Sent(c).blocks
        t == at * Scale
    IN  /\ place.node \in NodeId /\ place.transfer \in BOOLEAN
        /\ <<place.node, place.transfer>> \in Arms(hot_node(req, nodes))
        /\ Unmarked(place) \/ Shed(place) \/ Leased(place, t)
        /\ policy # "class-aware-reliability" => Unmarked(place)
        /\ policy = "class-aware-reliability" /\ KindOf(c) = "oneshot" => Shed(place)
        /\ policy = "cache-local" => place = cache_local(req, nodes)
        /\ policy = "transfer-aware" =>
             Ttft(req, nodes, hot_node(req, nodes), place.node, t, place.transfer)
               <= best_placement(req, nodes, t).ttft + NominalService
        /\ policy \in {"weighted-precise", "weighted-approx"} =>
             place.node \in Candidates(nodes, t)

LEMMA ToIsUnmarked ==
    ASSUME NEW n, NEW transfer
    PROVE  /\ To(n, transfer).node = n /\ To(n, transfer).transfer = transfer
           /\ Unmarked(To(n, transfer))
BY DEF To, Unmarked

\* Whatever the scorer believes the nodes hold, the weighted policies place as they should.
LEMMA WeightedDecides ==
    ASSUME Shape, NEW c \in Conversation, NEW at \in Nat, Arrives(c, at),
           NEW held \in [NodeId -> Nat], policy \in {"weighted-precise", "weighted-approx"}
    PROVE  Decision(c, at, weighted(Sent(c).blocks, nodes, at * Scale, held))
<1> DEFINE req == Sent(c).blocks
           t == at * Scale
           hot == hot_node(req, nodes)
<1>0. req \in Request
  BY SentIsTurn DEF Arrives
<1>1. t \in Int
  BY ScaleIsPositive, NatProduct
<1>2. \A n \in NodeId : nodes[n].busyUntil \in Int
  BY BusyIsInt
<1>3. \A n \in NodeId : <<n, FALSE>> \in Arms(hot)
  BY DEF Arms
<1> HIDE DEF t, req
<1>4. /\ Candidates(nodes, t) \subseteq NodeId
      /\ \E n \in Candidates(nodes, t) : weighted(req, nodes, t, held) = To(n, FALSE)
  BY <1>0, <1>1, <1>2, WeightedIsCandidate
<1>5. PICK n \in Candidates(nodes, t) : weighted(req, nodes, t, held) = To(n, FALSE)
  BY <1>4
<1> DEFINE place == To(n, FALSE)
<1>6. place.node = n /\ place.transfer = FALSE /\ Unmarked(place)
  BY ToIsUnmarked
<1>7. <<n, FALSE>> \in Arms(hot_node(req, nodes)) /\ n \in NodeId
  BY <1>3, <1>4
<1> HIDE DEF place, hot
<1>8. Decision(c, at, place)
  BY <1>4, <1>6, <1>7 DEF Decision, t, req
<1> QED
  BY <1>5, <1>8 DEF place, t, req

LEMMA StepDecides ==
    ASSUME Shape, Tables, Next
    PROVE  \E c \in Conversation, at \in Nat : \E place :
             Arrives(c, at) /\ Serve(c, at, place) /\ Decision(c, at, place)
<1> PICK c \in Conversation, at \in now..MaxTime :
        \/ RoundRobin(c, at) \/ Stateless(c, at) \/ WeightedPrecise(c, at)
        \/ WeightedApprox(c, at) \/ Reliability(c, at)
  BY DEF Next
<1>1. at \in Nat /\ at * Scale \in Nat
  BY MaxTimeIsNat, ScaleIsPositive, NatProduct DEF Tables
<1>2. \A n \in NodeId : nodes[n].busyUntil \in Int
  BY BusyIsInt
<1>3. Arrives(c, at) /\ Sent(c).blocks \in Request
  BY SentIsTurn DEF RoundRobin, Stateless, WeightedPrecise, WeightedApprox, Reliability, Arrives
<1> PICK req \in Request, t \in Nat : req = Sent(c).blocks /\ t = at * Scale
  BY <1>1, <1>3
<1>t. t \in Int
  OBVIOUS
<1> DEFINE hot == hot_node(req, nodes)
<1>4. \A n \in NodeId : <<n, FALSE>> \in Arms(hot)
  BY DEF Arms
<1>5. CASE RoundRobin(c, at)
  <2> DEFINE place == round_robin(next)
  <2>1. next % NumNodes \in NodeId
    BY RoundRobinIsNode DEF Shape
  <2>2. place = To(next % NumNodes, FALSE)
    BY DEF round_robin
  <2>3. policy = "round-robin" /\ Serve(c, at, place)
    BY <1>5 DEF RoundRobin
  <2> HIDE DEF place, hot
  <2>4. Decision(c, at, place)
    BY <1>4, <2>1, <2>2, <2>3, ToIsUnmarked DEF Decision, hot
  <2> QED
    BY <1>1, <1>3, <2>3, <2>4
<1>6. CASE Stateless(c, at)
  <2>1. CASE policy = "cache-local" /\ Serve(c, at, cache_local(req, nodes))
    <3> DEFINE place == cache_local(req, nodes)
    <3>1. place = To(hot, FALSE) /\ hot \in NodeId
      BY <1>3, HotNodeIsHottest DEF cache_local
    <3>2. place = cache_local(Sent(c).blocks, nodes) /\ Serve(c, at, place)
      BY <2>1
    <3>4. hot = hot_node(Sent(c).blocks, nodes) /\ <<hot, FALSE>> \in Arms(hot)
      BY <1>4, <3>1
    <3> HIDE DEF place, hot
    <3>3. place.node = hot /\ place.transfer = FALSE /\ Unmarked(place)
      BY <3>1, ToIsUnmarked
    <3>5. Decision(c, at, place)
      BY <2>1, <3>1, <3>2, <3>3, <3>4 DEF Decision
    <3> QED
      BY <1>1, <1>3, <3>2, <3>5
  <2>2. CASE policy = "transfer-aware" /\ Serve(c, at, transfer_aware(req, nodes, t))
    <3>1. PICK n \in NodeId, transfer \in BOOLEAN :
              /\ transfer_aware(req, nodes, t) = To(n, transfer)
              /\ <<n, transfer>> \in Arms(hot)
              /\ Ttft(req, nodes, hot, n, t, transfer)
                    <= best_placement(req, nodes, t).ttft + NominalService
      <4> QED
        BY <1>t, <1>2, TransferAwareIsNear
    <3> DEFINE place == To(n, transfer)
    <3>2. Serve(c, at, place)
      BY <2>2, <3>1
    <3>3. place.node = n /\ place.transfer = transfer /\ Unmarked(place)
      BY ToIsUnmarked
    <3> HIDE DEF place, hot
    <3>4. Decision(c, at, place)
      BY <2>2, <3>1, <3>3 DEF Decision, hot
    <3> QED
      BY <1>1, <1>3, <3>2, <3>4
  <2>3. CASE policy = "class-aware" /\ Serve(c, at, class_aware(KindOf(c), req, nodes, t))
    <3>1. PICK n \in NodeId, transfer \in BOOLEAN :
              /\ class_aware(KindOf(c), req, nodes, t) = To(n, transfer)
              /\ <<n, transfer>> \in Arms(hot)
      <4> QED
        BY <1>t, <1>2, ClassAwareIsArm
    <3> DEFINE place == To(n, transfer)
    <3>2. Serve(c, at, place)
      BY <2>3, <3>1
    <3>3. place.node = n /\ place.transfer = transfer /\ Unmarked(place)
      BY ToIsUnmarked
    <3> HIDE DEF place, hot
    <3>4. Decision(c, at, place)
      BY <2>3, <3>1, <3>3 DEF Decision, hot
    <3> QED
      BY <1>1, <1>3, <3>2, <3>4
  <2>4. CASE policy = "oracle" /\ Serve(c, at, oracle(req, nodes, t))
    <3> DEFINE place == oracle(req, nodes, t)
               best == best_placement(req, nodes, t)
    <3>1. /\ place = To(best.node, best.transfer)
          /\ <<best.node, best.transfer>> \in Arms(hot)
      BY <1>t, <1>2, <1>3, BestIsFirst DEF oracle
    <3> HIDE DEF place, best, hot
    <3>2. best.node \in NodeId /\ best.transfer \in BOOLEAN
      BY <3>1 DEF Arms
    <3>3. Decision(c, at, place)
      BY <2>4, <3>1, <3>2, ToIsUnmarked DEF Decision, hot
    <3> QED
      BY <1>1, <1>3, <2>4, <3>3 DEF place
  <2> QED
    BY <1>6, <2>1, <2>2, <2>3, <2>4 DEF Stateless
<1>7. CASE WeightedPrecise(c, at)
  <2> DEFINE held == [n \in NodeId |-> matched(req, nodes[n])]
  <2>1. held \in [NodeId -> Nat]
    BY <1>3, MatchedIsPart
  <2>2. policy = "weighted-precise" /\ Serve(c, at, weighted(req, nodes, t, held))
    BY <1>7 DEF WeightedPrecise
  <2> HIDE DEF held
  <2> QED
    BY <1>1, <1>3, <2>1, <2>2, WeightedDecides
<1>8. CASE WeightedApprox(c, at)
  <2> DEFINE held == [n \in NodeId |-> MatchedPrefix(req, DOMAIN believed[n])]
  <2>1. held \in [NodeId -> Nat]
    BY <1>3, MatchesAreCounted, MatchedIsPart
  <2>2. policy = "weighted-approx" /\ Serve(c, at, weighted(req, nodes, t, held))
    BY <1>8 DEF WeightedApprox
  <2> HIDE DEF held
  <2> QED
    BY <1>1, <1>3, <2>1, <2>2, WeightedDecides
<1>9. CASE Reliability(c, at)
  <2> DEFINE est == Estimate(gaps', Sent(c).tool)
             place == Retained(class_aware(KindOf(c), req, nodes, t), KindOf(c), est, t)
  <2>1. policy = "class-aware-reliability" /\ Serve(c, at, place)
    BY <1>9 DEF Reliability
  <2>2. PICK n \in NodeId, transfer \in BOOLEAN :
              /\ class_aware(KindOf(c), req, nodes, t) = To(n, transfer)
              /\ <<n, transfer>> \in Arms(hot)
    <3> QED
      BY <1>t, <1>2, ClassAwareIsArm
  <2>3. IsGapTable(gaps')
    BY NextTables DEF Tables
  <2>4. WorthPinning(est) => est.mean \in Nat \ {0} /\ est.var \in Nat
    <3> SUFFICES ASSUME WorthPinning(est)
                 PROVE  est.mean \in Nat \ {0} /\ est.var \in Nat
      OBVIOUS
    <3> DEFINE stat == gaps'.val[Sent(c).tool]
    <3>1. Has(gaps', Sent(c).tool) /\ est = [mean |-> stat.mean, var |-> stat.var]
      BY UnseenIsUnsure
    <3>2. stat \in Stat /\ Scale <= stat.mean
      BY <2>3, <3>1 DEF IsGapTable, Has
    <3> HIDE DEF stat, est
    <3>3. est.mean = stat.mean /\ est.var = stat.var
      BY <3>1
    <3> QED
      BY <3>2, <3>3, ScaleIsPositive DEF Stat
  <2> HIDE DEF est
  <2>5. /\ place.node = n /\ place.transfer = transfer
        /\ Unmarked(place) \/ Shed(place) \/ Leased(place, t)
        /\ KindOf(c) = "oneshot" => Shed(place)
    BY <2>2, <2>4, RetainedIsDirective
  <2> HIDE DEF place, hot
  <2>6. Decision(c, at, place)
    BY <2>1, <2>2, <2>5 DEF Decision, hot
  <2> QED
    BY <1>1, <1>3, <2>1, <2>6
<1> QED
  BY <1>5, <1>6, <1>7, <1>8, <1>9

\* What a turn does to the nodes: one admission on the node that was chosen.
LEMMA ServeAdmits ==
    ASSUME Shape, NEW c \in Conversation, NEW at \in Nat, NEW place,
           Arrives(c, at), Serve(c, at, place), Decision(c, at, place)
    PROVE  /\ at * Scale \in Nat /\ Sent(c).blocks \in Request /\ place.node \in NodeId
           /\ place.retain_until \in Nat /\ place.priority \in Int \cup {NoPriority}
           /\ \E service \in Nat :
                 nodes'[place.node] \in Admitted(nodes[place.node], at * Scale, service,
                                      Sent(c).blocks, place.retain_until, place.priority)
           /\ DOMAIN nodes' = NodeId
           /\ \A m \in NodeId \ {place.node} : nodes'[m] = nodes[m]
<1> DEFINE req == Sent(c).blocks
           n == place.node
           hot == hot_node(req, nodes)
           resident == Reused(req, nodes, hot, n, place.transfer)
           service == prefill_time(Len(req) - resident) + Sent(c).gen * InterToken
<1>1. at * Scale \in Nat
  BY ScaleIsPositive, NatProduct
<1>2. req \in Request /\ Sent(c).gen \in Nat
  BY SentIsTurn DEF Arrives
<1>3. n \in NodeId /\ place.transfer \in BOOLEAN
      /\ place.retain_until \in Nat /\ place.priority \in Int \cup {NoPriority}
  BY DEF Decision, Unmarked, Shed, Leased, HIGH, EVICT_FIRST
<1>4. service \in Nat
  <2>1. /\ resident \in Nat /\ resident <= Len(req) /\ Len(req) \in Nat
    BY <1>1, <1>2, <1>3, BusyIsInt, HotNodeIsHottest, PricesOfPlacement, MatchedIsPart
  <2>2. Len(req) - resident \in Nat
    BY <2>1
  <2> HIDE DEF resident, req
  <2>3. (Len(req) - resident) * BlockPrefill \in Nat /\ Sent(c).gen * InterToken \in Nat
    BY <1>2, <2>2, PricesAreNat, NatProduct
  <2> QED
    BY <2>3, PricesAreNat DEF prefill_time
<1>5. \E nd \in Admitted(nodes[n], at * Scale, service, req, place.retain_until, place.priority) :
         nodes' = [nodes EXCEPT ![n] = nd]
  BY DEF Serve, resident_blocks
<1> HIDE DEF service, req, n
<1>6. PICK nd \in Admitted(nodes[n], at * Scale, service, req, place.retain_until, place.priority) :
         nodes' = [nodes EXCEPT ![n] = nd]
  BY <1>5
<1>7. DOMAIN nodes' = NodeId /\ nodes'[n] = nd
      /\ \A m \in NodeId \ {n} : nodes'[m] = nodes[m]
  BY <1>3, <1>6 DEF Shape
<1>8. nodes'[n] \in Admitted(nodes[n], at * Scale, service, req, place.retain_until, place.priority)
  BY <1>6, <1>7
<1> QED
  BY <1>1, <1>2, <1>3, <1>4, <1>7, <1>8 DEF req, n

\* The directive a turn's placement carries, and its admission on the chosen node.
Asked(at, place) == Directive(at * Scale, place.retain_until, place.priority)
ServedOn(c, at, place, full, V) ==
    Admission(nodes[place.node], at * Scale, Sent(c).blocks, Asked(at, place), full, V,
              nodes'[place.node])

LEMMA ServeOutcome ==
    ASSUME Shape, NEW c \in Conversation, NEW at \in Nat, NEW place,
           Arrives(c, at), Serve(c, at, place), Decision(c, at, place)
    PROVE  /\ \E full : \E V \in SUBSET Resident(full) : ServedOn(c, at, place, full, V)
           /\ IsNode(nodes'[place.node])
           /\ Cardinality(Resident(nodes'[place.node])) <= Capacity
<1> DEFINE n == place.node
           req == Sent(c).blocks
           t == at * Scale
<1>1. /\ t \in Nat /\ req \in Request /\ n \in NodeId
      /\ place.retain_until \in Nat /\ place.priority \in Int \cup {NoPriority}
  BY ServeAdmits
<1>2. PICK service \in Nat :
         nodes'[n] \in Admitted(nodes[n], t, service, req, place.retain_until, place.priority)
  BY ServeAdmits
<1>3. IsNode(nodes[n])
  BY <1>1 DEF Shape
<1> HIDE DEF n, req, t
<1> DEFINE full == Seated(nodes[n], t, service, req, place.retain_until, place.priority)
           d == Directive(t, place.retain_until, place.priority)
<1>4. PICK V \in SUBSET Resident(full) : Admission(nodes[n], t, req, d, full, V, nodes'[n])
  BY <1>1, <1>2, <1>3, AdmittedOutcome
<1>5. Cardinality(Resident(nodes'[n])) <= Capacity
  BY <1>1, <1>2, <1>3, AdmittedFits
<1> HIDE DEF full
<1>6. IsNode(nodes'[n])
  BY <1>4 DEF Admission
<1>7. ServedOn(c, at, place, full, V)
  BY <1>4 DEF ServedOn, Asked, n, t, req, d
<1> QED
  BY <1>5, <1>6, <1>7 DEF n

LEMMA InitShape == Init => Shape
<1> SUFFICES ASSUME Init PROVE Shape
  OBVIOUS
<1>1. IsNode(EmptyNode) /\ Resident(EmptyNode) = {}
  BY EmptyIsRecency DEF IsNode, EmptyNode, Resident
<1>2. Cardinality(Resident(EmptyNode)) <= Capacity
  BY <1>1, FS_EmptySet, CapacityIsNat
<1> HIDE DEF EmptyNode
<1> QED
  BY <1>1, <1>2 DEF Init, Shape

LEMMA NextShape == Shape /\ Tables /\ [Next]_vars => Shape'
<1> SUFFICES ASSUME Shape, Tables, [Next]_vars PROVE Shape'
  OBVIOUS
<1>1. CASE UNCHANGED vars
  BY <1>1 DEF vars, Shape, Resident
<1>2. CASE Next
  <2>0. PICK c \in Conversation, at \in Nat : \E place :
             Arrives(c, at) /\ Serve(c, at, place) /\ Decision(c, at, place)
    BY <1>2, StepDecides
  <2>1. PICK place : Arrives(c, at) /\ Serve(c, at, place) /\ Decision(c, at, place)
    BY <2>0
  <2>2. \A n \in NodeId : IsNode(nodes'[n]) /\ Cardinality(Resident(nodes'[n])) <= Capacity
    <3> SUFFICES ASSUME NEW n \in NodeId
                 PROVE  IsNode(nodes'[n]) /\ Cardinality(Resident(nodes'[n])) <= Capacity
      OBVIOUS
    <3>1. CASE n = place.node
      BY <2>1, <3>1, ServeOutcome
    <3>2. CASE n # place.node
      BY <2>1, <3>2, ServeAdmits DEF Shape
    <3> QED
      BY <3>1, <3>2
  <2>3. DOMAIN nodes' = NodeId
    BY <2>1, ServeAdmits
  <2>4. turn' \in [Conversation -> Nat]
    BY <2>1 DEF Serve, Shape
  <2>5. next' \in Nat
    BY <1>2 DEF Next, RoundRobin, Stateless, WeightedPrecise, WeightedApprox, Reliability, Shape
  <2>6. result'.coupled \in Nat /\ result'.reused \in Nat /\ result'.total \in Nat
    <3> DEFINE req == Sent(c).blocks
               hot == hot_node(req, nodes)
               resident == Reused(req, nodes, hot, place.node, place.transfer)
    <3>1. resident \in Nat /\ Len(req) \in Nat
      <4>1. req \in Request /\ place.node \in NodeId /\ place.transfer \in BOOLEAN
        BY <2>1, ServeAdmits DEF Decision
      <4> QED
        BY <4>1, BusyIsInt, HotNodeIsHottest, PricesOfPlacement, MatchedIsPart
    <3>2. /\ result'.coupled = result.coupled + IF IsCoupled(req, at * Scale) THEN 1 ELSE 0
          /\ result'.reused = result.reused + resident
          /\ result'.total = result.total + Len(req)
      BY <2>1 DEF Serve, resident_blocks
    <3> HIDE DEF req, resident
    <3> QED
      BY <3>1, <3>2, SMTT(30) DEF Shape
  <2> QED
    BY <2>2, <2>3, <2>4, <2>5, <2>6 DEF Shape
<1> QED
  BY <1>1, <1>2

\* The nodes keep their shape and fit their capacity; the tables keep theirs.
LEMMA ShapeHolds == Spec => [](Shape /\ Tables)
<1>1. Init => Shape /\ Tables
  BY InitShape, InitTables
<1>2. (Shape /\ Tables) /\ [Next]_vars => (Shape /\ Tables)'
  BY NextShape, NextTables
<1> QED
  BY <1>1, <1>2, PTL DEF Spec

-----------------------------------------------------------------------------
(* cache-local *)

\* While every node but node 0 is as it was created, node 0 is the hot one: it wins every tie.
LEMMA ColdNodesAreNotHot ==
    ASSUME NEW req \in Request, NEW ns, \A n \in NodeId \ {0} : ns[n] = EmptyNode
    PROVE  hot_node(req, ns) = 0
<1> DEFINE m(n) == matched(req, ns[n])
           Hot(h) == \A n \in NodeId : m(n) < m(h) \/ (m(n) = m(h) /\ h <= n)
<1>1. 0 \in NodeId /\ NodeId \subseteq Nat
  BY NumNodesIsPositive DEF NodeId
<1>2. \A n \in NodeId : m(n) \in Nat
  BY MatchesAreCounted, RequestIsChain DEF matched
<1>3. \A n \in NodeId \ {0} : m(n) = 0
  BY MatchesAreCounted DEF matched, EmptyNode, Resident, NoBlocks
<1>4. hot_node(req, ns) = CHOOSE h \in NodeId : Hot(h)
  BY DEF hot_node
<1> HIDE DEF m
<1>5. Hot(0)
  BY <1>1, <1>2, <1>3
<1>6. \A h \in NodeId : Hot(h) => h = 0
  BY <1>1, <1>2, <1>3
<1> HIDE DEF Hot
<1> QED
  BY <1>1, <1>4, <1>5, <1>6

\* cache-local never uses a second node: policies.py's "always the hot node" and hot_node's
\* lowest-id tie together keep every request on node 0.
THEOREM CacheLocalStaysHome == Spec => []CacheLocalUsesOneNode
<1>1. Init => CacheLocalUsesOneNode
  BY DEF Init, CacheLocalUsesOneNode
<1>2. Shape /\ Tables /\ CacheLocalUsesOneNode /\ [Next]_vars => CacheLocalUsesOneNode'
  <2> SUFFICES ASSUME Shape, Tables, CacheLocalUsesOneNode, [Next]_vars
               PROVE  CacheLocalUsesOneNode'
    OBVIOUS
  <2>1. CASE UNCHANGED vars
    BY <2>1 DEF vars, CacheLocalUsesOneNode
  <2>2. CASE Next
    <3>0. PICK c \in Conversation, at \in Nat : \E place :
               Arrives(c, at) /\ Serve(c, at, place) /\ Decision(c, at, place)
      BY <2>2, StepDecides
    <3>1. PICK place : Arrives(c, at) /\ Serve(c, at, place) /\ Decision(c, at, place)
      BY <3>0
    <3>2. Sent(c).blocks \in Request /\ \A m \in NodeId \ {place.node} : nodes'[m] = nodes[m]
      BY <3>1, ServeAdmits
    <3>3. policy' = policy
      BY <3>1 DEF Serve
    <3>4. policy = "cache-local" => place.node = 0
      BY <3>1, <3>2, ColdNodesAreNotHot DEF Decision, CacheLocalUsesOneNode, cache_local, To
    <3> QED
      BY <3>2, <3>3, <3>4 DEF CacheLocalUsesOneNode
  <2> QED
    BY <2>1, <2>2
<1> QED
  BY <1>1, <1>2, ShapeHolds, PTL DEF Spec

-----------------------------------------------------------------------------
(* Regret *)

\* What a turn's last entry says of its placement.
LEMMA LastEntry ==
    ASSUME NEW c, NEW at, NEW place, Serve(c, at, place)
    PROVE  LET req == Sent(c).blocks
               hot == hot_node(req, nodes)
               realized == Ttft(req, nodes, hot, place.node, at * Scale, place.transfer)
           IN  /\ Clock = at * Scale
               /\ Chosen.blocks = req /\ Chosen.node = place.node
               /\ Chosen.transfer = place.transfer
               /\ Chosen.regret =
                     MaxOf(0, realized - best_placement(req, nodes, at * Scale).ttft)
BY DEF Serve, Clock, Chosen

\* No policy's placement is cheaper than the oracle's: the clipped regret loses nothing.
THEOREM OracleIsLeast == Spec => OracleIsLowerBound
<1> DEFINE Exact ==
        LET best == best_placement(Chosen.blocks, nodes, Clock)
            hot == hot_node(Chosen.blocks, nodes)
        IN  Ttft(Chosen.blocks, nodes, hot, Chosen.node, Clock, Chosen.transfer)
              = best.ttft + Chosen.regret
<1>1. Shape /\ Tables /\ [Next]_vars => [Exact]_vars
  <2> SUFFICES ASSUME Shape, Tables, Next PROVE Exact
    OBVIOUS
  <2>0. PICK c \in Conversation, at \in Nat : \E place :
             Arrives(c, at) /\ Serve(c, at, place) /\ Decision(c, at, place)
    BY StepDecides
  <2>1. PICK place : Arrives(c, at) /\ Serve(c, at, place) /\ Decision(c, at, place)
    BY <2>0
  <2> DEFINE req == Sent(c).blocks
             t == at * Scale
             hot == hot_node(req, nodes)
             realized == Ttft(req, nodes, hot, place.node, t, place.transfer)
             least == best_placement(req, nodes, t).ttft
  <2>2. /\ Clock = t /\ Chosen.blocks = req /\ Chosen.node = place.node
        /\ Chosen.transfer = place.transfer /\ Chosen.regret = MaxOf(0, realized - least)
    BY <2>1, LastEntry
  <2>3. realized \in Nat /\ least \in Nat /\ least <= realized
    <3>1. /\ req \in Request /\ t \in Nat /\ place.node \in NodeId /\ place.transfer \in BOOLEAN
          /\ <<place.node, place.transfer>> \in Arms(hot)
      BY <2>1, ServeAdmits DEF Decision
    <3>2. t \in Int
      BY <3>1
    <3> HIDE DEF req, t
    <3> QED
      BY <3>1, <3>2, BusyIsInt, BestIsCheapest DEF hot, realized, least
  <2>4. Chosen.regret = realized - least
    <3> HIDE DEF realized, least
    <3> QED
      BY <2>2, <2>3 DEF MaxOf
  <2>5. Exact <=> realized = least + Chosen.regret
    BY <2>2
  <2> HIDE DEF Exact, realized, least
  <2> QED
    BY <2>3, <2>4, <2>5
<1> QED
  BY <1>1, ShapeHolds, PTL DEF Spec, OracleIsLowerBound

\* Rounding every wait to whole requests costs transfer-aware at most one service time.
THEOREM RoundingIsCheap == Spec => RoundingCostsOneService
<1>1. Shape /\ Tables /\ [Next]_vars
        => [policy = "transfer-aware" => Chosen.regret <= NominalService]_vars
  <2> SUFFICES ASSUME Shape, Tables, Next, policy = "transfer-aware"
               PROVE  Chosen.regret <= NominalService
    OBVIOUS
  <2>0. PICK c \in Conversation, at \in Nat : \E place :
             Arrives(c, at) /\ Serve(c, at, place) /\ Decision(c, at, place)
    BY StepDecides
  <2>1. PICK place : Arrives(c, at) /\ Serve(c, at, place) /\ Decision(c, at, place)
    BY <2>0
  <2> DEFINE req == Sent(c).blocks
             t == at * Scale
             hot == hot_node(req, nodes)
             realized == Ttft(req, nodes, hot, place.node, t, place.transfer)
             least == best_placement(req, nodes, t).ttft
  <2>2. Chosen.regret = MaxOf(0, realized - least)
    BY <2>1, LastEntry
  <2>3. realized \in Nat /\ least \in Nat
    <3>1. /\ req \in Request /\ t \in Nat /\ place.node \in NodeId /\ place.transfer \in BOOLEAN
          /\ <<place.node, place.transfer>> \in Arms(hot)
      BY <2>1, ServeAdmits DEF Decision
    <3>2. t \in Int
      BY <3>1
    <3> HIDE DEF req, t
    <3> QED
      BY <3>1, <3>2, BusyIsInt, BestIsCheapest DEF hot, realized, least
  <2>4. realized <= least + NominalService
    BY <2>1 DEF Decision
  <2> HIDE DEF realized, least
  <2> QED
    BY <2>2, <2>3, <2>4, NominalIsNat DEF MaxOf
<1> QED
  BY <1>1, ShapeHolds, PTL DEF Spec, RoundingCostsOneService

\* The saturation filter holds in exact waits for every depth, price and queue.
THEOREM SaturatedAreSpared == Spec => SaturatedNodesAreSpared
<1> DEFINE Spares ==
        (policy \in {"weighted-precise", "weighted-approx"})
          => ~Clogged(Chosen.node) \/ (\A n \in NodeId : ~Spare(n))
<1>1. Shape /\ Tables /\ [Next]_vars => [Spares]_vars
  <2> SUFFICES ASSUME Shape, Tables, Next,
                      policy \in {"weighted-precise", "weighted-approx"},
                      Clogged(Chosen.node), NEW m \in NodeId
               PROVE  ~Spare(m)
    OBVIOUS
  <2>0. PICK c \in Conversation, at \in Nat : \E place :
             Arrives(c, at) /\ Serve(c, at, place) /\ Decision(c, at, place)
    BY StepDecides
  <2>1. PICK place : Arrives(c, at) /\ Serve(c, at, place) /\ Decision(c, at, place)
    BY <2>0
  <2>2. PICK t \in Nat : t = at * Scale
    BY <2>1, ServeAdmits
  <2>3. Clock = t /\ Chosen.node = place.node
    BY <2>1, <2>2, LastEntry
  <2>4. place.node \in Candidates(nodes, t) /\ 2 * Wait(nodes[place.node], t) > HalfPastLimit
    BY <2>1, <2>2, <2>3 DEF Decision, Clogged
  <2>5. t \in Int
    OBVIOUS
  <2>6. ~(2 * Wait(nodes[m], t) < HalfPastLimit)
    BY <2>4, <2>5, BusyIsInt, CandidatesAreSpared
  <2> QED
    BY <2>3, <2>6 DEF Spare
<1> QED
  BY <1>1, ShapeHolds, PTL DEF Spec, SaturatedNodesAreSpared

-----------------------------------------------------------------------------
(* Marks *)

\* A mark that asks to be shed first, forever; a lease.
IsShed(d) == d = [prio |-> EVICT_FIRST, expiry |-> Forever]
IsLease(d) == d.prio = HIGH /\ d.expiry \in Nat

LEMMA AskedOfNode ==
    ASSUME NEW c \in Conversation, NEW at \in Nat, NEW place, Decision(c, at, place)
    PROVE  /\ Asked(at, place) = NoMark \/ IsShed(Asked(at, place)) \/ IsLease(Asked(at, place))
           /\ policy # "class-aware-reliability" => Asked(at, place) = NoMark
           /\ policy = "class-aware-reliability" /\ KindOf(c) = "oneshot"
                => IsShed(Asked(at, place))
<1> DEFINE t == at * Scale
<1>1. t \in Nat
  BY ScaleIsPositive, NatProduct
<1>2. /\ Unmarked(place) \/ Shed(place) \/ Leased(place, t)
      /\ policy # "class-aware-reliability" => Unmarked(place)
      /\ policy = "class-aware-reliability" /\ KindOf(c) = "oneshot" => Shed(place)
  BY DEF Decision
<1>3. Asked(at, place) = Directive(t, place.retain_until, place.priority)
  BY DEF Asked
<1> HIDE DEF t
<1>4. ASSUME Unmarked(place) PROVE Asked(at, place) = NoMark
  BY <1>1, <1>3, <1>4 DEF Unmarked, Directive
<1>5. ASSUME Shed(place) PROVE IsShed(Asked(at, place))
  <2>1. EVICT_FIRST # NoPriority /\ ClampPriority(EVICT_FIRST) = EVICT_FIRST
    BY NoPriorityIsNone DEF EVICT_FIRST, PINNED, ClampPriority, MaxOf, MinOf
  <2> QED
    BY <1>1, <1>3, <1>5, <2>1 DEF Shed, Directive, IsShed
<1>6. ASSUME Leased(place, t) PROVE IsLease(Asked(at, place))
  <2>1. HIGH # NoPriority /\ ClampPriority(HIGH) = HIGH
    BY NoPriorityIsNone DEF HIGH, EVICT_FIRST, PINNED, ClampPriority, MaxOf, MinOf
  <2>2. Asked(at, place) = [prio |-> HIGH, expiry |-> place.retain_until]
    BY <1>1, <1>3, <1>6, <2>1 DEF Leased, Directive
  <2> QED
    BY <1>6, <2>2 DEF Leased, IsLease
<1> QED
  BY <1>2, <1>4, <1>5, <1>6

\* The marks an admission leaves are those of before and the one asked.
LEMMA AdmissionMarks ==
    ASSUME NEW nd, NEW t, NEW req, NEW d, NEW full, NEW V, NEW new,
           Admission(nd, t, req, d, full, V, new), NEW b \in DOMAIN new.mark
    PROVE  \/ b \in DOMAIN nd.mark /\ new.mark[b] = nd.mark[b]
           \/ d # NoMark /\ new.mark[b] = d
<1>1. full.mark = Marked(nd.mark, req, d)
  BY DEF Admission
<1>2. new.mark = Restrict(full.mark, DOMAIN full.mark \ V)
  BY DEF Admission
<1>3. b \in DOMAIN full.mark /\ new.mark[b] = full.mark[b]
  BY <1>2 DEF Restrict
<1>4. /\ b \in Range(req) => full.mark[b] = d
      /\ b \notin Range(req) => full.mark[b] = nd.mark[b]
  BY <1>1, <1>3, MarkedAt
<1>5. IF b \in Range(req) THEN d # NoMark ELSE b \in DOMAIN nd.mark
  BY <1>1, <1>3, MarkedDomain
<1> QED
  BY <1>3, <1>4, <1>5

LEMMA MarksAfter ==
    ASSUME Shape, NEW c \in Conversation, NEW at \in Nat, NEW place,
           Arrives(c, at), Serve(c, at, place), Decision(c, at, place),
           NEW m \in NodeId, NEW b \in DOMAIN nodes'[m].mark
    PROVE  \/ b \in DOMAIN nodes[m].mark /\ nodes'[m].mark[b] = nodes[m].mark[b]
           \/ Asked(at, place) # NoMark /\ nodes'[m].mark[b] = Asked(at, place)
<1>1. CASE m # place.node
  BY <1>1, ServeAdmits
<1>2. CASE m = place.node
  <2>1. PICK full : \E V \in SUBSET Resident(full) : ServedOn(c, at, place, full, V)
    BY ServeOutcome
  <2>2. PICK V \in SUBSET Resident(full) : ServedOn(c, at, place, full, V)
    BY <2>1
  <2>3. Admission(nodes[m], at * Scale, Sent(c).blocks, Asked(at, place), full, V, nodes'[m])
    BY <1>2, <2>2 DEF ServedOn
  <2> QED
    BY <2>3, AdmissionMarks
<1> QED
  BY <1>1, <1>2

\* Every mark on a node is one the reliability layer asks for, and under every other policy
\* there is none.
OnlyAsked ==
    \A n \in NodeId : \A b \in DOMAIN nodes[n].mark :
        /\ policy = "class-aware-reliability"
        /\ IsShed(nodes[n].mark[b]) \/ IsLease(nodes[n].mark[b])

LEMMA MarksAreAsked == Spec => []OnlyAsked
<1>1. Init => OnlyAsked
  BY DEF Init, OnlyAsked, EmptyNode
<1>2. Shape /\ Tables /\ OnlyAsked /\ [Next]_vars => OnlyAsked'
  <2> SUFFICES ASSUME Shape, Tables, OnlyAsked, [Next]_vars
               PROVE  OnlyAsked'
    OBVIOUS
  <2>1. CASE UNCHANGED vars
    BY <2>1 DEF vars, OnlyAsked
  <2>2. CASE Next
    <3>0. PICK c \in Conversation, at \in Nat : \E place :
               Arrives(c, at) /\ Serve(c, at, place) /\ Decision(c, at, place)
      BY <2>2, StepDecides
    <3>1. PICK place : Arrives(c, at) /\ Serve(c, at, place) /\ Decision(c, at, place)
      BY <3>0
    <3>2. policy' = policy
      BY <3>1 DEF Serve
    <3> SUFFICES ASSUME NEW m \in NodeId, NEW b \in DOMAIN nodes'[m].mark
                 PROVE  /\ policy = "class-aware-reliability"
                        /\ IsShed(nodes'[m].mark[b]) \/ IsLease(nodes'[m].mark[b])
      BY <3>2 DEF OnlyAsked
    <3>3. \/ b \in DOMAIN nodes[m].mark /\ nodes'[m].mark[b] = nodes[m].mark[b]
          \/ Asked(at, place) # NoMark /\ nodes'[m].mark[b] = Asked(at, place)
      BY <3>1, MarksAfter
    <3>4. /\ Asked(at, place) = NoMark \/ IsShed(Asked(at, place)) \/ IsLease(Asked(at, place))
          /\ policy # "class-aware-reliability" => Asked(at, place) = NoMark
      BY <3>1, AskedOfNode
    <3> QED
      BY <3>3, <3>4 DEF OnlyAsked
  <2> QED
    BY <2>1, <2>2
<1> QED
  BY <1>1, <1>2, ShapeHolds, PTL DEF Spec

\* No lease is ever turned into a mark that lasts forever, whatever was learnt: the estimate
\* behind a lease is a mean of positive gaps, so the lease is ahead of the clock.
THEOREM LeasesExpire == Spec => []PinsAreLeases
<1>1. OnlyAsked => PinsAreLeases
  BY ForeverIsNoTime DEF OnlyAsked, PinsAreLeases, IsShed, IsLease, HIGH, EVICT_FIRST
<1> QED
  BY <1>1, MarksAreAsked, PTL

-----------------------------------------------------------------------------
(* One-shots *)

\* When the seated blocks of req are marked to be shed, a victim that is neither one of them
\* nor so marked before would go after all of them: more than the node overflows by.
LEMMA ShedGoesFirst ==
    ASSUME NEW nd, IsNode(nd), Cardinality(Resident(nd)) <= Capacity,
           NEW t \in Nat, NEW req \in Request, NEW d, IsShed(d),
           NEW full, NEW V \in SUBSET Resident(full), NEW new,
           Admission(nd, t, req, d, full, V, new),
           NEW b \in Resident(nd) \ Resident(new), b \notin Range(req)
    PROVE  b \in DOMAIN nd.mark /\ nd.mark[b].prio = EVICT_FIRST
<1> SUFFICES ASSUME ~(b \in DOMAIN nd.mark /\ nd.mark[b].prio = EVICT_FIRST)
             PROVE  FALSE
  OBVIOUS
<1>1. /\ IsNode(full) /\ Resident(full) = Resident(nd) \cup Range(req)
      /\ Cardinality(V) = Overflow(full)
      /\ \A v \in V, s \in Resident(full) \ V : EvictedBefore(full, t, v, s)
      /\ Resident(new) = Resident(full) \ V
      /\ full.mark = Marked(nd.mark, req, d) /\ d \in Marks \cup {NoMark}
  BY DEF Admission
<1>2. b \in V
  BY <1>1
<1>3. nd.mark \in [DOMAIN nd.mark -> Marks] /\ full.mark \in [DOMAIN full.mark -> Marks]
  BY <1>1 DEF IsNode
<1>4. d # NoMark
  BY NoPriorityIsNone DEF IsShed, NoMark, EVICT_FIRST
<1>5. \A x \in DOMAIN full.mark : /\ x \in Range(req) => full.mark[x] = d
                                  /\ x \notin Range(req) => full.mark[x] = nd.mark[x]
  BY <1>1, MarkedAt
<1>18. \A x : x \in DOMAIN full.mark <=> x \in Range(req) \/ x \in DOMAIN nd.mark
  BY <1>1, <1>4, MarkedDomain
<1>6. \A r \in Range(req) : r \in EvictFirstBucket(full, t)
  <2> SUFFICES ASSUME NEW r \in Range(req) PROVE r \in EvictFirstBucket(full, t)
    OBVIOUS
  <2>1. r \in DOMAIN full.mark /\ full.mark[r] = d /\ r \in Resident(full)
    BY <1>1, <1>5, <1>18
  <2> QED
    BY <2>1 DEF EvictFirstBucket, Live, Later, IsShed, EVICT_FIRST
<1>7. b \notin EvictFirstBucket(full, t)
  <2> SUFFICES ASSUME b \in DOMAIN full.mark PROVE ~(full.mark[b].prio < 0)
    BY DEF EvictFirstBucket, Live
  <2>1. b \in DOMAIN nd.mark /\ full.mark[b] = nd.mark[b]
    BY <1>1, <1>5, <1>18
  <2>2. nd.mark[b].prio \in EVICT_FIRST..PINNED
    BY <1>3, <2>1 DEF Marks
  <2> QED
    BY <2>1, <2>2 DEF EVICT_FIRST, PINNED
<1>8. \A r \in Range(req) : r \in V
  <2> SUFFICES ASSUME NEW r \in Range(req), r \notin V PROVE FALSE
    OBVIOUS
  <2>1. EvictedBefore(full, t, b, r) /\ r \in EvictFirstBucket(full, t)
    BY <1>1, <1>2, <1>6
  <2>2. r \notin PinnedBucket(full, t) /\ r \notin UnmarkedBucket(full, t)
    BY <2>1 DEF EvictFirstBucket, PinnedBucket, UnmarkedBucket
  <2> QED
    BY <1>7, <2>1, <2>2 DEF EvictedBefore
<1> DEFINE R == Range(req)
           H == Resident(nd)
           F == Resident(full)
<1>9. IsFiniteSet(H) /\ IsFiniteSet(F)
  BY <1>1, ResidentIsFinite DEF IsNode, Resident
<1>10. F = H \cup R /\ V \subseteq F /\ R \cup {b} \subseteq V /\ b \notin R
  BY <1>1, <1>2, <1>8
<1>11. Cardinality(V) = MaxOf(0, Cardinality(F) - Capacity)
  BY <1>1 DEF Overflow
<1> HIDE DEF R, H, F
<1>12. IsFiniteSet(R) /\ IsFiniteSet(V)
  BY <1>9, <1>10, FS_Subset
<1>13. /\ Cardinality(H) \in Nat /\ Cardinality(F) \in Nat /\ Cardinality(R) \in Nat
       /\ Cardinality(V) \in Nat /\ Cardinality(H \cap R) \in Nat
  BY <1>9, <1>12, FS_CardinalityType, FS_Intersection
<1>14. Cardinality(F) = Cardinality(H) + Cardinality(R) - Cardinality(H \cap R)
  <2>1. Cardinality(H \cup R) = Cardinality(H) + Cardinality(R) - Cardinality(H \cap R)
    BY <1>9, <1>12, FS_Union
  <2>2. Cardinality(F) = Cardinality(H \cup R)
    BY <1>10, Zenon
  <2> QED
    BY <2>1, <2>2
<1>15. Cardinality(R \cup {b}) = Cardinality(R) + 1
  BY <1>10, <1>12, FS_AddElement
<1>16. Cardinality(R \cup {b}) <= Cardinality(V)
  BY <1>10, <1>12, FS_Subset
<1>17. Cardinality(H) <= Capacity
  BY DEF H
<1> QED
  BY <1>11, <1>13, <1>14, <1>15, <1>16, <1>17, CapacityIsNat DEF MaxOf

\* A one-shot never costs any conversation a block, for every capacity and mix of leases.
THEOREM OneShotsAreHarmless == Spec => OneShotsDisplaceNothing
<1> DEFINE Harmless ==
        \A c \in Conversation :
           policy = "class-aware-reliability" /\ turn'[c] # turn[c] /\ KindOf(c) = "oneshot"
           => \A n \in NodeId : \A b \in Resident(nodes[n]) \ Resident(nodes'[n]) :
                \/ b \in Range(Sent(c).blocks)
                \/ b \in DOMAIN nodes[n].mark /\ nodes[n].mark[b].prio = EVICT_FIRST
<1>1. Shape /\ Tables /\ [Next]_vars => [Harmless]_vars
  <2> SUFFICES ASSUME Shape, Tables, Next,
                      NEW k \in Conversation, policy = "class-aware-reliability",
                      turn'[k] # turn[k], KindOf(k) = "oneshot",
                      NEW n \in NodeId, NEW b \in Resident(nodes[n]) \ Resident(nodes'[n]),
                      b \notin Range(Sent(k).blocks)
               PROVE  b \in DOMAIN nodes[n].mark /\ nodes[n].mark[b].prio = EVICT_FIRST
    OBVIOUS
  <2>0. PICK c \in Conversation, at \in Nat : \E place :
             Arrives(c, at) /\ Serve(c, at, place) /\ Decision(c, at, place)
    BY StepDecides
  <2>1. PICK place : Arrives(c, at) /\ Serve(c, at, place) /\ Decision(c, at, place)
    BY <2>0
  <2>2. k = c
    BY <2>1 DEF Serve, Shape
  <2>3. n = place.node
    BY <2>1, ServeAdmits
  <2>4. PICK full : \E V \in SUBSET Resident(full) : ServedOn(c, at, place, full, V)
    BY <2>1, ServeOutcome
  <2>5. PICK V \in SUBSET Resident(full) : ServedOn(c, at, place, full, V)
    BY <2>4
  <2>6. /\ at * Scale \in Nat /\ Sent(c).blocks \in Request
        /\ IsShed(Asked(at, place))
    BY <2>1, <2>2, ServeAdmits, AskedOfNode
  <2>7. PICK t \in Nat, req \in Request : t = at * Scale /\ req = Sent(c).blocks
    BY <2>6
  <2>8. Admission(nodes[n], t, req, Asked(at, place), full, V, nodes'[n])
    BY <2>3, <2>5, <2>7 DEF ServedOn
  <2>9. IsNode(nodes[n]) /\ Cardinality(Resident(nodes[n])) <= Capacity
    BY DEF Shape
  <2>10. b \notin Range(req)
    BY <2>2, <2>7
  <2> QED
    BY <2>6, <2>8, <2>9, <2>10, ShedGoesFirst
<1> QED
  BY <1>1, ShapeHolds, PTL DEF Spec, OneShotsDisplaceNothing

-----------------------------------------------------------------------------
(* Coupling *)

\* Only what is cached decides which node is hot.
LEMMA SameCachesSameHot ==
    ASSUME NEW req \in Request, NEW one, NEW two,
           \A n \in NodeId : Resident(one[n]) = Resident(two[n])
    PROVE  hot_node(req, one) = hot_node(req, two)
<1> DEFINE h == hot_node(req, one)
           k == hot_node(req, two)
<1>1. h \in NodeId /\ k \in NodeId
  BY HotNodeIsHottest
<1>2. \A n \in NodeId : matched(req, one[n]) = matched(req, two[n]) /\ matched(req, one[n]) \in Nat
  BY MatchedIsPart DEF matched
<1>3. /\ matched(req, one[k]) <= matched(req, one[h])
      /\ matched(req, one[k]) = matched(req, one[h]) => h <= k
  BY <1>1, HotNodeIsHottest
<1>4. /\ matched(req, two[h]) <= matched(req, two[k])
      /\ matched(req, two[h]) = matched(req, two[k]) => k <= h
  BY <1>1, HotNodeIsHottest
<1>5. NodeId \subseteq Nat
  BY NumNodesIsPositive DEF NodeId
<1> HIDE DEF h, k
<1>6. h = k
  BY <1>1, <1>2, <1>3, <1>4, <1>5
<1> QED
  BY <1>6 DEF h, k

\* The same caches, whatever the queues.
Alike(one, two) ==
    \A n \in NodeId : /\ Resident(one[n]) = Resident(two[n])
                      /\ one[n].busyUntil \in Int /\ two[n].busyUntil \in Int

\* A price without the node's wait.
Work(req, ns, hot, n, t, transfer) == Ttft(req, ns, hot, n, t, transfer) - Wait(ns[n], t)

\* It is what the caches alone decide.
LEMMA PriceIsWaitAndWork ==
    ASSUME NEW one, NEW two, Alike(one, two), NEW req \in Request, NEW t \in Int,
           NEW hot \in NodeId, NEW n \in NodeId, NEW transfer \in BOOLEAN
    PROVE  Work(req, one, hot, n, t, transfer) = Work(req, two, hot, n, t, transfer)
<1> DEFINE sent(ns) == Transferred(req, ns, hot, n, transfer)
           work(ns) == transfer_time(sent(ns))
                         + prefill_time(Len(req) - matched(req, ns[n]) - sent(ns))
           price(ns) == Ttft(req, ns, hot, n, t, transfer)
<1>0. \A x \in NodeId : /\ Resident(one[x]) = Resident(two[x])
                        /\ one[x].busyUntil \in Int /\ two[x].busyUntil \in Int
  BY DEF Alike
<1>1. matched(req, one[n]) = matched(req, two[n]) /\ matched(req, one[hot]) = matched(req, two[hot])
  BY <1>0 DEF matched
<1>2. sent(one) = sent(two)
  BY <1>1 DEF Transferred
<1>3. work(one) = work(two)
  <2> HIDE DEF sent
  <2> QED
    BY <1>1, <1>2
<1>4. /\ price(one) - Wait(one[n], t) \in Nat /\ price(one) \in Nat /\ Wait(one[n], t) \in Nat
      /\ price(two) - Wait(two[n], t) \in Nat /\ price(two) \in Nat /\ Wait(two[n], t) \in Nat
  BY <1>0, PricesOfPlacement
<1>5. ASSUME NEW ns
      PROVE  price(ns) = Wait(ns[n], t) + transfer_time(sent(ns))
                           + prefill_time(Len(req) - matched(req, ns[n]) - sent(ns))
  BY DEF Ttft
<1>6. ASSUME NEW ns, price(ns) \in Nat, Wait(ns[n], t) \in Nat,
             transfer_time(sent(ns)) \in Nat,
             prefill_time(Len(req) - matched(req, ns[n]) - sent(ns)) \in Nat
      PROVE  work(ns) \in Nat /\ price(ns) = Wait(ns[n], t) + work(ns)
  <2> HIDE DEF sent, price
  <2> QED
    BY <1>5, <1>6
<1>7. ASSUME NEW ns, \A x \in NodeId : ns[x].busyUntil \in Int
      PROVE  /\ transfer_time(sent(ns)) \in Nat
             /\ prefill_time(Len(req) - matched(req, ns[n]) - sent(ns)) \in Nat
  <2>1. /\ sent(ns) \in Nat /\ Reused(req, ns, hot, n, transfer) <= Len(req)
        /\ matched(req, ns[n]) \in Nat /\ Len(req) \in Nat
    BY <1>7, PricesOfPlacement, MatchedIsPart
  <2>2. matched(req, ns[n]) + sent(ns) <= Len(req)
    BY <2>1 DEF Reused
  <2> DEFINE missing == Len(req) - matched(req, ns[n]) - sent(ns)
  <2> HIDE DEF sent
  <2>3. missing \in Nat
    BY <2>1, <2>2
  <2> HIDE DEF missing
  <2>4. sent(ns) * BlockTransfer \in Nat /\ missing * BlockPrefill \in Nat
    BY <2>1, <2>3, PricesAreNat, NatProduct
  <2>5. transfer_time(sent(ns)) \in Nat
    BY <2>1, <2>4, PricesAreNat DEF transfer_time
  <2>6. prefill_time(missing) \in Nat
    BY <2>4, PricesAreNat DEF prefill_time
  <2> QED
    BY <2>5, <2>6 DEF missing
<1> HIDE DEF work, price
<1>8. /\ work(one) \in Nat /\ price(one) = Wait(one[n], t) + work(one)
      /\ work(two) \in Nat /\ price(two) = Wait(two[n], t) + work(two)
  BY <1>0, <1>4, <1>6, <1>7
<1> QED
  BY <1>3, <1>4, <1>8 DEF price, Work

\* The best placement stays the best when its own queue is emptied too, the other queues being
\* empty already.
LEMMA EmptyingBestKeepsIt ==
    ASSUME NEW req \in Request, NEW alone, NEW idle, NEW t \in Int,
           \A n \in NodeId : /\ Resident(alone[n]) = Resident(idle[n])
                             /\ alone[n].busyUntil \in Int /\ idle[n].busyUntil \in Int
                             /\ Wait(idle[n], t) = 0,
           \A n \in NodeId : n # best_placement(req, alone, t).node => Wait(alone[n], t) = 0
    PROVE  /\ best_placement(req, idle, t).node = best_placement(req, alone, t).node
           /\ best_placement(req, idle, t).transfer = best_placement(req, alone, t).transfer
<1> DEFINE a == best_placement(req, alone, t)
           i == best_placement(req, idle, t)
           hot == hot_node(req, alone)
<1>0. \A n \in NodeId : /\ Resident(alone[n]) = Resident(idle[n])
                        /\ alone[n].busyUntil \in Int /\ idle[n].busyUntil \in Int
  OBVIOUS
<1>1. hot \in NodeId /\ hot_node(req, idle) = hot
  BY HotNodeIsHottest, SameCachesSameHot
<1>2. /\ <<a.node, a.transfer>> \in Arms(hot) /\ a \in Placement
      /\ a = predict(req, alone, hot, a.node, t, a.transfer)
      /\ \A n \in NodeId, transfer \in BOOLEAN : <<n, transfer>> \in Arms(hot) =>
            Before(a, predict(req, alone, hot, n, t, transfer))
  BY BestIsFirst
<1>3. /\ <<i.node, i.transfer>> \in Arms(hot) /\ i \in Placement
      /\ i = predict(req, idle, hot, i.node, t, i.transfer)
      /\ \A n \in NodeId, transfer \in BOOLEAN : <<n, transfer>> \in Arms(hot) =>
            Before(i, predict(req, idle, hot, n, t, transfer))
  BY <1>1, BestIsFirst
<1> HIDE DEF a, i, hot
<1>4. /\ a.node \in NodeId /\ a.transfer \in BOOLEAN /\ i.node \in NodeId /\ i.transfer \in BOOLEAN
      /\ NodeId \subseteq Nat
  BY <1>2, <1>3, NumNodesIsPositive DEF Placement, NodeId
<1> DEFINE pa == predict(req, alone, hot, i.node, t, i.transfer)
           pi == predict(req, idle, hot, a.node, t, a.transfer)
<1>5. Before(a, pa) /\ Before(i, pi)
  BY <1>2, <1>3, <1>4
<1>16. Alike(alone, idle)
  BY <1>0 DEF Alike
<1>17. ASSUME NEW n \in NodeId, NEW transfer \in BOOLEAN
       PROVE  Work(req, alone, hot, n, t, transfer) = Work(req, idle, hot, n, t, transfer)
  BY <1>1, <1>16, PriceIsWaitAndWork
<1>6. Ttft(req, alone, hot, a.node, t, a.transfer) - Wait(alone[a.node], t)
        = Ttft(req, idle, hot, a.node, t, a.transfer) - Wait(idle[a.node], t)
  <2>1. Work(req, alone, hot, a.node, t, a.transfer) = Work(req, idle, hot, a.node, t, a.transfer)
    BY <1>4, <1>17
  <2> QED
    BY <2>1 DEF Work
<1>7. Ttft(req, alone, hot, i.node, t, i.transfer) - Wait(alone[i.node], t)
        = Ttft(req, idle, hot, i.node, t, i.transfer) - Wait(idle[i.node], t)
  <2>1. Work(req, alone, hot, i.node, t, i.transfer) = Work(req, idle, hot, i.node, t, i.transfer)
    BY <1>4, <1>17
  <2> QED
    BY <2>1 DEF Work
<1> DEFINE wa == Ttft(req, idle, hot, a.node, t, a.transfer)
           wi == Ttft(req, idle, hot, i.node, t, i.transfer)
<1>14. /\ wa \in Nat /\ wi \in Nat /\ pi \in Placement
       /\ Ttft(req, alone, hot, a.node, t, a.transfer) \in Nat
       /\ Ttft(req, alone, hot, i.node, t, i.transfer) \in Nat
       /\ Wait(alone[a.node], t) \in Nat /\ Wait(alone[i.node], t) \in Nat
  BY <1>0, <1>1, <1>4, PricesOfPlacement
<1>8. /\ a.ttft = Wait(alone[a.node], t) + wa
      /\ i.ttft = wi
      /\ pa.ttft = Wait(alone[i.node], t) + wi /\ pa.node = i.node /\ pa.transfer = i.transfer
      /\ pi.ttft = wa /\ pi.node = a.node /\ pi.transfer = a.transfer
  <2>1. a.ttft = Ttft(req, alone, hot, a.node, t, a.transfer)
    BY <1>2 DEF predict
  <2>2. i.ttft = Ttft(req, idle, hot, i.node, t, i.transfer)
    BY <1>3 DEF predict
  <2>3. /\ pa.ttft = Ttft(req, alone, hot, i.node, t, i.transfer)
        /\ pa.node = i.node /\ pa.transfer = i.transfer
        /\ pi.ttft = Ttft(req, idle, hot, a.node, t, a.transfer)
        /\ pi.node = a.node /\ pi.transfer = a.transfer
    BY DEF predict
  <2>4. Wait(idle[a.node], t) = 0 /\ Wait(idle[i.node], t) = 0
    BY <1>4
  <2> HIDE DEF pa, pi
  <2> QED
    BY <1>6, <1>7, <1>14, <2>1, <2>2, <2>3, <2>4
<1> HIDE DEF pa, pi, wa, wi
<1>10. i.node # a.node => Wait(alone[i.node], t) = 0
  BY <1>4 DEF a
<1> DEFINE w == Wait(alone[a.node], t)
           v == Wait(alone[i.node], t)
<1>11. w \in Nat /\ (i.node # a.node => v = 0) /\ (i.node = a.node => v = w)
  BY <1>10, <1>14
<1>12. a.ttft = w + wa /\ pa.ttft = v + wi
  BY <1>8
<1> HIDE DEF w, v
<1>13. Before(pi, i)
  <2>1. \/ w + wa < v + wi
        \/ w + wa = v + wi /\ a.node < i.node
        \/ w + wa = v + wi /\ a.node = i.node /\ (i.transfer \/ ~a.transfer)
    BY <1>5, <1>8, <1>12 DEF Before
  <2>2. \/ wa < wi
        \/ wa = wi /\ a.node < i.node
        \/ wa = wi /\ a.node = i.node /\ (i.transfer \/ ~a.transfer)
    BY <1>4, <1>11, <1>14, <2>1
  <2> QED
    BY <1>8, <2>2 DEF Before
<1>15. pi.node = i.node /\ pi.transfer = i.transfer
  BY <1>3, <1>5, <1>13, <1>14, BeforeBoth
<1> QED
  BY <1>8, <1>15 DEF a, i

\* A node whose queue is emptied keeps its cache and waits no more.
LEMMA Emptied ==
    ASSUME NEW nd, IsNode(nd), NEW t \in Int
    PROVE  LET empty == [nd EXCEPT !.busyUntil = t]
           IN  Resident(empty) = Resident(nd) /\ empty.busyUntil = t /\ Wait(empty, t) = 0
<1> DEFINE empty == [nd EXCEPT !.busyUntil = t]
<1>1. empty.cache = nd.cache /\ empty.busyUntil = t
  BY DEF IsNode
<1> HIDE DEF empty
<1> QED
  BY <1>1 DEF Resident, Wait, MaxOf, empty

\* What is counted as coupled changes with the other nodes' queues alone.
THEOREM CoupledIsCoupled == Spec => CoupledDependsOnOthers
<1>1. Shape /\ Tables /\ [Next]_vars
        => [result'.coupled # result.coupled => DependsOnOthers]_vars
  <2> SUFFICES ASSUME Shape, Tables, Next, result'.coupled # result.coupled, ~DependsOnOthers
               PROVE  FALSE
    OBVIOUS
  <2>0. PICK c \in Conversation, at \in Nat : \E place :
             Arrives(c, at) /\ Serve(c, at, place) /\ Decision(c, at, place)
    BY StepDecides
  <2>1. PICK place : Arrives(c, at) /\ Serve(c, at, place) /\ Decision(c, at, place)
    BY <2>0
  <2>2. at * Scale \in Nat /\ Sent(c).blocks \in Request
    BY <2>1, ServeAdmits
  <2>3. PICK t \in Nat, req \in Request : t = at * Scale /\ req = Sent(c).blocks
    BY <2>2
  <2>4. t \in Int
    OBVIOUS
  <2>5. Clock = t /\ Chosen.blocks = req
    BY <2>1, <2>3, LastEntry
  <2>6. IsCoupled(req, t)
    <3>1. result'.coupled = result.coupled + IF IsCoupled(Sent(c).blocks, at * Scale) THEN 1 ELSE 0
      BY <2>1 DEF Serve
    <3>2. result.coupled \in Nat
      BY DEF Shape
    <3>3. IsCoupled(Sent(c).blocks, at * Scale)
      BY <3>1, <3>2
    <3> QED
      BY <2>3, <3>3
  <2> DEFINE loaded == best_placement(req, nodes, t)
             others == [n \in NodeId |-> IF n = loaded.node THEN nodes[n]
                                         ELSE [nodes[n] EXCEPT !.busyUntil = t]]
             alone == best_placement(req, others, t)
             idle == best_placement(req, Idle(t), t)
  <2>7. loaded.node = alone.node /\ loaded.transfer = alone.transfer
    <3>1. OthersIdle(loaded.node) = others
      BY <2>5 DEF OthersIdle
    <3>2. <<loaded.node, loaded.transfer>> = <<alone.node, alone.transfer>>
      BY <2>5, <3>1 DEF DependsOnOthers
    <3> QED
      BY <3>2
  <2>8. \A n \in NodeId : IsNode(nodes[n]) /\ nodes[n].busyUntil \in Int
    BY BusyIsInt DEF Shape
  <2>9. \A n \in NodeId : /\ Resident(others[n]) = Resident(Idle(t)[n])
                          /\ others[n].busyUntil \in Int /\ Idle(t)[n].busyUntil \in Int
                          /\ Wait(Idle(t)[n], t) = 0
                          /\ n # loaded.node => Wait(others[n], t) = 0
    <3> SUFFICES ASSUME NEW n \in NodeId
                 PROVE  /\ Resident(others[n]) = Resident(Idle(t)[n])
                        /\ others[n].busyUntil \in Int /\ Idle(t)[n].busyUntil \in Int
                        /\ Wait(Idle(t)[n], t) = 0
                        /\ n # loaded.node => Wait(others[n], t) = 0
      OBVIOUS
    <3> DEFINE empty == [nodes[n] EXCEPT !.busyUntil = t]
    <3>1. Resident(empty) = Resident(nodes[n]) /\ empty.busyUntil = t /\ Wait(empty, t) = 0
      BY <2>4, <2>8, Emptied
    <3>2. Idle(t)[n] = empty /\ others[n] = IF n = loaded.node THEN nodes[n] ELSE empty
      BY DEF Idle
    <3> HIDE DEF empty, others
    <3> QED
      BY <2>4, <2>8, <3>1, <3>2
  <2> HIDE DEF loaded, others
  <2>10. idle.node = alone.node /\ idle.transfer = alone.transfer
    BY <2>4, <2>7, <2>9, EmptyingBestKeepsIt
  <2> QED
    BY <2>6, <2>7, <2>10 DEF IsCoupled, loaded
<1> QED
  BY <1>1, ShapeHolds, PTL DEF Spec, CoupledDependsOnOthers

-----------------------------------------------------------------------------
(* First uses *)

\* The leading run that is matched is really held.
LEMMA PrefixIsHeld ==
    ASSUME NEW req \in Request, NEW blocks, NEW i \in 1..MatchedPrefix(req, blocks)
    PROVE  i <= Len(req) /\ req[i] \in blocks
<1> DEFINE M == {k \in DOMAIN req : \A j \in 1..k : req[j] \in blocks}
           count == MatchedPrefix(req, blocks)
<1>1. count \in 0..Len(req) /\ Len(req) \in Nat /\ DOMAIN req = 1..Len(req)
  BY MatchesAreCounted, ChainOrder
<1>2. Cardinality(M) = count
  BY DEF MatchedPrefix
<1> HIDE DEF count
<1>3. i \in Nat /\ 1 <= i /\ i <= count
  BY <1>1 DEF count
<1>4. CASE req[i] \notin blocks
  <2>1. M \subseteq 1..(i - 1)
    <3> SUFFICES ASSUME NEW k \in M, k >= i PROVE FALSE
      BY <1>1, <1>3
    <3>1. i \in 1..k
      BY <1>1, <1>3
    <3> QED
      BY <1>4, <3>1
  <2>2. IsFiniteSet(1..(i - 1)) /\ Cardinality(1..(i - 1)) = i - 1
    <3>1. i - 1 \in Nat
      BY <1>3
    <3> QED
      BY <3>1, FS_Interval
  <2> HIDE DEF M
  <2>3. Cardinality(M) <= i - 1
    BY <2>1, <2>2, FS_Subset
  <2> QED
    BY <1>1, <1>2, <1>3, <2>3
<1> QED
  BY <1>1, <1>3, <1>4

\* If the first m blocks of req are already known, at most the others are new.
LEMMA NewBlocksAreFew ==
    ASSUME NEW req \in Request, NEW known, NEW m \in Nat, m <= Len(req),
           \A i \in 1..m : req[i] \in known
    PROVE  /\ IsFiniteSet(Range(req) \ known)
           /\ Cardinality(Range(req) \ known) <= Len(req) - m
<1> DEFINE S == (m + 1)..Len(req)
           T == {req[i] : i \in S}
           f == [i \in S |-> req[i]]
<1>1. Len(req) \in Nat /\ DOMAIN req = 1..Len(req)
  BY ChainOrder
<1>2. IsFiniteSet(S) /\ Cardinality(S) = Len(req) - m
  <2>1. m + 1 \in Int /\ Len(req) \in Int
    BY <1>1
  <2>2. /\ IsFiniteSet(S)
        /\ Cardinality(S) = IF m + 1 > Len(req) THEN 0 ELSE Len(req) - (m + 1) + 1
    BY <2>1, FS_Interval
  <2> QED
    BY <1>1, <2>2
<1>3. f \in Surjection(S, T)
  BY DEF Surjection
<1>4. Range(req) \ known \subseteq T
  <2> SUFFICES ASSUME NEW x \in Range(req) \ known PROVE x \in T
    OBVIOUS
  <2>1. PICK i \in DOMAIN req : x = req[i]
    BY DEF Range
  <2>2. i \in S
    BY <1>1, <2>1
  <2> QED
    BY <2>1, <2>2
<1> HIDE DEF S, T, f
<1>5. IsFiniteSet(T) /\ Cardinality(T) <= Len(req) - m
  BY <1>2, <1>3, FS_Surjection
<1>6. /\ IsFiniteSet(Range(req) \ known)
      /\ Cardinality(Range(req) \ known) <= Cardinality(T)
  BY <1>4, <1>5, FS_Subset
<1>7. Cardinality(Range(req) \ known) \in Nat /\ Cardinality(T) \in Nat
  BY <1>5, <1>6, FS_CardinalityType
<1> QED
  BY <1>1, <1>5, <1>6, <1>7

\* Whatever is reused of a request, transfers included, is the leading run of one cache.
LEMMA ReusedIsHeld ==
    ASSUME NEW req \in Request, NEW ns, NEW hot \in NodeId, NEW n \in NodeId,
           NEW transfer \in BOOLEAN,
           NEW i \in 1..Reused(req, ns, hot, n, transfer)
    PROVE  req[i] \in Resident(ns[n]) \/ req[i] \in Resident(ns[hot])
<1>1. matched(req, ns[n]) \in Nat /\ matched(req, ns[hot]) \in Nat
  BY MatchedIsPart
<1>2. \/ Reused(req, ns, hot, n, transfer) = matched(req, ns[n])
      \/ Reused(req, ns, hot, n, transfer) = matched(req, ns[hot])
  BY <1>1 DEF Reused, Transferred, MaxOf
<1>3. ASSUME Reused(req, ns, hot, n, transfer) = matched(req, ns[n])
      PROVE  req[i] \in Resident(ns[n])
  BY <1>3, PrefixIsHeld DEF matched
<1>4. ASSUME Reused(req, ns, hot, n, transfer) = matched(req, ns[hot])
      PROVE  req[i] \in Resident(ns[hot])
  BY <1>4, PrefixIsHeld DEF matched
<1> QED
  BY <1>2, <1>3, <1>4

\* The caches hold only blocks that were served, and those were all missed once.
Honest ==
    /\ IsFiniteSet(Seen)
    /\ \A n \in NodeId : Resident(nodes[n]) \subseteq Seen
    /\ FirstUsesAreMisses

\* A turn adds its own blocks to those seen.
LEMMA SeenGrows ==
    ASSUME Shape, NEW c \in Conversation, turn' = [turn EXCEPT ![c] = @ + 1]
    PROVE  Seen' = Seen \cup Range(Sent(c).blocks)
<1> DEFINE Served(k, i, x) == x \in Range(Script[k][i].blocks)
<1>1. \A x : x \in Seen <=> \E k \in Conversation : \E i \in 1..turn[k] : Served(k, i, x)
  BY DEF Seen
<1>2. \A x : x \in Seen' <=> \E k \in Conversation : \E i \in 1..turn'[k] : Served(k, i, x)
  BY DEF Seen
<1>3. \A x : x \in Range(Sent(c).blocks) <=> Served(c, turn[c] + 1, x)
  BY DEF Sent
<1>4. /\ turn[c] \in Nat /\ turn'[c] = turn[c] + 1
      /\ \A k \in Conversation \ {c} : turn'[k] = turn[k]
      /\ \A i : i \in 1..(turn[c] + 1) <=> i \in 1..turn[c] \/ i = turn[c] + 1
  BY DEF Shape
<1> HIDE DEF Served
<1>5. ASSUME NEW x, x \in Seen'
      PROVE  x \in Seen \/ x \in Range(Sent(c).blocks)
  <2>1. PICK k \in Conversation : \E i \in 1..turn'[k] : Served(k, i, x)
    BY <1>2, <1>5
  <2>2. PICK i \in 1..turn'[k] : Served(k, i, x)
    BY <2>1
  <2>3. CASE k = c
    BY <1>1, <1>3, <1>4, <2>2, <2>3
  <2>4. CASE k # c
    BY <1>1, <1>4, <2>2, <2>4
  <2> QED
    BY <2>3, <2>4
<1>6. ASSUME NEW x, x \in Seen
      PROVE  x \in Seen'
  <2>1. PICK k \in Conversation : \E i \in 1..turn[k] : Served(k, i, x)
    BY <1>1, <1>6
  <2>2. PICK i \in 1..turn[k] : Served(k, i, x)
    BY <2>1
  <2>3. i \in 1..turn'[k]
    BY <1>4, <2>2
  <2> QED
    BY <1>2, <2>2, <2>3
<1>7. ASSUME NEW x, x \in Range(Sent(c).blocks)
      PROVE  x \in Seen'
  <2>1. Served(c, turn[c] + 1, x) /\ turn[c] + 1 \in 1..turn'[c]
    BY <1>3, <1>4, <1>7
  <2> QED
    BY <1>2, <2>1
<1> QED
  BY <1>5, <1>6, <1>7

\* Misses are never fewer than the blocks there were to miss: no policy, transfer or lease
\* makes the reported hit rate better than it is.
THEOREM HitRateIsHonest == Spec => []FirstUsesAreMisses
<1>1. Init => Honest
  <2> SUFFICES ASSUME Init PROVE Honest
    OBVIOUS
  <2>1. Seen = {}
    BY DEF Init, Seen
  <2>2. Resident(EmptyNode) = {}
    BY EmptyIsRecency DEF EmptyNode, Resident
  <2>3. IsFiniteSet({}) /\ Cardinality({}) = 0
    BY FS_EmptySet
  <2>4. \A n \in NodeId : Resident(nodes[n]) \subseteq Seen
    BY <2>2 DEF Init
  <2>5. result.total = 0 /\ result.reused = 0
    BY DEF Init
  <2>6. IsFiniteSet(Seen) /\ Cardinality(Seen) = 0
    BY <2>1, <2>3, Zenon
  <2> QED
    BY <2>4, <2>5, <2>6 DEF Honest, FirstUsesAreMisses
<1>2. Shape /\ Tables /\ Honest /\ [Next]_vars => Honest'
  <2> SUFFICES ASSUME Shape, Tables, Honest, [Next]_vars PROVE Honest'
    OBVIOUS
  <2>1. CASE UNCHANGED vars
    BY <2>1 DEF vars, Honest, FirstUsesAreMisses, Seen, Resident
  <2>2. CASE Next
    <3>0. PICK c \in Conversation, at \in Nat : \E place :
               Arrives(c, at) /\ Serve(c, at, place) /\ Decision(c, at, place)
      BY <2>2, StepDecides
    <3>1. PICK place : Arrives(c, at) /\ Serve(c, at, place) /\ Decision(c, at, place)
      BY <3>0
    <3>2. Sent(c).blocks \in Request /\ at * Scale \in Nat
          /\ place.node \in NodeId /\ place.transfer \in BOOLEAN
      BY <3>1, ServeAdmits DEF Decision
    <3>3. PICK req \in Request : req = Sent(c).blocks
      BY <3>2
    <3> DEFINE hot == hot_node(req, nodes)
               m == Reused(req, nodes, hot, place.node, place.transfer)
               new == Range(req) \ Seen
    <3>4. m \in Nat /\ m <= Len(req) /\ Len(req) \in Nat /\ hot \in NodeId
      BY <3>2, BusyIsInt, HotNodeIsHottest, PricesOfPlacement, MatchedIsPart
    <3>5. \A i \in 1..m : req[i] \in Seen
      <4>1. \A i \in 1..m : req[i] \in Resident(nodes[place.node]) \/ req[i] \in Resident(nodes[hot])
        BY <3>2, <3>4, ReusedIsHeld
      <4> QED
        BY <3>2, <3>4, <4>1 DEF Honest
    <3>6. /\ result'.reused = result.reused + m
          /\ result'.total = result.total + Len(req)
      BY <3>1, <3>3 DEF Serve, resident_blocks
    <3> HIDE DEF m
    <3>7. IsFiniteSet(new) /\ Cardinality(new) <= Len(req) - m
      BY <3>4, <3>5, NewBlocksAreFew
    <3>8. turn' = [turn EXCEPT ![c] = @ + 1]
      BY <3>1 DEF Serve
    <3>9. Seen' = Seen \cup Range(req)
      BY <3>3, <3>8, SeenGrows
    <3>10. Seen' = Seen \cup new /\ Seen \cap new = {}
      BY <3>9
    <3> HIDE DEF new
    <3>11. IsFiniteSet(Seen) /\ Cardinality(Seen) \in Nat /\ Cardinality(new) \in Nat
      BY <3>7, FS_CardinalityType DEF Honest
    <3>12. IsFiniteSet(Seen') /\ Cardinality(Seen') = Cardinality(Seen) + Cardinality(new)
      <4>1. /\ IsFiniteSet(Seen \cup new)
            /\ Cardinality(Seen \cup new)
                 = Cardinality(Seen) + Cardinality(new) - Cardinality(Seen \cap new)
        BY <3>7, <3>11, FS_Union
      <4>2. Cardinality(Seen \cap new) = 0
        BY <3>10, FS_EmptySet, Zenon
      <4>3. Cardinality(Seen') = Cardinality(Seen \cup new) /\ IsFiniteSet(Seen')
        BY <3>10, <4>1, Zenon
      <4> QED
        BY <3>11, <4>1, <4>2, <4>3
    <3>13. FirstUsesAreMisses'
      <4>1. /\ result.total \in Nat /\ result.reused \in Nat
            /\ result.total - result.reused >= Cardinality(Seen)
        BY DEF Shape, Honest, FirstUsesAreMisses
      <4>2. result'.total - result'.reused >= Cardinality(Seen')
        BY <3>4, <3>6, <3>7, <3>11, <3>12, <4>1
      <4> QED
        BY <4>2 DEF FirstUsesAreMisses
    <3>14. \A n \in NodeId : Resident(nodes'[n]) \subseteq Seen'
      <4> SUFFICES ASSUME NEW n \in NodeId PROVE Resident(nodes'[n]) \subseteq Seen'
        OBVIOUS
      <4>1. CASE n # place.node
        <5>1. nodes'[n] = nodes[n]
          BY <3>1, <4>1, ServeAdmits
        <5> QED
          BY <3>9, <5>1 DEF Honest
      <4>2. CASE n = place.node
        <5>1. PICK full : \E V \in SUBSET Resident(full) : ServedOn(c, at, place, full, V)
          BY <3>1, ServeOutcome
        <5>2. PICK V \in SUBSET Resident(full) : ServedOn(c, at, place, full, V)
          BY <5>1
        <5>3. /\ Resident(full) = Resident(nodes[n]) \cup Range(req)
              /\ Resident(nodes'[n]) = Resident(full) \ V
          BY <3>3, <4>2, <5>2 DEF ServedOn, Admission
        <5>4. Resident(nodes[n]) \subseteq Seen
          BY DEF Honest
        <5> QED
          BY <3>9, <5>3, <5>4
      <4> QED
        BY <4>1, <4>2
    <3> QED
      BY <3>12, <3>13, <3>14 DEF Honest
  <2> QED
    BY <2>1, <2>2
<1>3. Honest => FirstUsesAreMisses
  BY DEF Honest
<1> QED
  BY <1>1, <1>2, <1>3, ShapeHolds, PTL DEF Spec

-----------------------------------------------------------------------------
(* The approximate index *)

\* A node without marks, asked for none, is the LRU cache of module LRUOrder.
LEMMA UnmarkedAdmission ==
    ASSUME NEW nd, DOMAIN nd.mark = {}, NEW t, NEW req, NEW full, NEW V \in SUBSET Resident(full),
           NEW new, Admission(nd, t, req, NoMark, full, V, new)
    PROVE  new.cache = LRUTouched(nd.cache, req, Capacity)
<1> DEFINE order == Touched(nd.cache, req)
<1>1. /\ IsNode(full) /\ full.cache = order /\ full.mark = Marked(nd.mark, req, NoMark)
      /\ Cardinality(V) = Overflow(full)
      /\ \A v \in V, s \in Resident(full) \ V : EvictedBefore(full, t, v, s)
      /\ new.cache = Kept(full.cache, Resident(full) \ V)
  BY DEF Admission
<1> HIDE DEF order
<1>2. \A b : b \notin DOMAIN full.mark
  <2> SUFFICES ASSUME NEW b, b \in DOMAIN full.mark PROVE FALSE
    OBVIOUS
  <2>1. IF b \in Range(req) THEN NoMark # NoMark ELSE b \in DOMAIN nd.mark
    BY <1>1, MarkedDomain
  <2> QED
    BY <2>1
<1>3. \A b \in Resident(full) : ~Live(full, t, b)
  BY <1>2 DEF Live
<1>4. \A v \in V, s \in Resident(full) \ V : v \in order[s]
  BY <1>1, <1>3 DEF EvictedBefore, EvictFirstBucket, PinnedBucket, WeakerPin
<1>5. IsRecency(order) /\ DOMAIN order = Resident(full)
  BY <1>1 DEF IsNode, Resident
<1>6. LET n == Cardinality(DOMAIN order)
      IN  n \in Nat /\ Cardinality(V) = IF n >= Capacity THEN n - Capacity ELSE 0
  BY <1>1, <1>5, ResidentIsFinite, CapacityIsNat DEF Overflow, MaxOf
<1>7. DOMAIN order \ V = MostRecent(order, Capacity)
  BY <1>4, <1>5, <1>6, CapacityIsNat, OldestLeave
<1> QED
  BY <1>1, <1>5, <1>7 DEF order, LRUTouched

\* What a step of the approximate scorer is to the index and to the caches.
Followed(n, req) ==
    /\ believed' = [believed EXCEPT ![n] = record(@, req)]
    /\ nodes'[n].cache = LRUTouched(nodes[n].cache, req, Capacity)
    /\ \A m \in NodeId \ {n} : nodes'[m] = nodes[m]

LEMMA ApproxFollows ==
    ASSUME Shape, Tables, OnlyAsked, NEW c \in Conversation, NEW at \in Nat, WeightedApprox(c, at)
    PROVE  /\ policy' = policy /\ DOMAIN nodes' = NodeId
           /\ \E n \in NodeId, req \in Request : Followed(n, req)
<1>1. Arrives(c, at) /\ policy = "weighted-approx"
  BY DEF WeightedApprox
<1>2. PICK req \in Request : req = Sent(c).blocks
  BY <1>1, SentIsTurn DEF Arrives
<1> DEFINE held == [n \in NodeId |-> MatchedPrefix(req, DOMAIN believed[n])]
           place == weighted(req, nodes, at * Scale, held)
<1>3. held \in [NodeId -> Nat]
  BY MatchesAreCounted, MatchedIsPart
<1>4. /\ Serve(c, at, place)
      /\ believed' = [believed EXCEPT ![place.node] = record(@, req)]
  BY <1>2 DEF WeightedApprox
<1> HIDE DEF held
<1>5. Decision(c, at, place)
  BY <1>1, <1>2, <1>3, WeightedDecides
<1> HIDE DEF place
<1>6. policy' = policy
  BY <1>4 DEF Serve
<1>7. /\ place.node \in NodeId /\ DOMAIN nodes' = NodeId
      /\ \A m \in NodeId \ {place.node} : nodes'[m] = nodes[m]
  BY <1>1, <1>4, <1>5, ServeAdmits
<1>8. PICK full : \E V \in SUBSET Resident(full) : ServedOn(c, at, place, full, V)
  BY <1>1, <1>4, <1>5, ServeOutcome
<1>9. PICK V \in SUBSET Resident(full) : ServedOn(c, at, place, full, V)
  BY <1>8
<1>10. Asked(at, place) = NoMark
  BY <1>1, <1>5, AskedOfNode
<1>11. Admission(nodes[place.node], at * Scale, req, NoMark, full, V, nodes'[place.node])
  BY <1>2, <1>9, <1>10 DEF ServedOn
<1>12. DOMAIN nodes[place.node].mark = {}
  BY <1>1, <1>7 DEF OnlyAsked
<1>13. nodes'[place.node].cache = LRUTouched(nodes[place.node].cache, req, Capacity)
  BY <1>11, <1>12, UnmarkedAdmission
<1> QED
  BY <1>4, <1>6, <1>7, <1>13 DEF Followed

\* A step under any other policy leaves the index alone.
LEMMA OthersKeepIndex ==
    ASSUME NEW c \in Conversation, NEW at,
           RoundRobin(c, at) \/ Stateless(c, at) \/ WeightedPrecise(c, at) \/ Reliability(c, at)
    PROVE  policy' = policy /\ policy # "weighted-approx" /\ believed' = believed
BY DEF RoundRobin, Stateless, WeightedPrecise, Reliability, Serve

\* The index holds one recency order per node.
IndexTypeOK == DOMAIN believed = NodeId /\ \A n \in NodeId : IsRecency(believed[n])

LEMMA IndexIsOrder == Spec => []IndexTypeOK
<1>1. Init => IndexTypeOK
  BY EmptyIsRecency DEF Init, IndexTypeOK
<1>2. IndexTypeOK /\ Shape /\ Tables /\ OnlyAsked /\ [Next]_vars => IndexTypeOK'
  <2> SUFFICES ASSUME IndexTypeOK, Shape, Tables, OnlyAsked, [Next]_vars
               PROVE  IndexTypeOK'
    OBVIOUS
  <2>1. CASE UNCHANGED vars
    BY <2>1 DEF vars, IndexTypeOK
  <2>2. ASSUME NEW c \in Conversation, NEW at \in now..MaxTime, WeightedApprox(c, at)
        PROVE  IndexTypeOK'
    <3>1. at \in Nat
      BY MaxTimeIsNat DEF Tables
    <3>2. PICK n \in NodeId, req \in Request : Followed(n, req)
      BY <2>2, <3>1, ApproxFollows
    <3>3. IsRecency(record(believed[n], req))
      BY LRUTouchedIsRecency, BeliefCapacityIsNat DEF record, IndexTypeOK
    <3> QED
      BY <3>2, <3>3 DEF Followed, IndexTypeOK
  <2>3. ASSUME NEW c \in Conversation, NEW at,
               RoundRobin(c, at) \/ Stateless(c, at) \/ WeightedPrecise(c, at) \/ Reliability(c, at)
        PROVE  IndexTypeOK'
    BY <2>3, OthersKeepIndex DEF IndexTypeOK
  <2> QED
    BY <2>1, <2>2, <2>3 DEF Next
<1> QED
  BY <1>1, <1>2, ShapeHolds, MarksAreAsked, PTL DEF Spec

\* Of two LRUs, each the recent end of the other if it is the narrower.
RecentEnds(index, cache) ==
    /\ BeliefCapacity <= Capacity => index = Kept(cache, MostRecent(cache, BeliefCapacity))
    /\ Capacity <= BeliefCapacity => cache = Kept(index, MostRecent(index, Capacity))

\* Both see a request.
LEMMA RecentEndsStay ==
    ASSUME NEW index, IsRecency(index), NEW cache, IsRecency(cache), RecentEnds(index, cache),
           NEW req \in Request
    PROVE  RecentEnds(record(index, req), LRUTouched(cache, req, Capacity))
<1>1. ASSUME BeliefCapacity <= Capacity
      PROVE  record(index, req) = Kept(LRUTouched(cache, req, Capacity),
                                       MostRecent(LRUTouched(cache, req, Capacity), BeliefCapacity))
  BY <1>1, TouchKeepsTruncation, CapacityIsNat, BeliefCapacityIsNat DEF RecentEnds, record
<1>2. ASSUME Capacity <= BeliefCapacity
      PROVE  LRUTouched(cache, req, Capacity)
               = Kept(record(index, req), MostRecent(record(index, req), Capacity))
  BY <1>2, TouchKeepsTruncation, CapacityIsNat, BeliefCapacityIsNat DEF RecentEnds, record
<1> QED
  BY <1>1, <1>2 DEF RecentEnds

\* The approximate index, which sees routing decisions and no evictions, differs from the
\* caches by its capacity only, however the loads and the saturation filter route, for any
\* capacities, nodes and conversations.
THEOREM BeliefsAreFollowed == Spec => []BeliefsFollowCaches
<1>1. Init => BeliefsFollowCaches
  <2>1. \A k : Kept(NoBlocks, MostRecent(NoBlocks, k)) = NoBlocks
    BY DEF Kept, MostRecent, NoBlocks
  <2> QED
    BY <2>1 DEF Init, EmptyNode, BeliefsFollowCaches
<1>2. BeliefsFollowCaches /\ IndexTypeOK /\ Shape /\ Tables /\ OnlyAsked /\ [Next]_vars
        => BeliefsFollowCaches'
  <2> SUFFICES ASSUME BeliefsFollowCaches, IndexTypeOK, Shape, Tables, OnlyAsked, [Next]_vars
               PROVE  BeliefsFollowCaches'
    OBVIOUS
  <2>1. CASE UNCHANGED vars
    BY <2>1 DEF vars, BeliefsFollowCaches
  <2>2. ASSUME NEW c \in Conversation, NEW at \in now..MaxTime, WeightedApprox(c, at)
        PROVE  BeliefsFollowCaches'
    <3>1. at \in Nat /\ policy = "weighted-approx"
      BY <2>2, MaxTimeIsNat DEF Tables, WeightedApprox
    <3>2. PICK n \in NodeId, req \in Request : Followed(n, req)
      BY <2>2, <3>1, ApproxFollows
    <3>3. IsRecency(believed[n]) /\ IsRecency(nodes[n].cache)
      BY DEF IndexTypeOK, Shape, IsNode
    <3>4. \A m \in NodeId : RecentEnds(believed[m], nodes[m].cache)
      BY <3>1 DEF BeliefsFollowCaches, RecentEnds
    <3>5. RecentEnds(record(believed[n], req), LRUTouched(nodes[n].cache, req, Capacity))
      BY <3>3, <3>4, RecentEndsStay
    <3>6. ASSUME NEW m \in NodeId
          PROVE  RecentEnds(believed'[m], nodes'[m].cache)
      <4>1. CASE m = n
        BY <4>1, <3>2, <3>5 DEF Followed, IndexTypeOK
      <4>2. CASE m # n
        BY <4>2, <3>2, <3>4 DEF Followed, IndexTypeOK
      <4> QED
        BY <4>1, <4>2
    <3> QED
      BY <3>6 DEF BeliefsFollowCaches, RecentEnds
  <2>3. ASSUME NEW c \in Conversation, NEW at,
               RoundRobin(c, at) \/ Stateless(c, at) \/ WeightedPrecise(c, at) \/ Reliability(c, at)
        PROVE  BeliefsFollowCaches'
    BY <2>3, OthersKeepIndex DEF BeliefsFollowCaches
  <2> QED
    BY <2>1, <2>2, <2>3 DEF Next
<1> QED
  BY <1>1, <1>2, IndexIsOrder, ShapeHolds, MarksAreAsked, PTL DEF Spec

\* The operators of RouterIndex are those of this module.
LEMMA SameTouch ==
    \A order, req :
        /\ Index!LRUTouched(order, req, Capacity) = LRUTouched(order, req, Capacity)
        /\ Index!record(order, req) = record(order, req)
<1>1. \A r : Index!Range(r) = Range(r)
  BY DEF Index!Range, Range
<1>2. \A r, b : Index!InFrontOf(r, b) = InFrontOf(r, b)
  BY DEF Index!InFrontOf, InFrontOf
<1>3. \A o, r : Index!Touched(o, r) = Touched(o, r)
  BY <1>1, <1>2 DEF Index!Touched, Touched
<1>4. \A o, S : Index!Kept(o, S) = Kept(o, S)
  BY DEF Index!Kept, Kept
<1>5. \A o, k : Index!MostRecent(o, k) = MostRecent(o, k)
  BY DEF Index!MostRecent, MostRecent, Index!NewerThan, NewerThan,
         Index!Cardinality, Cardinality
<1>6. \A o, r, k : Index!LRUTouched(o, r, k) = LRUTouched(o, r, k)
  BY <1>3, <1>4, <1>5 DEF Index!LRUTouched, LRUTouched
<1> QED
  BY <1>6 DEF Index!record, record

\* Under the approximate scorer the router's index and the caches evolve as RouterIndex says.
THEOREM IndexIsRouterIndex == Spec => ImplementsRouterIndex
<1> DEFINE Caches == [n \in NodeId |-> IF policy = "weighted-approx" THEN nodes[n].cache
                                                                  ELSE NoBlocks]
<1>1. Init => Index!BeliefInit
  BY DEF Init, Index!BeliefInit, EmptyNode, NoBlocks, Index!NoBlocks
<1>2. Shape /\ Tables /\ OnlyAsked /\ [Next]_vars => [Index!BeliefNext]_(Index!beliefVars)
  <2> SUFFICES ASSUME Shape, Tables, OnlyAsked, [Next]_vars
               PROVE  Index!BeliefNext \/ (believed' = believed /\ Caches' = Caches)
    BY DEF Index!beliefVars
  <2>1. CASE UNCHANGED vars
    BY <2>1 DEF vars
  <2>2. ASSUME NEW c \in Conversation, NEW at \in now..MaxTime, WeightedApprox(c, at)
        PROVE  Index!BeliefNext
    <3>1. at \in Nat
      BY MaxTimeIsNat DEF Tables
    <3>2. policy' = policy /\ DOMAIN nodes' = NodeId
      BY <2>2, <3>1, ApproxFollows
    <3>3. PICK n \in NodeId, req \in Request : Followed(n, req)
      BY <2>2, <3>1, ApproxFollows
    <3>4. policy = "weighted-approx"
      BY <2>2 DEF WeightedApprox
    <3>5. Caches' = [Caches EXCEPT ![n] = Index!LRUTouched(@, req, Capacity)]
      BY <3>2, <3>3, <3>4, SameTouch DEF Followed
    <3>6. Index!Route(n, req)
      BY <3>3, <3>5, SameTouch DEF Followed, Index!Route
    <3> QED
      BY <3>6 DEF Index!BeliefNext
  <2>3. ASSUME NEW c \in Conversation, NEW at,
               RoundRobin(c, at) \/ Stateless(c, at) \/ WeightedPrecise(c, at) \/ Reliability(c, at)
        PROVE  believed' = believed /\ Caches' = Caches
    BY <2>3, OthersKeepIndex
  <2> QED
    BY <2>1, <2>2, <2>3 DEF Next
<1> QED
  BY <1>1, <1>2, ShapeHolds, MarksAreAsked, PTL DEF Spec, ImplementsRouterIndex, Index!BeliefSpec
=============================================================================
