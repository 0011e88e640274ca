---------------------------- MODULE CacheProofs ----------------------------
(***************************************************************************)
(* What holds of a cache for every capacity, trie of prefixes and set of   *)
(* directives: the invariants and the action properties of Node, then      *)
(* those of RouterIndex, where an index is kept beside the caches, and     *)
(* that the node as the code runs it, NodeScan, is Node's.                 *)
(***************************************************************************)
EXTENDS NodeScan, RouterIndex, OperatorLemmas, SequenceTheorems

\* A step of the stream is a call of admit.
LEMMA NextIsAdmit ==
    ASSUME TypeOK, Next
    PROVE  \E arrival \in now..MaxTime, service \in Service, req \in Request,
              retainUntil \in Nat, prio \in Priority :
               Admit(arrival, service, req, retainUntil, prio)
<1>1. PICK arrival \in now..MaxTime, service \in Service, req \in Request,
           window \in Window, prio \in Priority :
               Admit(arrival, service, req, arrival + window, prio)
  BY DEF Next
<1>2. arrival \in Nat /\ window \in Nat
  BY TimesAreNat DEF TypeOK
<1>3. PICK retainUntil \in Nat : retainUntil = arrival + window
  BY <1>2
<1>4. Admit(arrival, service, req, retainUntil, prio)
  BY <1>1, <1>3
<1> QED
  BY <1>4

\* What a call of admit does: see AdmittedOutcome.
LEMMA AdmitOutcome ==
    ASSUME TypeOK, NEW arrival \in now..MaxTime, NEW service \in Service, NEW req \in Request,
           NEW retainUntil \in Nat, NEW prio \in Priority,
           Admit(arrival, service, req, retainUntil, prio)
    PROVE  LET full == Seated(node, arrival, service, req, retainUntil, prio)
               d == Directive(arrival, retainUntil, prio)
           IN  \E V \in SUBSET Resident(full) :
                 /\ arrival \in Nat /\ d \in Marks \cup {NoMark}
                 /\ IsNode(full) /\ IsNode(node')
                 /\ full.cache = Touched(node.cache, req)
                 /\ full.mark = Marked(node.mark, req, d)
                 /\ full.pinnedEvictions = node.pinnedEvictions
                 /\ Resident(full) = Resident(node) \cup Range(req)
                 /\ Cardinality(V) = Overflow(full)
                 /\ \A v \in V, s \in Resident(full) \ V : EvictedBefore(full, arrival, v, s)
                 /\ node'.cache = Kept(full.cache, Resident(full) \ V)
                 /\ node'.mark = Restrict(full.mark, DOMAIN full.mark \ V)
                 /\ node'.pinnedEvictions =
                       node.pinnedEvictions + Cardinality(V \cap PinnedBucket(full, arrival))
                 /\ Resident(node') = Resident(full) \ V
<1> DEFINE full == Seated(node, arrival, service, req, retainUntil, prio)
           d == Directive(arrival, retainUntil, prio)
<1>1. /\ arrival \in Nat /\ service \in Nat
      /\ prio \in Int \cup {NoPriority}
      /\ IsNode(node)
  BY TimesAreNat, PriorityIsArgument DEF TypeOK
<1>2. node' \in Admitted(node, arrival, service, req, retainUntil, prio)
  BY DEF Admit
<1>3. PICK V \in SUBSET Resident(full) : Admission(node, arrival, req, d, full, V, node')
  BY <1>1, <1>2, AdmittedOutcome
<1> HIDE DEF full, d
<1> QED
  BY <1>1, <1>3 DEF Admission, full, d

-----------------------------------------------------------------------------
(* Type correctness *)

LEMMA InitTypeOK == Init => TypeOK
<1> SUFFICES ASSUME Init PROVE TypeOK
  OBVIOUS
<1>1. IsNode(EmptyNode)
  BY EmptyIsRecency DEF IsNode, EmptyNode
<1>2. 0 \in 0..MaxTime /\ 0 \in 0..MaxRequests
  BY TimesAreNat, MaxRequestsIsNat
<1>3. asked \in [Block -> [want : Marks \cup {NoMark}, at : 0..MaxRequests]]
  BY <1>2 DEF Init
<1> QED
  BY <1>1, <1>2, <1>3 DEF Init, TypeOK

LEMMA NextTypeOK == TypeOK /\ [Next]_vars => TypeOK'
<1> SUFFICES ASSUME TypeOK, [Next]_vars PROVE TypeOK'
  OBVIOUS
<1>1. ASSUME NEW arrival \in now..MaxTime, NEW service \in Service, NEW req \in Request,
             NEW retainUntil \in Nat, NEW prio \in Priority,
             Admit(arrival, service, req, retainUntil, prio)
      PROVE  TypeOK'
  <2>1. IsNode(node') /\ arrival \in Nat
    BY <1>1, AdmitOutcome
  <2>2. Directive(arrival, retainUntil, prio) \in Marks \cup {NoMark}
    BY <1>1, AdmitOutcome
  <2>3. now' \in 0..MaxTime
    BY <1>1, <2>1, TimesAreNat DEF Admit
  <2>4. served' \in 0..MaxRequests /\ served + 1 \in 0..MaxRequests
    BY <1>1, MaxRequestsIsNat DEF Admit, TypeOK
  <2>5. asked' \in [Block -> [want : Marks \cup {NoMark}, at : 0..MaxRequests]]
    BY <1>1, <2>2, <2>4 DEF Admit, TypeOK
  <2> QED
    BY <2>1, <2>3, <2>4, <2>5 DEF TypeOK
<1>2. CASE UNCHANGED vars
  BY <1>2 DEF TypeOK, vars
<1> QED
  BY <1>1, <1>2, NextIsAdmit

\* The node's state, its recency order included, keeps its shape whatever the stream.
THEOREM TypeCorrect == Spec => []TypeOK
BY InitTypeOK, NextTypeOK, PTL DEF Spec

-----------------------------------------------------------------------------
(* The capacity bound *)

\* What a call of admit leaves: see AdmittedFits.
LEMMA AdmitFits ==
    ASSUME TypeOK, NEW arrival \in now..MaxTime, NEW service \in Service, NEW req \in Request,
           NEW retainUntil \in Nat, NEW prio \in Priority,
           Admit(arrival, service, req, retainUntil, prio)
    PROVE  /\ Cardinality(Resident(node')) <= Capacity
           /\ Resident(node) \ Resident(node') # {} => Cardinality(Resident(node')) = Capacity
<1>1. /\ arrival \in Nat /\ service \in Nat
      /\ prio \in Int \cup {NoPriority}
      /\ IsNode(node)
  BY TimesAreNat, PriorityIsArgument DEF TypeOK
<1>2. node' \in Admitted(node, arrival, service, req, retainUntil, prio)
  BY DEF Admit
<1> QED
  BY <1>1, <1>2, AdmittedFits

\* No mixture of pins, expired marks and evict-first blocks keeps the node above its
\* capacity ("capacity is never held hostage").
THEOREM CapacityIsHeld == Spec => []CapacityHeld
<1>1. Init => CapacityHeld
  BY FS_EmptySet, EmptyIsRecency, CapacityIsNat DEF Init, EmptyNode, CapacityHeld, Resident
<1>2. TypeOK /\ CapacityHeld /\ [Next]_vars => CapacityHeld'
  <2> SUFFICES ASSUME TypeOK, CapacityHeld, [Next]_vars PROVE CapacityHeld'
    OBVIOUS
  <2>1. CASE Next
    BY <2>1, NextIsAdmit, AdmitFits DEF CapacityHeld
  <2>2. CASE UNCHANGED vars
    BY <2>2 DEF vars, CapacityHeld, Resident
  <2> QED
    BY <2>1, <2>2
<1> QED
  BY <1>1, <1>2, TypeCorrect, PTL DEF Spec

\* Eviction stops as soon as the cache fits.
THEOREM NoNeedlessEviction == Spec => EvictsOnlyOverflow
<1>1. TypeOK /\ [Next]_vars
      => [EvictedBlocks # {} => Cardinality(Resident(node)') = Capacity]_vars
  <2> SUFFICES ASSUME TypeOK, Next
               PROVE  EvictedBlocks # {} => Cardinality(Resident(node)') = Capacity
    OBVIOUS
  <2> QED
    BY NextIsAdmit, AdmitFits DEF EvictedBlocks
<1> QED
  BY <1>1, TypeCorrect, PTL DEF Spec, EvictsOnlyOverflow

-----------------------------------------------------------------------------
(* The marks a node remembers are the last ones asked of its blocks *)

\* Once the request is seated, and before anything is evicted, the table holds for every
\* resident block what the stream last asked of it, this request included.
LEMMA SeatedMarks ==
    ASSUME TypeOK, MarkIsLastAsk,
           NEW arrival \in now..MaxTime, NEW service \in Service, NEW req \in Request,
           NEW retainUntil \in Nat, NEW prio \in Priority,
           Admit(arrival, service, req, retainUntil, prio)
    PROVE  LET full == Seated(node, arrival, service, req, retainUntil, prio)
           IN  /\ DOMAIN full.mark = {b \in Resident(full) : asked'[b].want # NoMark}
               /\ \A b \in DOMAIN full.mark : full.mark[b] = asked'[b].want
<1> DEFINE full == Seated(node, arrival, service, req, retainUntil, prio)
           d == Directive(arrival, retainUntil, prio)
<1>1. /\ d \in Marks \cup {NoMark}
      /\ full.mark = Marked(node.mark, req, d)
      /\ Resident(full) = Resident(node) \cup Range(req)
      /\ Resident(full) \subseteq Block
  <2>1. IsNode(full)
    BY AdmitOutcome
  <2>2. Resident(full) \subseteq Block
    BY <2>1 DEF IsNode, IsRecency, IsOrder, Resident
  <2>3. d \in Marks \cup {NoMark}
    BY AdmitOutcome
  <2>4. full.mark = Marked(node.mark, req, d)
    BY DEF Seated
  <2>5. Resident(full) = Resident(node) \cup Range(req)
    <3>1. IsRecency(node.cache)
      BY DEF TypeOK, IsNode
    <3>2. DOMAIN Touched(node.cache, req) = DOMAIN node.cache \cup Range(req)
      BY <3>1, TouchedIsRecency
    <3> QED
      BY <3>2 DEF Seated, Resident
  <2> QED
    BY <2>2, <2>3, <2>4, <2>5
<1> HIDE DEF full
<1>2. asked' = [b \in Block |-> IF b \in Range(req) THEN [want |-> d, at |-> served + 1]
                                                    ELSE asked[b]]
  BY DEF Admit
<1> HIDE DEF d
<1>3. node.mark \in [DOMAIN node.mark -> Marks]
  BY DEF TypeOK, IsNode
<1>4. \A b : b \in DOMAIN full.mark <=> IF b \in Range(req) THEN d # NoMark
                                                            ELSE b \in DOMAIN node.mark
  BY <1>1, MarkedDomain
<1>8. \A b \in DOMAIN full.mark : /\ b \in Range(req) => full.mark[b] = d
                                  /\ b \notin Range(req) => full.mark[b] = node.mark[b]
  BY <1>1, MarkedAt
<1>5. \A b \in Resident(full) :
         asked'[b].want = IF b \in Range(req) THEN d ELSE asked[b].want
  BY <1>1, <1>2
<1>6. DOMAIN full.mark = {b \in Resident(full) : asked'[b].want # NoMark}
  <2>1. CASE d = NoMark
    BY <2>1, <1>1, <1>4, <1>5 DEF MarkIsLastAsk
  <2>2. CASE d # NoMark
    BY <2>2, <1>1, <1>4, <1>5 DEF MarkIsLastAsk
  <2> QED
    BY <2>1, <2>2
<1>7. \A b \in DOMAIN full.mark : full.mark[b] = asked'[b].want
  BY <1>4, <1>5, <1>6, <1>8 DEF MarkIsLastAsk
<1> QED
  BY <1>6, <1>7 DEF full

LEMMA InitMarks == Init => MarkIsLastAsk
BY EmptyIsRecency DEF Init, EmptyNode, MarkIsLastAsk, Resident

LEMMA NextMarks == TypeOK /\ MarkIsLastAsk /\ [Next]_vars => MarkIsLastAsk'
<1> SUFFICES ASSUME TypeOK, MarkIsLastAsk, [Next]_vars PROVE MarkIsLastAsk'
  OBVIOUS
<1>1. ASSUME NEW arrival \in now..MaxTime, NEW service \in Service, NEW req \in Request,
             NEW retainUntil \in Nat, NEW prio \in Priority,
             Admit(arrival, service, req, retainUntil, prio)
      PROVE  MarkIsLastAsk'
  <2> DEFINE full == Seated(node, arrival, service, req, retainUntil, prio)
  <2>1. /\ DOMAIN full.mark = {b \in Resident(full) : asked'[b].want # NoMark}
        /\ \A b \in DOMAIN full.mark : full.mark[b] = asked'[b].want
    BY <1>1, SeatedMarks
  <2>2. PICK V \in SUBSET Resident(full) :
           /\ node'.mark = Restrict(full.mark, DOMAIN full.mark \ V)
           /\ Resident(node') = Resident(full) \ V
    BY <1>1, AdmitOutcome, ZenonT(30)
  <2> HIDE DEF full
  <2> QED
    BY <2>1, <2>2 DEF MarkIsLastAsk, Restrict
<1>2. CASE UNCHANGED vars
  BY <1>2 DEF vars, MarkIsLastAsk, Resident
<1> QED
  BY <1>1, <1>2, NextIsAdmit

\* No block keeps, loses or changes its mark except by the last request that touched it,
\* and an evicted block leaves nothing behind in the side tables.
THEOREM MarksAreLastAsk == Spec => []MarkIsLastAsk
BY InitMarks, NextMarks, TypeCorrect, PTL DEF Spec

-----------------------------------------------------------------------------
(* Eviction by rank *)

\* The buckets _pick_victim sorts the seated blocks into, in terms of what was asked of them.
LEMMA BucketsAreAsked ==
    ASSUME TypeOK, MarkIsLastAsk,
           NEW arrival \in now..MaxTime, NEW service \in Service, NEW req \in Request,
           NEW retainUntil \in Nat, NEW prio \in Priority,
           Admit(arrival, service, req, retainUntil, prio)
    PROVE  LET full == Seated(node, arrival, service, req, retainUntil, prio)
           IN  \A b \in Resident(full) :
                 /\ Live(full, arrival, b) <=> AskedLive(b)'
                 /\ b \in PinnedBucket(full, arrival) <=> AskedPin(b)'
                 /\ b \in DOMAIN full.mark => full.mark[b] = asked'[b].want
<1> DEFINE full == Seated(node, arrival, service, req, retainUntil, prio)
<1>1. /\ DOMAIN full.mark = {b \in Resident(full) : asked'[b].want # NoMark}
      /\ \A b \in DOMAIN full.mark : full.mark[b] = asked'[b].want
  BY SeatedMarks
<1>5. full.mark \in [DOMAIN full.mark -> Marks]
  BY AdmitOutcome DEF IsNode
<1> HIDE DEF full
<1>2. now' = arrival
  BY DEF Admit
<1>3. ASSUME NEW b \in Resident(full)
      PROVE  Live(full, arrival, b) <=> AskedLive(b)'
  BY <1>1, <1>2, <1>3 DEF Live, AskedLive
<1>4. ASSUME NEW b \in Resident(full)
      PROVE  b \in PinnedBucket(full, arrival) <=> AskedPin(b)'
  <2>1. b \in PinnedBucket(full, arrival) <=> Live(full, arrival, b) /\ ~(full.mark[b].prio < 0)
    BY DEF PinnedBucket
  <2>2. Live(full, arrival, b) => full.mark[b] = asked'[b].want
    BY <1>1 DEF Live
  <2>3. Live(full, arrival, b) => full.mark[b].prio \in Int
    BY <1>5 DEF Live, Marks, EVICT_FIRST, PINNED
  <2> QED
    BY <2>1, <2>2, <2>3, <1>3 DEF AskedPin
<1> QED
  BY <1>1, <1>3, <1>4 DEF full

\* A pin is evicted only when everything that stays is a live pin too.
LEMMA PinVictim ==
    ASSUME NEW nd, NEW t, NEW v \in PinnedBucket(nd, t), NEW s \in Resident(nd),
           EvictedBefore(nd, t, v, s)
    PROVE  s \in PinnedBucket(nd, t)
BY DEF EvictedBefore, PinnedBucket, EvictFirstBucket, UnmarkedBucket

\* "When every resident block is marked-and-unexpired we must sacrifice a pin": and only then.
THEOREM PinsAreLast == Spec => PinsGoLast
<1>1. TypeOK /\ MarkIsLastAsk /\ [Next]_vars
      => [node.pinnedEvictions' > node.pinnedEvictions
            => \A b \in Resident(node)' : AskedPin(b)']_vars
  <2> SUFFICES ASSUME TypeOK, MarkIsLastAsk, Next,
                      node.pinnedEvictions' > node.pinnedEvictions,
                      NEW b \in Resident(node')
               PROVE  AskedPin(b)'
    OBVIOUS
  <2>1. PICK arrival \in now..MaxTime, service \in Service, req \in Request,
             retainUntil \in Nat, prio \in Priority :
                 Admit(arrival, service, req, retainUntil, prio)
    BY NextIsAdmit
  <2> DEFINE full == Seated(node, arrival, service, req, retainUntil, prio)
  <2>2. PICK V \in SUBSET Resident(full) :
           /\ \A v \in V, s \in Resident(full) \ V : EvictedBefore(full, arrival, v, s)
           /\ node'.pinnedEvictions =
                 node.pinnedEvictions + Cardinality(V \cap PinnedBucket(full, arrival))
           /\ Resident(node') = Resident(full) \ V
    BY <2>1, AdmitOutcome, ZenonT(30)
  <2>3. \A r \in Resident(full) : r \in PinnedBucket(full, arrival) <=> AskedPin(r)'
    BY <2>1, BucketsAreAsked
  <2> HIDE DEF full
  <2>4. V \cap PinnedBucket(full, arrival) # {}
    <3>1. CASE V \cap PinnedBucket(full, arrival) = {}
      <4>1. Cardinality(V \cap PinnedBucket(full, arrival)) = 0
        BY <3>1, FS_EmptySet, Zenon
      <4>2. node.pinnedEvictions \in Nat
        BY DEF TypeOK, IsNode
      <4> QED
        BY <4>1, <4>2, <2>2
    <3> QED
      BY <3>1
  <2>5. PICK v \in V : v \in PinnedBucket(full, arrival)
    BY <2>4
  <2>6. b \in Resident(full) /\ EvictedBefore(full, arrival, v, b)
    BY <2>2, <2>5
  <2> QED
    BY <2>3, <2>5, <2>6, PinVictim
<1> QED
  BY <1>1, TypeCorrect, MarksAreLastAsk, PTL DEF Spec, PinsGoLast

\* RFC-0001 section 3: whatever was asked of the blocks, none is evicted before one of a lower
\* effective rank.
THEOREM RankDecidesEviction == Spec => EvictionFollowsRank
<1>1. TypeOK /\ MarkIsLastAsk /\ [Next]_vars
      => [\A v \in EvictedBlocks, s \in Resident(node)' :
             EffectiveRank(v)' <= EffectiveRank(s)']_vars
  <2> SUFFICES ASSUME TypeOK, MarkIsLastAsk, Next,
                      NEW v \in Resident(node) \ Resident(node'), NEW s \in Resident(node')
               PROVE  EffectiveRank(v)' <= EffectiveRank(s)'
    BY DEF EvictedBlocks
  <2>1. PICK arrival \in now..MaxTime, service \in Service, req \in Request,
             retainUntil \in Nat, prio \in Priority :
                 Admit(arrival, service, req, retainUntil, prio)
    BY NextIsAdmit
  <2> DEFINE full == Seated(node, arrival, service, req, retainUntil, prio)
  <2>2. /\ v \in Resident(full) /\ s \in Resident(full)
        /\ EvictedBefore(full, arrival, v, s)
    <3>1. PICK V \in SUBSET Resident(full) :
             /\ Resident(full) = Resident(node) \cup Range(req)
             /\ \A x \in V, y \in Resident(full) \ V : EvictedBefore(full, arrival, x, y)
             /\ Resident(node') = Resident(full) \ V
      BY <2>1, AdmitOutcome, ZenonT(60)
    <3> HIDE DEF full
    <3> QED
      BY <3>1
  <2>3. \A b \in Resident(full) :
           /\ Live(full, arrival, b) <=> AskedLive(b)'
           /\ b \in PinnedBucket(full, arrival) <=> AskedPin(b)'
           /\ b \in DOMAIN full.mark => full.mark[b] = asked'[b].want
    BY <2>1, BucketsAreAsked
  <2>4. full.mark \in [DOMAIN full.mark -> Marks]
    BY <2>1, AdmitOutcome DEF IsNode
  <2> HIDE DEF full
  <2> DEFINE live(b) == Live(full, arrival, b)
             prioOf(b) == full.mark[b].prio
  <2>5. \A b \in Resident(full) : live(b) => prioOf(b) \in -1..100
    BY <2>4 DEF Live, Marks, EVICT_FIRST, PINNED
  <2>6. \A b \in Resident(full) :
           EffectiveRank(b)' = IF live(b) THEN IF prioOf(b) < 0 THEN 0 ELSE 2 + prioOf(b)
                                          ELSE 1
    BY <2>3 DEF EffectiveRank, Live
  <2>7. CASE v \in EvictFirstBucket(full, arrival)
    BY <2>2, <2>5, <2>6, <2>7 DEF EvictFirstBucket
  <2>8. CASE v \in UnmarkedBucket(full, arrival)
    BY <2>2, <2>5, <2>6, <2>8
       DEF EvictedBefore, EvictFirstBucket, UnmarkedBucket, PinnedBucket
  <2>9. CASE v \in PinnedBucket(full, arrival)
    <3>1. s \in PinnedBucket(full, arrival)
      BY <2>2, <2>9, PinVictim
    <3>2. WeakerPin(full, v, s)
      BY <2>2, <2>9, <3>1 DEF EvictedBefore, EvictFirstBucket, UnmarkedBucket, PinnedBucket
    <3>3. live(v) /\ live(s) /\ ~(prioOf(v) < 0) /\ ~(prioOf(s) < 0)
      BY <2>9, <3>1 DEF PinnedBucket
    <3>4. prioOf(v) \in -1..100 /\ prioOf(s) \in -1..100
      BY <3>3, <2>2, <2>5
    <3>5. prioOf(v) < prioOf(s) \/ prioOf(v) = prioOf(s)
      BY <3>2 DEF WeakerPin
    <3>6. EffectiveRank(v)' = 2 + prioOf(v) /\ EffectiveRank(s)' = 2 + prioOf(s)
      BY <3>3, <2>2, <2>6
    <3> HIDE DEF prioOf
    <3> QED
      BY <3>4, <3>5, <3>6
  <2> QED
    BY <2>2, <2>7, <2>8, <2>9 DEF EvictFirstBucket, UnmarkedBucket, PinnedBucket
<1> QED
  BY <1>1, TypeCorrect, MarksAreLastAsk, PTL DEF Spec, EvictionFollowsRank

-----------------------------------------------------------------------------
(* No lease is lost silently *)

LostLeases == {b \in Block : AskedPin(b) /\ b \notin Resident(node)}

LEMMA NextLostLeases ==
    TypeOK /\ MarkIsLastAsk /\ LostLeasesAreCounted /\ [Next]_vars => LostLeasesAreCounted'
<1> SUFFICES ASSUME TypeOK, MarkIsLastAsk, LostLeasesAreCounted, [Next]_vars
             PROVE  LostLeasesAreCounted'
  OBVIOUS
<1>1. ASSUME NEW arrival \in now..MaxTime, NEW service \in Service, NEW req \in Request,
             NEW retainUntil \in Nat, NEW prio \in Priority,
             Admit(arrival, service, req, retainUntil, prio)
      PROVE  LostLeasesAreCounted'
  <2> DEFINE full == Seated(node, arrival, service, req, retainUntil, prio)
  <2>1. PICK V \in SUBSET Resident(full) :
           /\ Resident(full) = Resident(node) \cup Range(req)
           /\ node'.pinnedEvictions =
                 node.pinnedEvictions + Cardinality(V \cap PinnedBucket(full, arrival))
           /\ Resident(node') = Resident(full) \ V
    BY <1>1, AdmitOutcome, ZenonT(30)
  <2>2. Resident(full) \subseteq Block
    BY <1>1, AdmitOutcome DEF IsNode, IsRecency, IsOrder, Resident
  <2>3. \A b \in Resident(full) : b \in PinnedBucket(full, arrival) <=> AskedPin(b)'
    BY <1>1, BucketsAreAsked
  <2> HIDE DEF full
  <2> DEFINE sacrificed == V \cap PinnedBucket(full, arrival)
  <2>4. \A b \in Block \ Range(req) : AskedPin(b)' => AskedPin(b)
    <3> SUFFICES ASSUME NEW b \in Block \ Range(req), AskedPin(b)'
                 PROVE  AskedPin(b)
      OBVIOUS
    <3>1. asked'[b] = asked[b] /\ now' = arrival
      BY <1>1 DEF Admit
    <3>2. /\ asked[b].want # NoMark /\ asked[b].want.prio >= 0
          /\ Later(asked[b].want.expiry, arrival)
      BY <3>1 DEF AskedPin, AskedLive
    <3>3. asked[b].want \in Marks
      BY <3>2 DEF TypeOK
    <3>4. Later(asked[b].want.expiry, now)
      BY <3>2, <3>3 DEF Marks, Later, TypeOK
    <3> QED
      BY <3>2, <3>4 DEF AskedPin, AskedLive
  <2>5. LostLeases' \subseteq LostLeases \cup sacrificed
    <3> SUFFICES ASSUME NEW b \in Block, AskedPin(b)', b \notin Resident(node')
                 PROVE  b \in LostLeases \cup sacrificed
      BY DEF LostLeases
    <3>1. CASE b \in Resident(full)
      BY <3>1, <2>1, <2>3
    <3>2. CASE b \notin Resident(full)
      BY <3>2, <2>1, <2>4 DEF LostLeases
    <3> QED
      BY <3>1, <3>2
  <2>6. IsFiniteSet(LostLeases) /\ IsFiniteSet(sacrificed)
    BY <2>2, FS_Subset, BlockFinite DEF LostLeases
  <2> HIDE DEF sacrificed
  <2>7. /\ IsFiniteSet(LostLeases \cup sacrificed)
        /\ Cardinality(LostLeases \cup sacrificed) =
              Cardinality(LostLeases) + Cardinality(sacrificed)
                - Cardinality(LostLeases \cap sacrificed)
    BY <2>6, FS_Union
  <2>8. Cardinality(LostLeases') <= Cardinality(LostLeases \cup sacrificed)
    BY <2>5, <2>7, FS_Subset
  <2>9. /\ Cardinality(LostLeases) \in Nat /\ Cardinality(sacrificed) \in Nat
        /\ Cardinality(LostLeases \cap sacrificed) \in Nat
        /\ Cardinality(LostLeases') \in Nat
    BY <2>5, <2>6, <2>7, FS_Subset, FS_Intersection, FS_CardinalityType
  <2>10. Cardinality(LostLeases) <= node.pinnedEvictions /\ node.pinnedEvictions \in Nat
    BY DEF LostLeasesAreCounted, LostLeases, TypeOK, IsNode
  <2>11. node'.pinnedEvictions = node.pinnedEvictions + Cardinality(sacrificed)
    BY <2>1 DEF sacrificed
  <2>12. Cardinality(LostLeases') <= node'.pinnedEvictions
    BY <2>7, <2>8, <2>9, <2>10, <2>11
  <2> QED
    BY <2>12 DEF LostLeasesAreCounted, LostLeases
<1>2. CASE UNCHANGED vars
  <2>1. LostLeases' = LostLeases
    BY <1>2 DEF vars, LostLeases, AskedPin, AskedLive, Resident
  <2> QED
    BY <1>2, <2>1 DEF vars, LostLeasesAreCounted, LostLeases
<1> QED
  BY <1>1, <1>2, NextIsAdmit

\* However many requests ago a lease was granted, its block is either resident or was
\* counted in pinned_evictions when it was sacrificed.
THEOREM LeasesAreAccountedFor == Spec => []LostLeasesAreCounted
<1>1. Init => LostLeasesAreCounted
  <2> SUFFICES ASSUME Init PROVE LostLeasesAreCounted
    OBVIOUS
  <2>1. {b \in Block : AskedPin(b) /\ b \notin Resident(node)} = {}
    BY DEF Init, AskedPin, AskedLive
  <2>2. node.pinnedEvictions = 0
    BY DEF Init, EmptyNode
  <2>3. Cardinality({b \in Block : AskedPin(b) /\ b \notin Resident(node)}) = 0
    BY <2>1, FS_EmptySet, Zenon
  <2> QED
    BY <2>2, <2>3 DEF LostLeasesAreCounted
<1> QED
  BY <1>1, NextLostLeases, TypeCorrect, MarksAreLastAsk, PTL DEF Spec

-----------------------------------------------------------------------------
(* Recency *)

\* Every block was last asked about by a request already served.
AskedByServed == \A b \in Block : asked[b].at <= served

LEMMA NextAskedByServed == TypeOK /\ AskedByServed /\ [Next]_vars => AskedByServed'
<1> SUFFICES ASSUME TypeOK, AskedByServed, [Next]_vars PROVE AskedByServed'
  OBVIOUS
<1>1. ASSUME NEW arrival \in now..MaxTime, NEW service \in Service, NEW req \in Request,
             NEW retainUntil \in Nat, NEW prio \in Priority,
             Admit(arrival, service, req, retainUntil, prio)
      PROVE  AskedByServed'
  BY <1>1 DEF Admit, AskedByServed, TypeOK
<1>2. CASE UNCHANGED vars
  BY <1>2 DEF vars, AskedByServed
<1> QED
  BY <1>1, <1>2, NextIsAdmit

\* Once a request is seated the recency order is the order of last use.
LEMMA SeatedRecency ==
    ASSUME TypeOK, RecencyIsLastUse, AskedByServed,
           NEW arrival \in now..MaxTime, NEW service \in Service, NEW req \in Request,
           NEW retainUntil \in Nat, NEW prio \in Priority,
           Admit(arrival, service, req, retainUntil, prio)
    PROVE  LET order == Touched(node.cache, req)
           IN  \A a, b \in DOMAIN order : asked'[a].at < asked'[b].at => a \in order[b]
<1> DEFINE order == Touched(node.cache, req)
<1>1. IsRecency(node.cache)
  BY DEF TypeOK, IsNode
<1>2. DOMAIN order = Resident(node) \cup Range(req) /\ DOMAIN order \subseteq Block
  BY <1>1, TouchedIsRecency DEF IsRecency, IsOrder, Resident
<1>3. /\ \A b \in Block \cap Range(req) : asked'[b].at = served + 1
      /\ \A b \in Block \ Range(req) : asked'[b].at = asked[b].at
  BY DEF Admit
<1>4. /\ \A b \in Resident(node) \ Range(req) : order[b] = node.cache[b] \ Range(req)
      /\ \A b \in Range(req) : Resident(node) \ Range(req) \subseteq order[b]
  BY DEF Touched, Resident
<1> HIDE DEF order
<1> SUFFICES ASSUME NEW a \in DOMAIN order, NEW b \in DOMAIN order,
                    asked'[a].at < asked'[b].at
             PROVE  a \in order[b]
  BY DEF order
<1>5. served \in Nat /\ \A x \in Block : asked[x].at \in Nat /\ asked[x].at <= served
  BY DEF TypeOK, AskedByServed
<1>6. a \notin Range(req)
  <2>1. CASE a \in Range(req) /\ b \in Range(req)
    BY <2>1, <1>2, <1>3, <1>5
  <2>2. CASE a \in Range(req) /\ b \notin Range(req)
    BY <2>2, <1>2, <1>3, <1>5
  <2> QED
    BY <2>1, <2>2
<1>7. CASE b \in Range(req)
  BY <1>2, <1>4, <1>6, <1>7
<1>8. CASE b \notin Range(req)
  BY <1>2, <1>3, <1>4, <1>6, <1>8 DEF RecencyIsLastUse
<1> QED
  BY <1>7, <1>8

LEMMA NextRecency ==
    TypeOK /\ AskedByServed /\ RecencyIsLastUse /\ [Next]_vars => RecencyIsLastUse'
<1> SUFFICES ASSUME TypeOK, AskedByServed, RecencyIsLastUse, [Next]_vars
             PROVE  RecencyIsLastUse'
  OBVIOUS
<1>1. ASSUME NEW arrival \in now..MaxTime, NEW service \in Service, NEW req \in Request,
             NEW retainUntil \in Nat, NEW prio \in Priority,
             Admit(arrival, service, req, retainUntil, prio)
      PROVE  RecencyIsLastUse'
  <2> DEFINE order == Touched(node.cache, req)
             full == Seated(node, arrival, service, req, retainUntil, prio)
  <2>1. \A a, b \in DOMAIN order : asked'[a].at < asked'[b].at => a \in order[b]
    BY <1>1, SeatedRecency
  <2>2. PICK V \in SUBSET Resident(full) :
           /\ full.cache = order
           /\ node'.cache = Kept(full.cache, Resident(full) \ V)
    BY <1>1, AdmitOutcome, ZenonT(30)
  <2> HIDE DEF order, full
  <2> QED
    BY <2>1, <2>2 DEF RecencyIsLastUse, Resident, Kept
<1>2. CASE UNCHANGED vars
  BY <1>2 DEF vars, RecencyIsLastUse, Resident
<1> QED
  BY <1>1, <1>2, NextIsAdmit

LEMMA AlwaysAskedByServed == Spec => []AskedByServed
<1>1. Init => AskedByServed
  BY DEF Init, AskedByServed
<1> QED
  BY <1>1, NextAskedByServed, TypeCorrect, PTL DEF Spec

\* The key order of the dict stays the order of last use, evictions and re-admissions included.
THEOREM RecencyOrder == Spec => []RecencyIsLastUse
<1>1. Init => RecencyIsLastUse
  BY EmptyIsRecency DEF Init, EmptyNode, RecencyIsLastUse, Resident
<1> QED
  BY <1>1, NextRecency, AlwaysAskedByServed, TypeCorrect, PTL DEF Spec

\* Two blocks of one bucket that carry the same mark are told apart by recency alone.
LEMMA SameStandingIsRecency ==
    ASSUME NEW nd, IsNode(nd), NEW t, NEW v \in Resident(nd), NEW s \in Resident(nd),
           EvictedBefore(nd, t, v, s),
           \/ ~Live(nd, t, v) /\ ~Live(nd, t, s)
           \/ Live(nd, t, v) /\ Live(nd, t, s) /\ nd.mark[v] = nd.mark[s]
    PROVE  v \in nd.cache[s]
<1>1. CASE ~Live(nd, t, v) /\ ~Live(nd, t, s)
  BY <1>1 DEF EvictedBefore, EvictFirstBucket, PinnedBucket, UnmarkedBucket
<1>2. CASE Live(nd, t, v) /\ Live(nd, t, s) /\ nd.mark[v] = nd.mark[s]
  <2>1. nd.mark[v] \in Marks
    BY <1>2 DEF Live, IsNode
  <2>2. nd.mark[v].prio \in Int /\ nd.mark[v].expiry \in Int \cup {Forever}
    BY <2>1 DEF Marks, EVICT_FIRST, PINNED
  <2>3. ~Sooner(nd.mark[v].expiry, nd.mark[s].expiry)
    BY <1>2, <2>2 DEF Sooner, Later
  <2>4. WeakerPin(nd, v, s) => v \in nd.cache[s]
    BY <1>2, <2>2, <2>3 DEF WeakerPin
  <2> QED
    BY <1>2, <2>4 DEF EvictedBefore, EvictFirstBucket, PinnedBucket, UnmarkedBucket
<1> QED
  BY <1>1, <1>2

\* "LRU position breaking ties": of two blocks with one standing the less recently used goes,
\* also when their marks have expired and differ.
THEOREM TiesAreRecency == Spec => TiesGoByRecency
<1>1. TypeOK /\ MarkIsLastAsk /\ AskedByServed /\ RecencyIsLastUse /\ [Next]_vars
      => [\A v \in EvictedBlocks, s \in Resident(node)' :
             (\/ asked[v]'.want = asked[s]'.want
              \/ EffectiveRank(v)' = 1 /\ EffectiveRank(s)' = 1)
                => asked[v]'.at <= asked[s]'.at]_vars
  <2> SUFFICES ASSUME TypeOK, MarkIsLastAsk, AskedByServed, RecencyIsLastUse, Next,
                      NEW v \in Resident(node) \ Resident(node'), NEW s \in Resident(node'),
                      \/ asked'[v].want = asked'[s].want
                      \/ EffectiveRank(v)' = 1 /\ EffectiveRank(s)' = 1
               PROVE  asked'[v].at <= asked'[s].at
    BY DEF EvictedBlocks
  <2>1. PICK arrival \in now..MaxTime, service \in Service, req \in Request,
             retainUntil \in Nat, prio \in Priority :
                 Admit(arrival, service, req, retainUntil, prio)
    BY NextIsAdmit
  <2> DEFINE full == Seated(node, arrival, service, req, retainUntil, prio)
             order == Touched(node.cache, req)
  <2>2. /\ v \in Resident(full) /\ s \in Resident(full)
        /\ EvictedBefore(full, arrival, v, s)
    <3>1. PICK V \in SUBSET Resident(full) :
             /\ Resident(full) = Resident(node) \cup Range(req)
             /\ \A x \in V, y \in Resident(full) \ V : EvictedBefore(full, arrival, x, y)
             /\ Resident(node') = Resident(full) \ V
      BY <2>1, AdmitOutcome, ZenonT(120)
    <3> HIDE DEF full
    <3> QED
      BY <3>1
  <2>3. \A b \in Resident(full) :
           /\ Live(full, arrival, b) <=> AskedLive(b)'
           /\ b \in PinnedBucket(full, arrival) <=> AskedPin(b)'
           /\ b \in DOMAIN full.mark => full.mark[b] = asked'[b].want
    BY <2>1, BucketsAreAsked
  <2>4. IsNode(full) /\ full.cache = order
    <3>1. IsNode(full)
      BY <2>1, AdmitOutcome, ZenonT(60)
    <3>2. full.cache = order
      BY DEF Seated
    <3> QED
      BY <3>1, <3>2
  <2>5. \A a, b \in DOMAIN order : asked'[a].at < asked'[b].at => a \in order[b]
    BY <2>1, SeatedRecency
  <2>6. now' = arrival
    BY <2>1 DEF Admit
  <2> HIDE DEF full, order
  <2>7. \A b \in Resident(full) : Live(full, arrival, b) => EffectiveRank(b)' # 1
    <3> SUFFICES ASSUME NEW b \in Resident(full), Live(full, arrival, b)
                 PROVE  EffectiveRank(b)' # 1
      OBVIOUS
    <3>1. full.mark[b] = asked'[b].want /\ full.mark[b] \in Marks /\ AskedLive(b)'
      BY <2>3, <2>4 DEF Live, IsNode
    <3>2. asked'[b].want.prio \in -1..100
      BY <3>1 DEF Marks, EVICT_FIRST, PINNED
    <3> QED
      BY <3>1, <3>2 DEF EffectiveRank
  <2>8. \/ ~Live(full, arrival, v) /\ ~Live(full, arrival, s)
        \/ Live(full, arrival, v) /\ Live(full, arrival, s) /\ full.mark[v] = full.mark[s]
    <3>1. CASE asked'[v].want = asked'[s].want
      <4>1. AskedLive(v)' <=> AskedLive(s)'
        BY <3>1 DEF AskedLive
      <4> QED
        BY <2>2, <2>3, <3>1, <4>1 DEF Live
    <3>2. CASE EffectiveRank(v)' = 1 /\ EffectiveRank(s)' = 1
      BY <2>2, <2>7, <3>2
    <3> QED
      BY <3>1, <3>2
  <2>9. v \in order[s]
    BY <2>2, <2>4, <2>8, SameStandingIsRecency
  <2>10. v \in DOMAIN order /\ s \in DOMAIN order /\ IsRecency(order)
    BY <2>2, <2>4 DEF IsNode, Resident
  <2>11. ~(asked'[s].at < asked'[v].at)
    BY <2>5, <2>9, <2>10 DEF IsRecency, IsOrder
  <2>12. asked'[s].at \in Int /\ asked'[v].at \in Int
    <3>1. v \in Block /\ s \in Block
      BY <2>10 DEF IsRecency
    <3> QED
      BY <2>1, <3>1 DEF TypeOK, Admit
  <2> QED
    BY <2>11, <2>12
<1> QED
  BY <1>1, TypeCorrect, MarksAreLastAsk, AlwaysAskedByServed, RecencyOrder,
     PTL DEF Spec, TiesGoByRecency

-----------------------------------------------------------------------------
(* Without live directives a node is an LRU cache *)

\* When nothing asked of any block is still in force, admit keeps the most recent blocks.
LEMMA UnmarkedStep ==
    ASSUME TypeOK, MarkIsLastAsk,
           NEW arrival \in now..MaxTime, NEW service \in Service, NEW req \in Request,
           NEW retainUntil \in Nat, NEW prio \in Priority,
           Admit(arrival, service, req, retainUntil, prio),
           \A b \in Block : ~AskedLive(b)'
    PROVE  LET order == Touched(node.cache, req)
           IN  node'.cache = Kept(order, MostRecent(order, Capacity))
<1> DEFINE order == Touched(node.cache, req)
           full == Seated(node, arrival, service, req, retainUntil, prio)
<1>1. PICK V \in SUBSET Resident(full) :
         /\ IsNode(full) /\ full.cache = order
         /\ Cardinality(V) = Overflow(full)
         /\ \A v \in V, s \in Resident(full) \ V : EvictedBefore(full, arrival, v, s)
         /\ node'.cache = Kept(full.cache, Resident(full) \ V)
  BY AdmitOutcome, ZenonT(30)
<1>2. \A b \in Resident(full) : Live(full, arrival, b) <=> AskedLive(b)'
  BY BucketsAreAsked
<1> HIDE DEF order, full
<1>3. IsRecency(order) /\ DOMAIN order = Resident(full) /\ Resident(full) \subseteq Block
  BY <1>1 DEF IsNode, IsRecency, IsOrder, Resident
<1>4. \A b \in Resident(full) : ~Live(full, arrival, b)
  BY <1>2, <1>3
<1>5. \A v \in V, s \in Resident(full) \ V : v \in order[s]
  BY <1>1, <1>4 DEF EvictedBefore, EvictFirstBucket, PinnedBucket, WeakerPin
<1>6. Cardinality(Resident(full)) \in Nat
  BY <1>3, ResidentIsFinite
<1>7. LET n == Cardinality(DOMAIN order)
      IN  Cardinality(V) = IF n >= Capacity THEN n - Capacity ELSE 0
  BY <1>1, <1>3, <1>6, CapacityIsNat DEF Overflow, MaxOf
<1>8. DOMAIN order \ V = MostRecent(order, Capacity)
  BY <1>3, <1>5, <1>7, CapacityIsNat, OldestLeave
<1> QED
  BY <1>1, <1>3, <1>8 DEF order

\* Expired marks in the side tables, and the slow path of _pick_victim they force, change
\* nothing: as long as no directive is in force the node evicts as plain LRU does.
THEOREM ExpiredCollapses == Spec => UnmarkedIsLRU
<1> DEFINE LRUStep == \E req \in Request : LET order == Touched(node.cache, req)
                                         IN  node.cache' = Kept(order, MostRecent(order, Capacity))
<1>1. TypeOK /\ MarkIsLastAsk /\ [Next]_vars
      => [(\A b \in Block : ~AskedLive(b)') => LRUStep]_vars
  <2> SUFFICES ASSUME TypeOK, MarkIsLastAsk, Next, \A b \in Block : ~AskedLive(b)'
               PROVE  LRUStep
    OBVIOUS
  <2> QED
    BY NextIsAdmit, UnmarkedStep
<1> QED
  BY <1>1, TypeCorrect, MarksAreLastAsk, PTL DEF Spec, UnmarkedIsLRU

\* A stream that never sets a directive is served by a plain LRU cache.
THEOREM PlainIsLRU ==
    ASSUME Priority = {NoPriority}, Window = {0}
    PROVE  Spec => IsPlainLRU
<1> DEFINE NothingAsked == \A b \in Block : asked[b].want = NoMark
<1>1. Init => NothingAsked /\ Plain!Init
  BY DEF Init, EmptyNode, Plain!Init, NoBlocks, Plain!NoBlocks
<1>2. TypeOK /\ MarkIsLastAsk /\ NothingAsked /\ [Next]_vars
      => NothingAsked' /\ [Plain!Next]_(node.cache)
  <2> SUFFICES ASSUME TypeOK, MarkIsLastAsk, NothingAsked, [Next]_vars
               PROVE  NothingAsked' /\ [Plain!Next]_(node.cache)
    OBVIOUS
  <2>1. CASE Next
    <3>1. PICK arrival \in now..MaxTime, service \in Service, req \in Request :
             Admit(arrival, service, req, arrival, NoPriority)
      <4>1. PICK arrival \in now..MaxTime, service \in Service, req \in Request :
               Admit(arrival, service, req, arrival + 0, NoPriority)
        BY <2>1 DEF Next
      <4>2. arrival + 0 = arrival
        BY DEF TypeOK
      <4> QED
        BY <4>1, <4>2
    <3>2. arrival \in Nat
      BY DEF TypeOK
    <3>3. Directive(arrival, arrival, NoPriority) = NoMark
      BY <3>2 DEF Directive
    <3>4. NothingAsked'
      BY <3>1, <3>3 DEF Admit
    <3>5. \A b \in Block : ~AskedLive(b)'
      BY <3>4 DEF AskedLive
    <3>6. LET order == Touched(node.cache, req)
          IN  node'.cache = Kept(order, MostRecent(order, Capacity))
      BY <3>1, <3>2, <3>5, UnmarkedStep
    <3>7. Plain!Touch(req)
      <4>1. \A r : Plain!Range(r) = Range(r)
        BY DEF Plain!Range, Range
      <4>2. \A r, b : Plain!InFrontOf(r, b) = InFrontOf(r, b)
        BY DEF Plain!InFrontOf, InFrontOf
      <4>3. \A o, r : Plain!Touched(o, r) = Touched(o, r)
        BY <4>1, <4>2 DEF Plain!Touched, Touched
      <4>4. \A o, S : Plain!Kept(o, S) = Kept(o, S)
        BY DEF Plain!Kept, Kept
      <4>5. \A o, c : Plain!MostRecent(o, c) = MostRecent(o, c)
        BY DEF Plain!MostRecent, MostRecent, Plain!NewerThan, NewerThan,
               Plain!Cardinality, Cardinality
      <4> QED
        BY <3>6, <4>3, <4>4, <4>5 DEF Plain!Touch, Plain!LRUTouched
    <3> QED
      BY <3>4, <3>7 DEF Plain!Next
  <2>2. CASE UNCHANGED vars
    BY <2>2 DEF vars
  <2> QED
    BY <2>1, <2>2
<1> QED
  BY <1>1, <1>2, TypeCorrect, MarksAreLastAsk, PTL DEF Spec, IsPlainLRU, Plain!Spec

-----------------------------------------------------------------------------
(* The router's index beside the caches: two LRUs of different capacity fed the same        *)
(* requests, of which the narrower is always the recent end of the wider.                   *)

\* Both the index and the caches are recency orders (a total order of last use per node),
\* for any capacities and requests.
THEOREM BeliefTypeCorrect == BeliefSpec => []BeliefTypeOK
<1>1. BeliefInit => BeliefTypeOK
  BY EmptyIsRecency DEF BeliefInit, BeliefTypeOK
<1>2. BeliefTypeOK /\ [BeliefNext]_beliefVars => BeliefTypeOK'
  <2> SUFFICES ASSUME BeliefTypeOK, [BeliefNext]_beliefVars PROVE BeliefTypeOK'
    OBVIOUS
  <2>1. CASE UNCHANGED beliefVars
    BY <2>1 DEF beliefVars, BeliefTypeOK
  <2>2. ASSUME NEW m \in NodeId, NEW req \in Request, Route(m, req)
        PROVE  BeliefTypeOK'
    <3>1. IsRecency(LRUTouched(believed[m], req, BeliefCapacity))
      BY LRUTouchedIsRecency, CapacityIsNat, BeliefCapacityIsNat DEF BeliefTypeOK
    <3>2. IsRecency(LRUTouched(resident[m], req, Capacity))
      BY LRUTouchedIsRecency, CapacityIsNat, BeliefCapacityIsNat DEF BeliefTypeOK
    <3> QED
      BY <2>2, <3>1, <3>2 DEF Route, record, BeliefTypeOK
  <2> QED
    BY <2>1, <2>2 DEF BeliefNext
<1> QED
  BY <1>1, <1>2, PTL DEF BeliefSpec

\* Beliefs differ from the caches by capacity only: the narrower of index and cache holds
\* exactly the most recent blocks of the wider one, for any capacities and requests.
THEOREM BeliefsAreTruncations == BeliefSpec => []BeliefIsTruncation
<1>1. BeliefInit => BeliefIsTruncation
  <2>1. \A n : Kept(NoBlocks, MostRecent(NoBlocks, n)) = NoBlocks
    BY DEF Kept, MostRecent, NoBlocks
  <2> QED
    BY <2>1 DEF BeliefInit, BeliefIsTruncation
<1>2. BeliefTypeOK /\ BeliefIsTruncation /\ [BeliefNext]_beliefVars => BeliefIsTruncation'
  <2> SUFFICES ASSUME BeliefTypeOK, BeliefIsTruncation, [BeliefNext]_beliefVars PROVE BeliefIsTruncation'
    OBVIOUS
  <2>1. CASE UNCHANGED beliefVars
    BY <2>1 DEF beliefVars, BeliefIsTruncation
  <2>2. ASSUME NEW m \in NodeId, NEW req \in Request, Route(m, req)
        PROVE  BeliefIsTruncation'
    <3>1. /\ believed'[m] = LRUTouched(believed[m], req, BeliefCapacity)
          /\ resident'[m] = LRUTouched(resident[m], req, Capacity)
          /\ \A k \in NodeId \ {m} : believed'[k] = believed[k] /\ resident'[k] = resident[k]
      BY <2>2 DEF Route, record, BeliefTypeOK
    <3>2. IsRecency(believed[m]) /\ IsRecency(resident[m])
      BY DEF BeliefTypeOK
    <3>3. ASSUME BeliefCapacity <= Capacity
          PROVE  believed'[m] = Kept(resident'[m], MostRecent(resident'[m], BeliefCapacity))
      BY <3>1, <3>2, <3>3, TouchKeepsTruncation, CapacityIsNat, BeliefCapacityIsNat DEF BeliefIsTruncation
    <3>4. ASSUME Capacity <= BeliefCapacity
          PROVE  resident'[m] = Kept(believed'[m], MostRecent(believed'[m], Capacity))
      BY <3>1, <3>2, <3>4, TouchKeepsTruncation, CapacityIsNat, BeliefCapacityIsNat DEF BeliefIsTruncation
    <3>5. ASSUME NEW k \in NodeId
          PROVE  /\ BeliefCapacity <= Capacity
                      => believed'[k] = Kept(resident'[k], MostRecent(resident'[k], BeliefCapacity))
                 /\ Capacity <= BeliefCapacity
                      => resident'[k] = Kept(believed'[k], MostRecent(believed'[k], Capacity))
      <4>1. CASE k = m
        BY <4>1, <3>3, <3>4
      <4>2. CASE k # m
        BY <4>2, <3>1 DEF BeliefIsTruncation
      <4> QED
        BY <4>1, <4>2
    <3> QED
      BY <3>5 DEF BeliefIsTruncation
  <2> QED
    BY <2>1, <2>2 DEF BeliefNext
<1> QED
  BY <1>1, <1>2, BeliefTypeCorrect, PTL DEF BeliefSpec

\* More blocks match no shorter a prefix.
LEMMA PrefixGrows ==
    ASSUME NEW req \in Request, NEW few, NEW many, few \subseteq many
    PROVE  MatchedPrefix(req, few) <= MatchedPrefix(req, many)
<1> DEFINE Run(blocks) == {i \in DOMAIN req : \A j \in 1..i : req[j] \in blocks}
<1>1. DOMAIN req = 1..Len(req) /\ Len(req) \in Nat
  BY ChainOrder
<1>2. IsFiniteSet(1..Len(req))
  BY <1>1, FS_Interval
<1>3. Run(few) \subseteq Run(many) /\ Run(many) \subseteq 1..Len(req)
  BY <1>1
<1>4. IsFiniteSet(Run(many))
  BY <1>2, <1>3, FS_Subset
<1> HIDE DEF Run
<1>5. Cardinality(Run(few)) <= Cardinality(Run(many))
  BY <1>3, <1>4, FS_Subset
<1> QED
  BY <1>5 DEF MatchedPrefix, Run

\* An index no wider than the caches never believes in an evicted prefix block: with the
\* default capacities the approximate scorer is never wrong about a prefix.
THEOREM IndexNeverOverestimates == BeliefSpec => []NeverOverestimates
<1>1. BeliefIsTruncation => NeverOverestimates
  <2> SUFFICES ASSUME BeliefIsTruncation, BeliefCapacity <= Capacity,
                      NEW n \in NodeId, NEW req \in Request
               PROVE  MatchedPrefix(req, DOMAIN believed[n]) <= MatchedPrefix(req, DOMAIN resident[n])
    BY DEF NeverOverestimates
  <2>1. DOMAIN believed[n] \subseteq DOMAIN resident[n]
    <3>1. believed[n] = Kept(resident[n], MostRecent(resident[n], BeliefCapacity))
      BY DEF BeliefIsTruncation
    <3>2. DOMAIN Kept(resident[n], MostRecent(resident[n], BeliefCapacity)) \subseteq DOMAIN resident[n]
      BY DEF Kept, MostRecent
    <3> QED
      BY <3>1, <3>2
  <2> QED
    BY <2>1, PrefixGrows
<1> QED
  BY <1>1, BeliefsAreTruncations, PTL

\* An index no narrower than the caches never misses a resident prefix block.
THEOREM IndexNeverUnderestimates == BeliefSpec => []NeverUnderestimates
<1>1. BeliefIsTruncation => NeverUnderestimates
  <2> SUFFICES ASSUME BeliefIsTruncation, Capacity <= BeliefCapacity,
                      NEW n \in NodeId, NEW req \in Request
               PROVE  MatchedPrefix(req, DOMAIN resident[n]) <= MatchedPrefix(req, DOMAIN believed[n])
    BY DEF NeverUnderestimates
  <2>1. DOMAIN resident[n] \subseteq DOMAIN believed[n]
    <3>1. resident[n] = Kept(believed[n], MostRecent(believed[n], Capacity))
      BY DEF BeliefIsTruncation
    <3>2. DOMAIN Kept(believed[n], MostRecent(believed[n], Capacity)) \subseteq DOMAIN believed[n]
      BY DEF Kept, MostRecent
    <3> QED
      BY <3>1, <3>2
  <2> QED
    BY <2>1, PrefixGrows
<1> QED
  BY <1>1, BeliefsAreTruncations, PTL

-----------------------------------------------------------------------------
(* The node as the code runs it (NodeScan): the keys of a dict *)

\* The keys of a dict in their order: no key twice.
Distinct(keys) ==
    /\ keys \in Seq(Block)
    /\ \A i, j \in DOMAIN keys : keys[i] = keys[j] => i = j

LEMMA FrontOf ==
    ASSUME NEW keys, NEW x, NEW b
    PROVE  x \in InFrontOf(keys, b)
             <=> \E i, j \in DOMAIN keys : i < j /\ keys[i] = x /\ keys[j] = b
BY DEF InFrontOf

\* Of two keys the one at the smaller place is in front.
LEMMA FrontByPlace ==
    ASSUME NEW keys, Distinct(keys), NEW i \in DOMAIN keys, NEW j \in DOMAIN keys
    PROVE  keys[i] \in InFrontOf(keys, keys[j]) <=> i < j
<1>1. keys[i] \in InFrontOf(keys, keys[j])
        <=> \E k, m \in DOMAIN keys : k < m /\ keys[k] = keys[i] /\ keys[m] = keys[j]
  BY FrontOf
<1> QED
  BY <1>1 DEF Distinct

\* Where the keys are once one is popped.
LEMMA PopPlaces ==
    ASSUME NEW keys, Distinct(keys), NEW h \in Range(keys)
    PROVE  \E p \in DOMAIN keys :
             /\ keys[p] = h
             /\ Pop(keys, h) \in Seq(Block) /\ Len(Pop(keys, h)) = Len(keys) - 1
             /\ \A k \in 1..(Len(keys) - 1) :
                   Pop(keys, h)[k] = IF k < p THEN keys[k] ELSE keys[k + 1]
<1> DEFINE p == CHOOSE i \in DOMAIN keys : keys[i] = h
<1>1. p \in DOMAIN keys /\ keys[p] = h
  BY DEF Range
<1>2. Pop(keys, h) = SubSeq(keys, 1, p - 1) \o SubSeq(keys, p + 1, Len(keys))
  BY DEF Pop, RemoveAt
<1> HIDE DEF p
<1>3. keys \in Seq(Block) /\ Len(keys) \in Nat /\ p \in 1..Len(keys)
  BY <1>1 DEF Distinct
<1>4. /\ SubSeq(keys, 1, p - 1) \in Seq(Block) /\ Len(SubSeq(keys, 1, p - 1)) = p - 1
      /\ \A k \in 1..(p - 1) : SubSeq(keys, 1, p - 1)[k] = keys[k]
  BY <1>3
<1>5. /\ SubSeq(keys, p + 1, Len(keys)) \in Seq(Block)
      /\ Len(SubSeq(keys, p + 1, Len(keys))) = Len(keys) - p
      /\ \A k \in 1..(Len(keys) - p) : SubSeq(keys, p + 1, Len(keys))[k] = keys[p + k]
  BY <1>3
<1>6. PICK head : head = SubSeq(keys, 1, p - 1)
  OBVIOUS
<1>7. PICK tail : tail = SubSeq(keys, p + 1, Len(keys))
  OBVIOUS
<1>8. /\ head \in Seq(Block) /\ Len(head) = p - 1 /\ \A k \in 1..(p - 1) : head[k] = keys[k]
      /\ tail \in Seq(Block) /\ Len(tail) = Len(keys) - p
      /\ \A k \in 1..(Len(keys) - p) : tail[k] = keys[p + k]
  BY <1>4, <1>5, <1>6, <1>7
<1>9. /\ head \o tail \in Seq(Block) /\ Len(head \o tail) = Len(keys) - 1
      /\ \A k \in 1..(Len(keys) - 1) :
            (head \o tail)[k] = IF k < p THEN keys[k] ELSE keys[k + 1]
  <2>1. head \o tail \in Seq(Block) /\ Len(head \o tail) = Len(keys) - 1
    <3>1. head \o tail \in Seq(Block)
      BY <1>8
    <3>2. Len(head \o tail) = Len(head) + Len(tail)
      BY <1>8
    <3> QED
      BY <1>3, <1>8, <3>1, <3>2
  <2>2. ASSUME NEW k \in 1..(Len(keys) - 1)
        PROVE  (head \o tail)[k] = IF k < p THEN keys[k] ELSE keys[k + 1]
    <3>1. (head \o tail)[k] = IF k <= Len(head) THEN head[k] ELSE tail[k - Len(head)]
      BY <1>3, <1>8
    <3>2. CASE k < p
      BY <1>3, <1>8, <3>1, <3>2
    <3>3. CASE ~(k < p)
      <4>1. k - (p - 1) \in 1..(Len(keys) - p) /\ p + (k - (p - 1)) = k + 1
        BY <1>3, <3>3
      <4>2. tail[k - (p - 1)] = keys[k + 1]
        BY <1>8, <4>1
      <4> QED
        BY <1>3, <1>8, <3>1, <3>3, <4>2
    <3> QED
      BY <3>2, <3>3
  <2> QED
    BY <2>1, <2>2
<1> QED
  BY <1>1, <1>2, <1>6, <1>7, <1>9

\* Popping a key leaves the others in their order.
LEMMA PopKeeps ==
    ASSUME NEW keys, Distinct(keys), NEW h
    PROVE  /\ Distinct(Pop(keys, h))
           /\ Range(Pop(keys, h)) = Range(keys) \ {h}
           /\ \A b \in Range(keys) \ {h} :
                 InFrontOf(Pop(keys, h), b) = InFrontOf(keys, b) \ {h}
<1>1. CASE h \notin Range(keys)
  <2>1. Pop(keys, h) = keys
    BY <1>1 DEF Pop
  <2>2. \A b : h \notin InFrontOf(keys, b)
    BY <1>1 DEF InFrontOf, Range
  <2> QED
    BY <1>1, <2>1, <2>2
<1>2. CASE h \in Range(keys)
  <2>1. PICK new : new = Pop(keys, h)
    OBVIOUS
  <2>2. PICK p \in DOMAIN keys :
             /\ keys[p] = h
             /\ new \in Seq(Block) /\ Len(new) = Len(keys) - 1
             /\ \A k \in 1..(Len(keys) - 1) : new[k] = IF k < p THEN keys[k] ELSE keys[k + 1]
    BY <1>2, <2>1, PopPlaces
  <2>3. PICK n : n = Len(keys)
    OBVIOUS
  <2>4. /\ n \in Nat /\ DOMAIN keys = 1..n /\ p \in 1..n /\ n - 1 \in Nat
        /\ DOMAIN new = 1..(n - 1)
        /\ \A i, j \in 1..n : keys[i] = keys[j] => i = j
    BY <2>2, <2>3 DEF Distinct
  <2>5. \A k \in 1..(n - 1) : (k < p => new[k] = keys[k]) /\ (~(k < p) => new[k] = keys[k + 1])
    BY <2>2, <2>3
  \* the place in keys of the key at place k of new, and back
  <2> DEFINE Was(k) == IF k < p THEN k ELSE k + 1
             Is(i) == IF i < p THEN i ELSE i - 1
  <2>6. \A k \in 1..(n - 1) : /\ Was(k) \in 1..n /\ Was(k) # p /\ new[k] = keys[Was(k)]
                              /\ Is(Was(k)) = k
    BY <2>4, <2>5
  <2>7. \A i \in 1..n : i # p => Is(i) \in 1..(n - 1) /\ new[Is(i)] = keys[i] /\ Was(Is(i)) = i
    <3> SUFFICES ASSUME NEW i \in 1..n, i # p
                 PROVE  Is(i) \in 1..(n - 1) /\ new[Is(i)] = keys[i] /\ Was(Is(i)) = i
      OBVIOUS
    <3>1. Is(i) \in 1..(n - 1) /\ Was(Is(i)) = i
      BY <2>4
    <3> HIDE DEF Is, Was
    <3> QED
      BY <2>6, <3>1
  <2>8. \A k, m \in 1..(n - 1) : k < m <=> Was(k) < Was(m)
    BY <2>4
  <2> HIDE DEF Was, Is
  <2>9. Distinct(new)
    <3>1. ASSUME NEW i \in 1..(n - 1), NEW j \in 1..(n - 1), new[i] = new[j] PROVE i = j
      <4>1. keys[Was(i)] = keys[Was(j)]
        BY <2>6, <3>1
      <4>2. Was(i) = Was(j)
        BY <2>4, <2>6, <4>1
      <4> QED
        BY <2>6, <4>2
    <3> QED
      BY <2>2, <2>4, <3>1 DEF Distinct
  <2>10. Range(new) = Range(keys) \ {h}
    <3>1. ASSUME NEW x \in Range(new) PROVE x \in Range(keys) \ {h}
      <4>1. PICK k \in 1..(n - 1) : x = new[k]
        BY <2>4, <3>1 DEF Range
      <4> QED
        BY <2>2, <2>4, <2>6, <4>1 DEF Range
    <3>2. ASSUME NEW x \in Range(keys) \ {h} PROVE x \in Range(new)
      <4>1. PICK i \in 1..n : x = keys[i]
        BY <2>4, <3>2 DEF Range
      <4>2. i # p
        BY <2>2, <4>1
      <4> QED
        BY <2>4, <2>7, <4>1, <4>2 DEF Range
    <3> QED
      BY <3>1, <3>2
  <2>11. ASSUME NEW b \in Range(keys) \ {h}
         PROVE  InFrontOf(new, b) = InFrontOf(keys, b) \ {h}
    <3>1. ASSUME NEW x \in InFrontOf(new, b) PROVE x \in InFrontOf(keys, b) \ {h}
      <4>1. PICK i \in 1..(n - 1), j \in 1..(n - 1) : i < j /\ new[i] = x /\ new[j] = b
        BY <2>4, <3>1, FrontOf
      <4>2. Was(i) < Was(j) /\ keys[Was(i)] = x /\ keys[Was(j)] = b /\ Was(i) # p
        BY <2>6, <2>8, <4>1
      <4>3. Was(i) \in DOMAIN keys /\ Was(j) \in DOMAIN keys
        BY <2>4, <2>6
      <4>4. x # h
        BY <2>2, <2>4, <4>2, <4>3
      <4> QED
        BY <4>2, <4>3, <4>4, FrontOf
    <3>2. ASSUME NEW x \in InFrontOf(keys, b) \ {h} PROVE x \in InFrontOf(new, b)
      <4>1. PICK i \in 1..n, j \in 1..n : i < j /\ keys[i] = x /\ keys[j] = b
        BY <2>4, <3>2, FrontOf
      <4>2. i # p /\ j # p
        BY <2>2, <2>4, <4>1
      <4>3. /\ Is(i) \in 1..(n - 1) /\ Is(j) \in 1..(n - 1)
            /\ new[Is(i)] = x /\ new[Is(j)] = b
            /\ Was(Is(i)) = i /\ Was(Is(j)) = j
        BY <2>7, <4>1, <4>2
      <4>4. Is(i) < Is(j)
        BY <2>8, <4>1, <4>3
      <4> QED
        BY <2>4, <4>3, <4>4, FrontOf
    <3> QED
      BY <3>1, <3>2
  <2> QED
    BY <2>1, <2>9, <2>10, <2>11
<1> QED
  BY <1>1, <1>2

\* A new key goes last.
LEMMA PutLast ==
    ASSUME NEW keys, Distinct(keys), NEW h \in Block, h \notin Range(keys)
    PROVE  /\ Distinct(Append(keys, h))
           /\ Range(Append(keys, h)) = Range(keys) \cup {h}
           /\ \A b \in Range(keys) : InFrontOf(Append(keys, h), b) = InFrontOf(keys, b)
           /\ InFrontOf(Append(keys, h), h) = Range(keys)
<1>1. PICK n : n = Len(keys)
  OBVIOUS
<1>2. PICK new : new = Append(keys, h)
  OBVIOUS
<1>3. /\ n \in Nat /\ DOMAIN keys = 1..n /\ \A i, j \in 1..n : keys[i] = keys[j] => i = j
      /\ keys \in Seq(Block)
  BY <1>1 DEF Distinct
<1>4. /\ new \in Seq(Block) /\ DOMAIN new = 1..(n + 1)
      /\ new[n + 1] = h /\ \A i \in 1..n : new[i] = keys[i]
  BY <1>1, <1>2, <1>3
<1>5. \A i \in 1..n : keys[i] # h /\ keys[i] \in Range(keys)
  BY <1>3 DEF Range
<1>6. \A i \in 1..(n + 1) : i \in 1..n \/ i = n + 1
  BY <1>3
<1>7. Distinct(new)
  BY <1>3, <1>4, <1>5, <1>6 DEF Distinct
<1>8. Range(new) = Range(keys) \cup {h}
  <2>1. \A x \in Range(new) : x \in Range(keys) \cup {h}
    BY <1>4, <1>5, <1>6 DEF Range
  <2>2. h \in Range(new)
    <3>1. n + 1 \in 1..(n + 1)
      BY <1>3
    <3> QED
      BY <1>4, <3>1 DEF Range
  <2>3. \A x \in Range(keys) : x \in Range(new)
    <3>1. \A i \in 1..n : i \in 1..(n + 1)
      BY <1>3
    <3> QED
      BY <1>3, <1>4, <3>1 DEF Range
  <2> QED
    BY <2>1, <2>2, <2>3
<1>9. ASSUME NEW b \in Range(keys) PROVE InFrontOf(new, b) = InFrontOf(keys, b)
  <2>1. b # h
    OBVIOUS
  <2>2. ASSUME NEW x \in InFrontOf(new, b) PROVE x \in InFrontOf(keys, b)
    <3>1. PICK i \in 1..(n + 1), j \in 1..(n + 1) : i < j /\ new[i] = x /\ new[j] = b
      <4>1. \E i, j \in DOMAIN new : i < j /\ new[i] = x /\ new[j] = b
        BY <2>2, FrontOf
      <4> QED
        BY <1>4, <4>1, Zenon
    <3>2. i \in 1..n /\ j \in 1..n
      BY <1>3, <1>4, <2>1, <3>1
    <3> QED
      BY <1>3, <1>4, <3>1, <3>2, FrontOf
  <2>3. ASSUME NEW x \in InFrontOf(keys, b) PROVE x \in InFrontOf(new, b)
    <3>1. PICK i \in 1..n, j \in 1..n : i < j /\ keys[i] = x /\ keys[j] = b
      BY <1>3, <2>3, FrontOf
    <3>2. i \in 1..(n + 1) /\ j \in 1..(n + 1)
      BY <1>3, <3>1
    <3> QED
      BY <1>4, <3>1, <3>2, FrontOf
  <2> QED
    BY <2>2, <2>3
<1>10. InFrontOf(new, h) = Range(keys)
  <2>1. ASSUME NEW x \in InFrontOf(new, h) PROVE x \in Range(keys)
    <3>1. PICK i \in 1..(n + 1), j \in 1..(n + 1) : i < j /\ new[i] = x /\ new[j] = h
      <4>1. \E i, j \in DOMAIN new : i < j /\ new[i] = x /\ new[j] = h
        BY <2>1, FrontOf
      <4> QED
        BY <1>4, <4>1, Zenon
    <3>2. i \in 1..n
      BY <1>3, <3>1
    <3> QED
      BY <1>4, <1>5, <3>1, <3>2
  <2>2. ASSUME NEW x \in Range(keys) PROVE x \in InFrontOf(new, h)
    <3>1. PICK i \in 1..n : keys[i] = x
      BY <1>3, <2>2 DEF Range
    <3>2. i < n + 1 /\ i \in 1..(n + 1) /\ n + 1 \in 1..(n + 1)
      BY <1>3, <3>1
    <3> QED
      BY <1>4, <3>1, <3>2, FrontOf
  <2> QED
    BY <2>1, <2>2
<1> QED
  BY <1>2, <1>7, <1>8, <1>9, <1>10

-----------------------------------------------------------------------------
(* The three loops, turn by turn *)

\* after[k] is the node after k turns of the seating loop.
SeatRun(after, nd, req, d) ==
    /\ after[0] = nd
    /\ \A k \in 1..Len(req) : after[k] = Seat(after[k - 1], req[k], d)
    /\ SeatAll(nd, req, d) = after[Len(req)]

\* There is such a run.
LEMMA SeatTurns ==
    ASSUME NEW nd, NEW req, Len(req) \in Nat, NEW d
    PROVE  \E after : SeatRun(after, nd, req, d)
<1> DEFINE Runs(f, m) ==
             /\ f = [k \in 0..m |-> f[k]] /\ f[0] = nd
             /\ \A k \in 1..m : f[k] = Seat(f[k - 1], req[k], d)
           Bad == {m \in 0..Len(req) : ~ \E f : Runs(f, m)}
<1>1. Bad = {}
  <2> SUFFICES ASSUME Bad # {} PROVE FALSE
    OBVIOUS
  <2>0. Bad \in SUBSET Nat
    OBVIOUS
  <2>1. PICK m \in Bad : \A i \in Bad : m <= i
    BY <2>0, LeastOf
  <2>2. m # 0
    <3>1. Runs([k \in 0..0 |-> nd], 0)
      OBVIOUS
    <3> QED
      BY <2>1, <3>1
  <2>3. m - 1 \in 0..Len(req) /\ m - 1 \notin Bad /\ m \in 1..Len(req)
    BY <2>1, <2>2
  <2>4. PICK g : Runs(g, m - 1)
    BY <2>3
  <2> DEFINE f == [k \in 0..m |-> IF k = m THEN Seat(g[m - 1], req[m], d) ELSE g[k]]
  <2>5. Runs(f, m)
    <3>1. f[0] = nd /\ f = [k \in 0..m |-> f[k]]
      BY <2>3, <2>4
    <3>2. ASSUME NEW k \in 1..m PROVE f[k] = Seat(f[k - 1], req[k], d)
      <4>1. f[k - 1] = g[k - 1]
        BY <2>3
      <4>2. CASE k = m
        <5>1. f[m] = Seat(g[m - 1], req[m], d)
          BY <2>3
        <5> QED
          BY <4>1, <4>2, <5>1, Zenon
      <4>3. CASE k # m
        <5>1. k \in 1..(m - 1) /\ f[k] = g[k]
          BY <2>3, <4>3
        <5> QED
          BY <2>4, <4>1, <5>1, Zenon
      <4> QED
        BY <4>2, <4>3
    <3> QED
      BY <3>1, <3>2
  <2> QED
    BY <2>1, <2>5
<1>2. PICK f : Runs(f, Len(req))
  BY <1>1
<1> DEFINE Turns(g) == g = [k \in 0..Len(req) |-> IF k = 0 THEN nd ELSE Seat(g[k - 1], req[k], d)]
<1>3. Turns(f)
  <2>1. ASSUME NEW k \in 0..Len(req)
        PROVE  f[k] = IF k = 0 THEN nd ELSE Seat(f[k - 1], req[k], d)
    <3>1. CASE k = 0
      BY <1>2, <3>1, Zenon
    <3>2. CASE k # 0
      <4>1. k \in 1..Len(req)
        BY <3>2
      <4> QED
        BY <1>2, <3>2, <4>1, Zenon
    <3> QED
      BY <3>1, <3>2
  <2>2. [k \in 0..Len(req) |-> f[k]]
          = [k \in 0..Len(req) |-> IF k = 0 THEN nd ELSE Seat(f[k - 1], req[k], d)]
    BY <2>1, Zenon
  <2> QED
    BY <1>2, <2>2, Zenon
<1>4. PICK after : after = CHOOSE g : Turns(g)
  OBVIOUS
<1>5. Turns(after)
  BY <1>3, <1>4, Zenon
<1>6. SeatAll(nd, req, d) = after[Len(req)]
  BY <1>4, Zenon DEF SeatAll
<1>7. PICK m : m = Len(req)
  OBVIOUS
<1>8. m \in Nat /\ after = [k \in 0..m |-> IF k = 0 THEN nd ELSE Seat(after[k - 1], req[k], d)]
  BY <1>5, <1>7, Zenon
<1>9. after[0] = nd
  BY <1>8
<1>10. ASSUME NEW k \in 1..m PROVE after[k] = Seat(after[k - 1], req[k], d)
  <2>1. k \in 0..m /\ k # 0
    BY <1>8
  <2> QED
    BY <1>8, <2>1, Zenon
<1>11. SeatRun(after, nd, req, d)
  BY <1>6, <1>7, <1>9, <1>10, Zenon DEF SeatRun
<1> QED
  BY <1>11

\* after[k] is what was found in the first k blocks.
ScanRun(after, nd, n, t) ==
    /\ after[0] = NothingFound
    /\ \A k \in 1..n : after[k] = Scan(nd, t, after[k - 1], nd.cache[k])
    /\ ScanAll(nd, t) = after[n]

\* There is such a run.
LEMMA ScanTurns ==
    ASSUME NEW nd, NEW n \in Nat, Len(nd.cache) = n, NEW t
    PROVE  \E after : ScanRun(after, nd, n, t)
<1> DEFINE Runs(f, m) ==
             /\ f = [k \in 0..m |-> f[k]] /\ f[0] = NothingFound
             /\ \A k \in 1..m : f[k] = Scan(nd, t, f[k - 1], nd.cache[k])
           Bad == {m \in 0..n : ~ \E f : Runs(f, m)}
<1>1. Bad = {}
  <2> SUFFICES ASSUME Bad # {} PROVE FALSE
    OBVIOUS
  <2>0. Bad \in SUBSET Nat
    OBVIOUS
  <2>1. PICK m \in Bad : \A i \in Bad : m <= i
    BY <2>0, LeastOf
  <2>2. m # 0
    <3>1. Runs([k \in 0..0 |-> NothingFound], 0)
      OBVIOUS
    <3> QED
      BY <2>1, <3>1
  <2>3. m - 1 \in 0..n /\ m - 1 \notin Bad /\ m \in 1..n
    BY <2>1, <2>2
  <2>4. PICK g : Runs(g, m - 1)
    BY <2>3
  <2> DEFINE f == [k \in 0..m |-> IF k = m THEN Scan(nd, t, g[m - 1], nd.cache[m]) ELSE g[k]]
  <2>5. Runs(f, m)
    <3>1. f[0] = NothingFound /\ f = [k \in 0..m |-> f[k]]
      BY <2>3, <2>4
    <3>2. ASSUME NEW k \in 1..m PROVE f[k] = Scan(nd, t, f[k - 1], nd.cache[k])
      <4>1. f[k - 1] = g[k - 1]
        BY <2>3
      <4>2. CASE k = m
        <5>1. f[m] = Scan(nd, t, g[m - 1], nd.cache[m])
          BY <2>3
        <5> QED
          BY <4>1, <4>2, <5>1, Zenon
      <4>3. CASE k # m
        <5>1. k \in 1..(m - 1) /\ f[k] = g[k]
          BY <2>3, <4>3
        <5> QED
          BY <2>4, <4>1, <5>1, Zenon
      <4> QED
        BY <4>2, <4>3
    <3> QED
      BY <3>1, <3>2
  <2> QED
    BY <2>1, <2>5
<1>2. PICK f : Runs(f, n)
  BY <1>1
<1> DEFINE Turns(g) == g = [k \in 0..n |-> IF k = 0 THEN NothingFound ELSE Scan(nd, t, g[k - 1], nd.cache[k])]
<1>3. Turns(f)
  <2>1. ASSUME NEW k \in 0..n
        PROVE  f[k] = IF k = 0 THEN NothingFound ELSE Scan(nd, t, f[k - 1], nd.cache[k])
    <3>1. CASE k = 0
      BY <1>2, <3>1, Zenon
    <3>2. CASE k # 0
      <4>1. k \in 1..n
        BY <3>2
      <4> QED
        BY <1>2, <3>2, <4>1, Zenon
    <3> QED
      BY <3>1, <3>2
  <2>2. [k \in 0..n |-> f[k]]
          = [k \in 0..n |-> IF k = 0 THEN NothingFound ELSE Scan(nd, t, f[k - 1], nd.cache[k])]
    BY <2>1, Zenon
  <2> QED
    BY <1>2, <2>2, Zenon
<1>4. PICK after : after = CHOOSE g : Turns(g)
  OBVIOUS
<1>5. Turns(after)
  BY <1>3, <1>4, Zenon
<1>6. ScanAll(nd, t) = after[n]
  BY <1>4, Zenon DEF ScanAll
<1>7. PICK m : m = n
  OBVIOUS
<1>8. m \in Nat /\ after = [k \in 0..m |-> IF k = 0 THEN NothingFound ELSE Scan(nd, t, after[k - 1], nd.cache[k])]
  BY <1>5, <1>7, Zenon
<1>9. after[0] = NothingFound
  BY <1>8
<1>10. ASSUME NEW k \in 1..m PROVE after[k] = Scan(nd, t, after[k - 1], nd.cache[k])
  <2>1. k \in 0..m /\ k # 0
    BY <1>8
  <2> QED
    BY <1>8, <2>1, Zenon
<1>11. ScanRun(after, nd, n, t)
  BY <1>6, <1>7, <1>9, <1>10, Zenon DEF ScanRun
<1> QED
  BY <1>11

\* after[k] is the node after k turns of the eviction loop.
EvictRun(after, nd, n, t) ==
    /\ after[0] = nd
    /\ \A k \in 1..n : after[k] = EvictTurn(after[k - 1], t)
    /\ EvictDown(nd, t) = after[n]

\* There is such a run.
LEMMA EvictTurns ==
    ASSUME NEW nd, NEW n \in Nat, Len(nd.cache) = n, NEW t
    PROVE  \E after : EvictRun(after, nd, n, t)
<1> DEFINE Runs(f, m) ==
             /\ f = [k \in 0..m |-> f[k]] /\ f[0] = nd
             /\ \A k \in 1..m : f[k] = EvictTurn(f[k - 1], t)
           Bad == {m \in 0..n : ~ \E f : Runs(f, m)}
<1>1. Bad = {}
  <2> SUFFICES ASSUME Bad # {} PROVE FALSE
    OBVIOUS
  <2>0. Bad \in SUBSET Nat
    OBVIOUS
  <2>1. PICK m \in Bad : \A i \in Bad : m <= i
    BY <2>0, LeastOf
  <2>2. m # 0
    <3>1. Runs([k \in 0..0 |-> nd], 0)
      OBVIOUS
    <3> QED
      BY <2>1, <3>1
  <2>3. m - 1 \in 0..n /\ m - 1 \notin Bad /\ m \in 1..n
    BY <2>1, <2>2
  <2>4. PICK g : Runs(g, m - 1)
    BY <2>3
  <2> DEFINE f == [k \in 0..m |-> IF k = m THEN EvictTurn(g[m - 1], t) ELSE g[k]]
  <2>5. Runs(f, m)
    <3>1. f[0] = nd /\ f = [k \in 0..m |-> f[k]]
      BY <2>3, <2>4
    <3>2. ASSUME NEW k \in 1..m PROVE f[k] = EvictTurn(f[k - 1], t)
      <4>1. f[k - 1] = g[k - 1]
        BY <2>3
      <4>2. CASE k = m
        <5>1. f[m] = EvictTurn(g[m - 1], t)
          BY <2>3
        <5> QED
          BY <4>1, <4>2, <5>1, Zenon
      <4>3. CASE k # m
        <5>1. k \in 1..(m - 1) /\ f[k] = g[k]
          BY <2>3, <4>3
        <5> QED
          BY <2>4, <4>1, <5>1, Zenon
      <4> QED
        BY <4>2, <4>3
    <3> QED
      BY <3>1, <3>2
  <2> QED
    BY <2>1, <2>5
<1>2. PICK f : Runs(f, n)
  BY <1>1
<1> DEFINE Turns(g) == g = [k \in 0..n |-> IF k = 0 THEN nd ELSE EvictTurn(g[k - 1], t)]
<1>3. Turns(f)
  <2>1. ASSUME NEW k \in 0..n
        PROVE  f[k] = IF k = 0 THEN nd ELSE EvictTurn(f[k - 1], t)
    <3>1. CASE k = 0
      BY <1>2, <3>1, Zenon
    <3>2. CASE k # 0
      <4>1. k \in 1..n
        BY <3>2
      <4> QED
        BY <1>2, <3>2, <4>1, Zenon
    <3> QED
      BY <3>1, <3>2
  <2>2. [k \in 0..n |-> f[k]]
          = [k \in 0..n |-> IF k = 0 THEN nd ELSE EvictTurn(f[k - 1], t)]
    BY <2>1, Zenon
  <2> QED
    BY <1>2, <2>2, Zenon
<1>4. PICK after : after = CHOOSE g : Turns(g)
  OBVIOUS
<1>5. Turns(after)
  BY <1>3, <1>4, Zenon
<1>6. EvictDown(nd, t) = after[n]
  BY <1>4, Zenon DEF EvictDown
<1>7. PICK m : m = n
  OBVIOUS
<1>8. m \in Nat /\ after = [k \in 0..m |-> IF k = 0 THEN nd ELSE EvictTurn(after[k - 1], t)]
  BY <1>5, <1>7, Zenon
<1>9. after[0] = nd
  BY <1>8
<1>10. ASSUME NEW k \in 1..m PROVE after[k] = EvictTurn(after[k - 1], t)
  <2>1. k \in 0..m /\ k # 0
    BY <1>8
  <2> QED
    BY <1>8, <2>1, Zenon
<1>11. EvictRun(after, nd, n, t)
  BY <1>6, <1>7, <1>9, <1>10, Zenon DEF EvictRun
<1> QED
  BY <1>11

-----------------------------------------------------------------------------
(* Seating *)

\* The recency order a key sequence stands for, and the table of marks two side tables do.
Order(keys) == [b \in Range(keys) |-> InFrontOf(keys, b)]
Table(nd) ==
    [b \in DOMAIN nd.priority |-> [prio |-> nd.priority[b], expiry |-> nd.expiry[b]]]

\* The shape of the code's node: the side tables are in step.
IsScanNode(nd) ==
    /\ nd = [cache |-> nd.cache, priority |-> nd.priority, expiry |-> nd.expiry,
             pinnedEvictions |-> nd.pinnedEvictions, busyUntil |-> nd.busyUntil]
    /\ Distinct(nd.cache)
    /\ nd.priority = [b \in DOMAIN nd.priority |-> nd.priority[b]]
    /\ nd.expiry = [b \in DOMAIN nd.priority |-> nd.expiry[b]]

\* What one turn of the seating loop makes of a node.
SeatedOne(nd, new, h, d) ==
    /\ IsScanNode(new)
    /\ new.pinnedEvictions = nd.pinnedEvictions /\ new.busyUntil = nd.busyUntil
    /\ Range(new.cache) = Range(nd.cache) \cup {h}
    /\ \A b \in Range(nd.cache) \ {h} :
          InFrontOf(new.cache, b) = InFrontOf(nd.cache, b) \ {h}
    /\ InFrontOf(new.cache, h) = Range(nd.cache) \ {h}
    /\ \A b : b \in DOMAIN new.priority <=> IF b = h THEN d # NoMark
                                                    ELSE b \in DOMAIN nd.priority
    /\ \A b \in DOMAIN new.priority :
          /\ b = h => new.priority[b] = d.prio /\ new.expiry[b] = d.expiry
          /\ b # h => new.priority[b] = nd.priority[b] /\ new.expiry[b] = nd.expiry[b]

LEMMA SeatOne ==
    ASSUME NEW nd, IsScanNode(nd), NEW h \in Block, NEW d \in Marks \cup {NoMark}
    PROVE  SeatedOne(nd, Seat(nd, h, d), h, d)
<1>0. PICK new : new = Seat(nd, h, d)
  OBVIOUS
<1>1. d.prio = None <=> d = NoMark
  BY NoPriorityIsNone DEF Marks, NoMark, None, EVICT_FIRST, PINNED
<1>2. /\ new = [cache |-> new.cache, priority |-> new.priority, expiry |-> new.expiry,
                pinnedEvictions |-> new.pinnedEvictions, busyUntil |-> new.busyUntil]
      /\ new.cache = Append(Pop(nd.cache, h), h)
      /\ new.priority = IF d = NoMark THEN Without(nd.priority, h) ELSE Set(nd.priority, h, d.prio)
      /\ new.expiry = IF d = NoMark THEN Without(nd.expiry, h) ELSE Set(nd.expiry, h, d.expiry)
      /\ new.pinnedEvictions = nd.pinnedEvictions /\ new.busyUntil = nd.busyUntil
  BY <1>0, <1>1 DEF Seat, IsScanNode
<1>3. /\ Distinct(new.cache)
      /\ Range(new.cache) = Range(nd.cache) \cup {h}
      /\ \A b \in Range(nd.cache) \ {h} :
                 InFrontOf(new.cache, b) = InFrontOf(nd.cache, b) \ {h}
      /\ InFrontOf(new.cache, h) = Range(nd.cache) \ {h}
  <2>1. PICK keys : keys = Pop(nd.cache, h)
    OBVIOUS
  <2>2. /\ Distinct(keys) /\ Range(keys) = Range(nd.cache) \ {h}
        /\ \A b \in Range(nd.cache) \ {h} : InFrontOf(keys, b) = InFrontOf(nd.cache, b) \ {h}
    BY <2>1, PopKeeps DEF IsScanNode
  <2>3. h \notin Range(keys)
    BY <2>2
  <2>4. PICK put : put = Append(keys, h)
    OBVIOUS
  <2>5. /\ Distinct(put) /\ Range(put) = Range(keys) \cup {h}
        /\ \A b \in Range(keys) : InFrontOf(put, b) = InFrontOf(keys, b)
        /\ InFrontOf(put, h) = Range(keys)
    BY <2>2, <2>3, <2>4, PutLast
  <2>6. new.cache = put
    BY <1>2, <2>1, <2>4
  <2> QED
    BY <2>2, <2>5, <2>6
<1>4. /\ nd.priority = [b \in DOMAIN nd.priority |-> nd.priority[b]]
      /\ nd.expiry = [b \in DOMAIN nd.priority |-> nd.expiry[b]]
      /\ DOMAIN nd.expiry = DOMAIN nd.priority
  <2>1. nd.expiry = [b \in DOMAIN nd.priority |-> nd.expiry[b]]
    BY DEF IsScanNode
  <2>2. DOMAIN nd.expiry = DOMAIN nd.priority
    BY <2>1
  <2> QED
    BY <2>1, <2>2, Zenon DEF IsScanNode
<1>7. CASE d = NoMark
  <2>1. new.priority = Without(nd.priority, h) /\ new.expiry = Without(nd.expiry, h)
    BY <1>2, <1>7
  <2>2. DOMAIN new.priority = DOMAIN new.expiry
    BY <1>4, <2>1 DEF Without, Restrict
  <2>3. IsScanNode(new)
    <3>1. /\ new.priority = [x \in DOMAIN new.priority |-> new.priority[x]]
          /\ new.expiry = [x \in DOMAIN new.expiry |-> new.expiry[x]]
      BY <2>1 DEF Without, Restrict
    <3>2. new.expiry = [x \in DOMAIN new.priority |-> new.expiry[x]]
      BY <2>2, <3>1, Zenon
    <3> QED
      BY <1>2, <1>3, <3>1, <3>2, Zenon DEF IsScanNode
  <2>5. /\ DOMAIN new.priority = DOMAIN nd.priority \ {h}
        /\ \A b \in DOMAIN nd.priority \ {h} :
              new.priority[b] = nd.priority[b] /\ new.expiry[b] = nd.expiry[b]
    BY <1>4, <2>1 DEF Without, Restrict
  <2>4. SeatedOne(nd, new, h, d)
    BY <1>2, <1>3, <1>7, <2>3, <2>5 DEF SeatedOne
  <2> QED
    BY <1>0, <2>4
<1>8. CASE d # NoMark
  <2>1. new.priority = Set(nd.priority, h, d.prio) /\ new.expiry = Set(nd.expiry, h, d.expiry)
    BY <1>2, <1>8
  <2>2. DOMAIN new.priority = DOMAIN new.expiry
    BY <1>4, <2>1 DEF Set
  <2>3. IsScanNode(new)
    <3>1. /\ new.priority = [x \in DOMAIN new.priority |-> new.priority[x]]
          /\ new.expiry = [x \in DOMAIN new.expiry |-> new.expiry[x]]
      BY <2>1 DEF Set
    <3>2. new.expiry = [x \in DOMAIN new.priority |-> new.expiry[x]]
      BY <2>2, <3>1, Zenon
    <3> QED
      BY <1>2, <1>3, <3>1, <3>2, Zenon DEF IsScanNode
  <2>5. /\ DOMAIN new.priority = DOMAIN nd.priority \cup {h}
        /\ new.priority[h] = d.prio /\ new.expiry[h] = d.expiry
        /\ \A b \in DOMAIN nd.priority \ {h} :
              new.priority[b] = nd.priority[b] /\ new.expiry[b] = nd.expiry[b]
    BY <1>4, <2>1 DEF Set
  <2>4. SeatedOne(nd, new, h, d)
    BY <1>2, <1>3, <1>8, <2>3, <2>5 DEF SeatedOne
  <2> QED
    BY <1>0, <2>4
<1> QED
  BY <1>7, <1>8

\* The first k blocks of a request.
Heads(req, k) == {req[i] : i \in 1..k}

\* What k turns of the seating loop have made of a node.
SeatedSoFar(nd, new, req, d, k) ==
    /\ IsScanNode(new)
    /\ new.pinnedEvictions = nd.pinnedEvictions /\ new.busyUntil = nd.busyUntil
    /\ Range(new.cache) = Range(nd.cache) \cup Heads(req, k)
    /\ \A b \in Range(nd.cache) \ Heads(req, k) :
          InFrontOf(new.cache, b) = InFrontOf(nd.cache, b) \ Heads(req, k)
    /\ \A i \in 1..k :
          InFrontOf(new.cache, req[i]) = (Range(nd.cache) \ Heads(req, k)) \cup Heads(req, i - 1)
    /\ \A b : b \in DOMAIN new.priority <=> IF b \in Heads(req, k) THEN d # NoMark
                                                                   ELSE b \in DOMAIN nd.priority
    /\ \A b \in DOMAIN new.priority :
          /\ b \in Heads(req, k) => new.priority[b] = d.prio /\ new.expiry[b] = d.expiry
          /\ b \notin Heads(req, k)
               => new.priority[b] = nd.priority[b] /\ new.expiry[b] = nd.expiry[b]

LEMMA SeatOneMore ==
    ASSUME NEW nd, NEW old, NEW new, NEW req \in Request, NEW d \in Marks \cup {NoMark},
           NEW k \in 1..Len(req), SeatedSoFar(nd, old, req, d, k - 1),
           new = Seat(old, req[k], d)
    PROVE  SeatedSoFar(nd, new, req, d, k)
<1>1. PICK h : h = req[k]
  OBVIOUS
<1>2. /\ Len(req) \in Nat /\ \A i \in 1..Len(req) : req[i] \in Block
      /\ \A i, j \in 1..Len(req) : req[i] = req[j] => i = j
  BY RequestIsChain
<1>3. h \in Block
  BY <1>1, <1>2
<1>4. h \notin Heads(req, k - 1) /\ Heads(req, k) = Heads(req, k - 1) \cup {h}
  BY <1>1, <1>2 DEF Heads
<1>5. /\ IsScanNode(new)
      /\ new.pinnedEvictions = old.pinnedEvictions /\ new.busyUntil = old.busyUntil
      /\ Range(new.cache) = Range(old.cache) \cup {h}
      /\ \A b \in Range(old.cache) \ {h} :
                 InFrontOf(new.cache, b) = InFrontOf(old.cache, b) \ {h}
      /\ InFrontOf(new.cache, h) = Range(old.cache) \ {h}
      /\ \A b : b \in DOMAIN new.priority <=> IF b = h THEN d # NoMark
                                                           ELSE b \in DOMAIN old.priority
      /\ \A b \in DOMAIN new.priority :
                 /\ b = h => new.priority[b] = d.prio /\ new.expiry[b] = d.expiry
                 /\ b # h => new.priority[b] = old.priority[b] /\ new.expiry[b] = old.expiry[b]
  <2>1. IsScanNode(old) /\ new = Seat(old, h, d)
    BY <1>1 DEF SeatedSoFar
  <2>2. SeatedOne(old, Seat(old, h, d), h, d)
    BY <1>3, <2>1, SeatOne
  <2>3. SeatedOne(old, new, h, d)
    BY <2>1, <2>2
  <2> QED
    BY <2>3, Zenon DEF SeatedOne
<1>6. PICK P : P = Heads(req, k - 1)
  OBVIOUS
<1>7. PICK Q : Q = Heads(req, k)
  OBVIOUS
<1>8. h \notin P /\ Q = P \cup {h}
  BY <1>4, <1>6, <1>7
<1>9. /\ old.pinnedEvictions = nd.pinnedEvictions /\ old.busyUntil = nd.busyUntil
      /\ Range(old.cache) = Range(nd.cache) \cup P
      /\ \A b \in Range(nd.cache) \ P : InFrontOf(old.cache, b) = InFrontOf(nd.cache, b) \ P
      /\ \A i \in 1..(k - 1) :
            InFrontOf(old.cache, req[i]) = (Range(nd.cache) \ P) \cup Heads(req, i - 1)
      /\ \A b : b \in DOMAIN old.priority <=> IF b \in P THEN d # NoMark
                                                         ELSE b \in DOMAIN nd.priority
      /\ \A b \in DOMAIN old.priority :
          /\ b \in P => old.priority[b] = d.prio /\ old.expiry[b] = d.expiry
          /\ b \notin P => old.priority[b] = nd.priority[b] /\ old.expiry[b] = nd.expiry[b]
  BY <1>6 DEF SeatedSoFar
<1>10. /\ new.pinnedEvictions = nd.pinnedEvictions /\ new.busyUntil = nd.busyUntil
       /\ Range(new.cache) = Range(nd.cache) \cup Q
  BY <1>5, <1>8, <1>9
<1>11. \A b \in Range(nd.cache) \ Q : InFrontOf(new.cache, b) = InFrontOf(nd.cache, b) \ Q
  BY <1>5, <1>8, <1>9
<1>12. ASSUME NEW i \in 1..k
       PROVE  InFrontOf(new.cache, req[i]) = (Range(nd.cache) \ Q) \cup Heads(req, i - 1)
  <2>1. CASE i = k
    <3>1. InFrontOf(new.cache, h) = (Range(nd.cache) \cup P) \ {h}
      BY <1>5, <1>9
    <3>2. Heads(req, i - 1) = P /\ req[i] = h
      BY <1>1, <1>6, <2>1
    <3> QED
      BY <1>8, <3>1, <3>2
  <2>2. CASE i # k
    <3>1. i \in 1..(k - 1) /\ req[i] \in P /\ req[i] # h
      BY <1>6, <1>8, <2>2 DEF Heads
    <3>2. InFrontOf(new.cache, req[i])
            = ((Range(nd.cache) \ P) \cup Heads(req, i - 1)) \ {h}
      BY <1>5, <1>9, <3>1
    <3>3. h \notin Heads(req, i - 1)
      BY <1>1, <1>2, <3>1 DEF Heads
    <3> QED
      BY <1>8, <3>2, <3>3
  <2> QED
    BY <2>1, <2>2
<1>13. \A b : b \in DOMAIN new.priority <=> IF b \in Q THEN d # NoMark
                                                       ELSE b \in DOMAIN nd.priority
  BY <1>5, <1>8, <1>9
<1>14. \A b \in DOMAIN new.priority :
          /\ b \in Q => new.priority[b] = d.prio /\ new.expiry[b] = d.expiry
          /\ b \notin Q => new.priority[b] = nd.priority[b] /\ new.expiry[b] = nd.expiry[b]
  BY <1>5, <1>8, <1>9
<1> QED
  BY <1>5, <1>7, <1>10, <1>11, <1>12, <1>13, <1>14 DEF SeatedSoFar

LEMMA SeatedAll ==
    ASSUME NEW nd, IsScanNode(nd), NEW req \in Request, NEW d \in Marks \cup {NoMark}
    PROVE  SeatedSoFar(nd, SeatAll(nd, req, d), req, d, Len(req))
<1>1. Len(req) \in Nat
  BY ChainOrder
<1>2. PICK after :
        /\ after[0] = nd
        /\ \A k \in 1..Len(req) : after[k] = Seat(after[k - 1], req[k], d)
        /\ SeatAll(nd, req, d) = after[Len(req)]
  <2>1. PICK after : SeatRun(after, nd, req, d)
    BY <1>1, SeatTurns
  <2> QED
    BY <2>1, Zenon DEF SeatRun
<1> DEFINE Bad == {k \in 0..Len(req) : ~ SeatedSoFar(nd, after[k], req, d, k)}
<1>3. Bad = {}
  <2> SUFFICES ASSUME Bad # {} PROVE FALSE
    OBVIOUS
  <2>1. Bad \in SUBSET Nat
    OBVIOUS
  <2>2. PICK k \in Bad : \A i \in Bad : k <= i
    BY <2>1, LeastOf
  <2>3. SeatedSoFar(nd, nd, req, d, 0)
    <3>1. Heads(req, 0) = {}
      BY DEF Heads
    <3> QED
      BY <3>1 DEF SeatedSoFar
  <2>4. k # 0
    BY <1>2, <2>2, <2>3
  <2>5. k \in 1..Len(req) /\ k - 1 \in 0..Len(req) /\ k - 1 \notin Bad
    BY <1>1, <2>2, <2>4
  <2>6. SeatedSoFar(nd, after[k - 1], req, d, k - 1)
    BY <2>5
  <2>7. after[k] = Seat(after[k - 1], req[k], d)
    BY <1>2, <2>5
  <2>8. SeatedSoFar(nd, after[k], req, d, k)
    BY <2>5, <2>6, <2>7, SeatOneMore
  <2> QED
    BY <2>2, <2>8
<1> QED
  BY <1>1, <1>2, <1>3

\* The loop over a request's blocks seats it as Node describes.
LEMMA SeatedIsTouched ==
    ASSUME NEW nd, IsScanNode(nd), NEW req \in Request, NEW d \in Marks \cup {NoMark}
    PROVE  LET new == SeatAll(nd, req, d)
           IN  /\ IsScanNode(new)
               /\ Order(new.cache) = Touched(Order(nd.cache), req)
               /\ Table(new) = Marked(Table(nd), req, d)
               /\ new.pinnedEvictions = nd.pinnedEvictions
               /\ new.busyUntil = nd.busyUntil
<1>1. PICK new : new = SeatAll(nd, req, d)
  OBVIOUS
<1>2. /\ Len(req) \in Nat /\ DOMAIN req = 1..Len(req)
      /\ \A i \in DOMAIN req : InFrontOf(req, req[i]) = Heads(req, i - 1)
  BY ChainOrder DEF Heads
<1>3. Heads(req, Len(req)) = Range(req)
  BY <1>2 DEF Heads, Range
<1>4. PICK Q : Q = Range(req)
  OBVIOUS
<1>5. PICK D : D = Range(nd.cache)
  OBVIOUS
<1>6. /\ IsScanNode(new)
      /\ new.pinnedEvictions = nd.pinnedEvictions /\ new.busyUntil = nd.busyUntil
      /\ Range(new.cache) = D \cup Q
      /\ \A b \in D \ Q : InFrontOf(new.cache, b) = InFrontOf(nd.cache, b) \ Q
      /\ \A i \in 1..Len(req) : InFrontOf(new.cache, req[i]) = (D \ Q) \cup Heads(req, i - 1)
      /\ \A b : b \in DOMAIN new.priority <=> IF b \in Q THEN d # NoMark
                                                         ELSE b \in DOMAIN nd.priority
      /\ \A b \in DOMAIN new.priority :
          /\ b \in Q => new.priority[b] = d.prio /\ new.expiry[b] = d.expiry
          /\ b \notin Q => new.priority[b] = nd.priority[b] /\ new.expiry[b] = nd.expiry[b]
  <2>1. SeatedSoFar(nd, new, req, d, Len(req))
    BY <1>1, SeatedAll, Zenon
  <2> QED
    BY <1>3, <1>4, <1>5, <2>1, ZenonT(30) DEF SeatedSoFar
<1>7. \A b \in Q : InFrontOf(new.cache, b) = (D \ Q) \cup InFrontOf(req, b)
  <2> SUFFICES ASSUME NEW b \in Q PROVE InFrontOf(new.cache, b) = (D \ Q) \cup InFrontOf(req, b)
    OBVIOUS
  <2>1. PICK i \in DOMAIN req : b = req[i]
    BY <1>4 DEF Range
  <2> QED
    BY <1>2, <1>6, <2>1
<1>8. Order(new.cache) = Touched(Order(nd.cache), req)
  <2>1. DOMAIN Order(nd.cache) = D /\ \A b \in D : Order(nd.cache)[b] = InFrontOf(nd.cache, b)
    BY <1>5 DEF Order
  <2>2. Touched(Order(nd.cache), req)
          = [b \in (D \ Q) \cup Q |->
               IF b \in D \ Q THEN Order(nd.cache)[b] \ Q ELSE (D \ Q) \cup InFrontOf(req, b)]
    BY <1>4, <2>1, Zenon DEF Touched
  <2>3. Order(new.cache) = [b \in (D \ Q) \cup Q |-> InFrontOf(new.cache, b)]
    <3>1. D \cup Q = (D \ Q) \cup Q
      OBVIOUS
    <3> QED
      BY <1>6, <3>1, Zenon DEF Order
  <2>4. \A b \in (D \ Q) \cup Q :
           InFrontOf(new.cache, b)
             = IF b \in D \ Q THEN Order(nd.cache)[b] \ Q ELSE (D \ Q) \cup InFrontOf(req, b)
    BY <1>6, <1>7, <2>1
  <2> QED
    BY <2>2, <2>3, <2>4, Zenon
<1>9. Table(new) = Marked(Table(nd), req, d)
  <2>1. PICK old : old = Table(nd)
    OBVIOUS
  <2>2. /\ DOMAIN old = DOMAIN nd.priority
        /\ \A b \in DOMAIN nd.priority :
              old[b] = [prio |-> nd.priority[b], expiry |-> nd.expiry[b]]
    BY <2>1 DEF Table
  <2>3. PICK made : made = Marked(old, req, d)
    OBVIOUS
  <2>4. DOMAIN Table(new) = DOMAIN made
    <3>1. \A b : b \in DOMAIN made <=> IF b \in Q THEN d # NoMark ELSE b \in DOMAIN old
      BY <1>4, <2>3, MarkedDomain
    <3>2. DOMAIN Table(new) = DOMAIN new.priority
      BY DEF Table
    <3> QED
      BY <1>6, <2>2, <3>1, <3>2
  <2>5. ASSUME NEW b \in DOMAIN made PROVE Table(new)[b] = made[b]
    <3>1. b \in DOMAIN new.priority
      BY <2>4 DEF Table
    <3>2. Table(new)[b] = [prio |-> new.priority[b], expiry |-> new.expiry[b]]
      BY <3>1 DEF Table
    <3>3. (b \in Q => made[b] = d) /\ (b \notin Q => made[b] = old[b])
      BY <1>4, <2>3, MarkedAt
    <3>4. CASE b \in Q
      <4>1. d \in Marks
        BY <1>6, <3>1, <3>4
      <4>2. d = [prio |-> d.prio, expiry |-> d.expiry]
        BY <4>1 DEF Marks
      <4> QED
        BY <1>6, <3>1, <3>2, <3>3, <3>4, <4>2
    <3>5. CASE b \notin Q
      <4>1. b \in DOMAIN nd.priority
        BY <1>6, <3>1, <3>5
      <4> QED
        BY <1>6, <2>2, <3>1, <3>2, <3>3, <3>5, <4>1
    <3> QED
      BY <3>4, <3>5
  <2>6. made = [b \in DOMAIN made |-> made[b]]
    BY <2>3 DEF Marked, Restrict
  <2>7. Table(new) = [b \in DOMAIN Table(new) |-> Table(new)[b]]
    BY DEF Table
  <2> QED
    BY <2>1, <2>3, <2>4, <2>5, <2>6, <2>7, Zenon
<1> QED
  BY <1>1, <1>6, <1>8, <1>9

-----------------------------------------------------------------------------
(* The scan for a victim *)

\* The node of Node a code's node is.
Bar(nd) == [cache |-> Order(nd.cache), mark |-> Table(nd),
            pinnedEvictions |-> nd.pinnedEvictions, busyUntil |-> nd.busyUntil]

\* markedKey orders the marks: strictly, and any two of them.
LEMMA KeyOrder ==
    ASSUME NEW p \in Marks, NEW q \in Marks, NEW r \in Marks
    PROVE  /\ KeyLess(p, q) /\ (KeyLess(q, r) \/ q = r) => KeyLess(p, r)
           /\ ~KeyLess(p, q) => KeyLess(q, p) \/ p = q
<1>1. /\ p = [prio |-> p.prio, expiry |-> p.expiry]
      /\ q = [prio |-> q.prio, expiry |-> q.expiry]
      /\ p.prio \in Int /\ q.prio \in Int /\ r.prio \in Int
      /\ p.expiry \in Nat \cup {Forever} /\ q.expiry \in Nat \cup {Forever}
      /\ r.expiry \in Nat \cup {Forever}
  BY DEF Marks, EVICT_FIRST, PINNED
<1>2. Forever \notin Int
  BY ForeverIsNoTime
<1>3. KeyLess(p, q) /\ KeyLess(q, r) => KeyLess(p, r)
  BY <1>1, <1>2 DEF KeyLess, Sooner, Later
<1>4. ~KeyLess(p, q) /\ ~KeyLess(q, p) => p.prio = q.prio /\ p.expiry = q.expiry
  BY <1>1, <1>2 DEF KeyLess, Sooner, Later
<1> QED
  BY <1>1, <1>3, <1>4

\* b is the first of the keys 1..k that is in S; None if there is none.
FirstOf(b, keys, k, S) ==
    \/ b = None /\ \A i \in 1..k : keys[i] \notin S
    \/ \E i \in 1..k : /\ b = keys[i] /\ keys[i] \in S
                       /\ \A j \in 1..(i - 1) : keys[j] \notin S

\* Among the keys 1..k that are in S, b is the one with the weakest mark and the first of these.
WeakestOf(b, key, mark, keys, k, S) ==
    \/ b = None /\ \A i \in 1..k : keys[i] \notin S
    \/ \E i \in 1..k :
          /\ b = keys[i] /\ keys[i] \in S /\ key = mark[keys[i]]
          /\ \A j \in 1..k : keys[j] \in S /\ j # i
                => KeyLess(key, mark[keys[j]]) \/ (key = mark[keys[j]] /\ i < j)

LEMMA FirstGoesOn ==
    ASSUME NEW b, NEW keys, NEW k \in Nat \ {0}, NEW S, FirstOf(b, keys, k - 1, S),
           b # None \/ keys[k] \notin S
    PROVE  FirstOf(b, keys, k, S)
<1>1. CASE b = None /\ \A i \in 1..(k - 1) : keys[i] \notin S
  BY <1>1 DEF FirstOf
<1>2. CASE \E i \in 1..(k - 1) : /\ b = keys[i] /\ keys[i] \in S
                                 /\ \A j \in 1..(i - 1) : keys[j] \notin S
  BY <1>2 DEF FirstOf
<1> QED
  BY <1>1, <1>2 DEF FirstOf

LEMMA FirstIsFound ==
    ASSUME NEW keys, NEW k \in Nat \ {0}, NEW S, FirstOf(None, keys, k - 1, S),
           keys[k] \in S, \A i \in 1..k : keys[i] # None
    PROVE  FirstOf(keys[k], keys, k, S)
<1>1. \A i \in 1..(k - 1) : keys[i] \notin S
  BY DEF FirstOf
<1> QED
  BY <1>1 DEF FirstOf

LEMMA WeakestGoesOn ==
    ASSUME NEW b, NEW key, NEW mark, NEW keys, NEW k \in Nat \ {0}, NEW S,
           WeakestOf(b, key, mark, keys, k - 1, S), keys[k] \notin S
    PROVE  WeakestOf(b, key, mark, keys, k, S)
<1>1. CASE b = None /\ \A i \in 1..(k - 1) : keys[i] \notin S
  BY <1>1 DEF WeakestOf
<1>2. CASE \E i \in 1..(k - 1) :
          /\ b = keys[i] /\ keys[i] \in S /\ key = mark[keys[i]]
          /\ \A j \in 1..(k - 1) : keys[j] \in S /\ j # i
                => KeyLess(key, mark[keys[j]]) \/ (key = mark[keys[j]] /\ i < j)
  BY <1>2 DEF WeakestOf
<1> QED
  BY <1>1, <1>2 DEF WeakestOf

\* A block whose mark is not weaker leaves the weakest as it is.
LEMMA WeakestIsKept ==
    ASSUME NEW b, NEW key, NEW mark, NEW keys, NEW k \in Nat \ {0}, NEW S,
           WeakestOf(b, key, mark, keys, k - 1, S), b # None, keys[k] \in S,
           \A i \in 1..k : keys[i] \in S => mark[keys[i]] \in Marks,
           ~KeyLess(mark[keys[k]], key)
    PROVE  WeakestOf(b, key, mark, keys, k, S)
<1>1. PICK i \in 1..(k - 1) :
          /\ b = keys[i] /\ keys[i] \in S /\ key = mark[keys[i]]
          /\ \A j \in 1..(k - 1) : keys[j] \in S /\ j # i
                => KeyLess(key, mark[keys[j]]) \/ (key = mark[keys[j]] /\ i < j)
  BY DEF WeakestOf
<1>2. KeyLess(key, mark[keys[k]]) \/ key = mark[keys[k]]
  BY <1>1, KeyOrder
<1>3. \A j \in 1..k : keys[j] \in S /\ j # i
         => KeyLess(key, mark[keys[j]]) \/ (key = mark[keys[j]] /\ i < j)
  BY <1>1, <1>2
<1>4. i \in 1..k
  BY <1>1
<1> QED
  BY <1>1, <1>3, <1>4 DEF WeakestOf

\* A block whose mark is weaker, or the first, takes over.
LEMMA WeakestIsReplaced ==
    ASSUME NEW b, NEW key, NEW mark, NEW keys, NEW k \in Nat \ {0}, NEW S,
           WeakestOf(b, key, mark, keys, k - 1, S), keys[k] \in S,
           \A i \in 1..k : keys[i] \in S => mark[keys[i]] \in Marks,
           b = None \/ KeyLess(mark[keys[k]], key), \A i \in 1..k : keys[i] # None
    PROVE  WeakestOf(keys[k], mark[keys[k]], mark, keys, k, S)
<1>1. \A j \in 1..(k - 1) : keys[j] \in S => KeyLess(mark[keys[k]], mark[keys[j]])
  <2>1. CASE b = None
    BY <2>1 DEF WeakestOf
  <2>2. CASE b # None
    <3>1. PICK i \in 1..(k - 1) :
              /\ b = keys[i] /\ keys[i] \in S /\ key = mark[keys[i]]
              /\ \A j \in 1..(k - 1) : keys[j] \in S /\ j # i
                    => KeyLess(key, mark[keys[j]]) \/ (key = mark[keys[j]] /\ i < j)
      BY <2>2 DEF WeakestOf
    <3>2. KeyLess(mark[keys[k]], key)
      BY <2>2
    <3> SUFFICES ASSUME NEW j \in 1..(k - 1), keys[j] \in S
                 PROVE  KeyLess(mark[keys[k]], mark[keys[j]])
      OBVIOUS
    <3>3. key \in Marks /\ mark[keys[j]] \in Marks /\ mark[keys[k]] \in Marks
      BY <3>1
    <3>4. KeyLess(key, mark[keys[j]]) \/ key = mark[keys[j]]
      BY <3>1
    <3> QED
      BY <3>2, <3>3, <3>4, KeyOrder
  <2> QED
    BY <2>1, <2>2
<1> QED
  BY <1>1 DEF WeakestOf

\* What is found in the first k blocks.
FoundSoFar(nd, t, f, k) ==
    /\ f = [evictFirst |-> f.evictFirst, unmarked |-> f.unmarked,
            marked |-> f.marked, markedKey |-> f.markedKey]
    /\ FirstOf(f.evictFirst, nd.cache, k, EvictFirstBucket(Bar(nd), t))
    /\ FirstOf(f.unmarked, nd.cache, k, UnmarkedBucket(Bar(nd), t))
    /\ WeakestOf(f.marked, f.markedKey, Table(nd), nd.cache, k, PinnedBucket(Bar(nd), t))

\* The buckets a turn of the scan tells apart.
LEMMA Buckets ==
    ASSUME NEW nd, IsScanNode(nd), IsNode(Bar(nd)), NEW t
    PROVE  /\ Resident(Bar(nd)) = Range(nd.cache)
           /\ None \notin Range(nd.cache)
           /\ \A b \in Range(nd.cache) :
                /\ b \in UnmarkedBucket(Bar(nd), t)
                     <=> b \notin DOMAIN nd.priority \/ ~Later(nd.expiry[b], t)
                /\ b \in EvictFirstBucket(Bar(nd), t)
                     <=> b \notin UnmarkedBucket(Bar(nd), t) /\ nd.priority[b] < 0
                /\ b \in PinnedBucket(Bar(nd), t)
                     <=> b \notin UnmarkedBucket(Bar(nd), t) /\ ~(nd.priority[b] < 0)
                /\ b \notin UnmarkedBucket(Bar(nd), t)
                     => /\ Table(nd)[b] \in Marks
                        /\ Table(nd)[b] = [prio |-> nd.priority[b], expiry |-> nd.expiry[b]]
<1>1. PICK bar : bar = Bar(nd)
  OBVIOUS
<1>2. bar.cache = Order(nd.cache) /\ bar.mark = Table(nd)
  BY <1>1 DEF Bar
<1>3. DOMAIN bar.cache = Range(nd.cache) /\ Range(nd.cache) \subseteq Block
  BY <1>2 DEF Order, IsScanNode, Distinct, Range
<1>4. /\ DOMAIN bar.mark = DOMAIN nd.priority
      /\ \A b \in DOMAIN nd.priority :
            bar.mark[b] = [prio |-> nd.priority[b], expiry |-> nd.expiry[b]]
  BY <1>2 DEF Table
<1>5. \A b \in DOMAIN bar.mark : bar.mark[b] \in Marks
  BY <1>1 DEF IsNode
<1>6. ASSUME NEW b \in DOMAIN nd.priority
      PROVE  bar.mark[b].prio = nd.priority[b] /\ bar.mark[b].expiry = nd.expiry[b]
  <2>1. PICK m : m = bar.mark[b]
    OBVIOUS
  <2>2. m = [prio |-> nd.priority[b], expiry |-> nd.expiry[b]]
    BY <1>4, <2>1, Zenon
  <2> QED
    BY <2>1, <2>2
<1>7. \A b : Live(bar, t, b) <=> b \in DOMAIN nd.priority /\ Later(nd.expiry[b], t)
  BY <1>4, <1>6, Zenon DEF Live
<1>8. Resident(bar) = Range(nd.cache)
  BY <1>3 DEF Resident
<1>9. ASSUME NEW b \in Range(nd.cache)
      PROVE  /\ b \in UnmarkedBucket(bar, t)
                     <=> b \notin DOMAIN nd.priority \/ ~Later(nd.expiry[b], t)
             /\ b \in EvictFirstBucket(bar, t)
                     <=> b \notin UnmarkedBucket(bar, t) /\ nd.priority[b] < 0
             /\ b \in PinnedBucket(bar, t)
                     <=> b \notin UnmarkedBucket(bar, t) /\ ~(nd.priority[b] < 0)
             /\ b \notin UnmarkedBucket(bar, t)
                     => /\ bar.mark[b] \in Marks
                        /\ bar.mark[b] = [prio |-> nd.priority[b], expiry |-> nd.expiry[b]]
  <2>1. b \in UnmarkedBucket(bar, t) <=> ~Live(bar, t, b)
    BY <1>8 DEF UnmarkedBucket
  <2>2. b \in EvictFirstBucket(bar, t) <=> Live(bar, t, b) /\ bar.mark[b].prio < 0
    BY <1>8 DEF EvictFirstBucket
  <2>3. b \in PinnedBucket(bar, t) <=> Live(bar, t, b) /\ ~(bar.mark[b].prio < 0)
    BY <1>8 DEF PinnedBucket
  <2>4. Live(bar, t, b) => bar.mark[b].prio = nd.priority[b]
    BY <1>6, <1>7
  <2> QED
    BY <1>4, <1>5, <1>7, <2>1, <2>2, <2>3, <2>4, Zenon
<1> QED
  BY <1>1, <1>2, <1>3, <1>8, <1>9, NoneIsNoBlock

LEMMA ScanOneMore ==
    ASSUME NEW nd, IsScanNode(nd), IsNode(Bar(nd)), NEW t, NEW old, NEW new,
           NEW k \in 1..Len(nd.cache), FoundSoFar(nd, t, old, k - 1),
           new = Scan(nd, t, old, nd.cache[k])
    PROVE  FoundSoFar(nd, t, new, k)
<1>1. PICK keys : keys = nd.cache
  OBVIOUS
<1>2. PICK h : h = keys[k]
  OBVIOUS
<1>3. PICK E : E = EvictFirstBucket(Bar(nd), t)
  OBVIOUS
<1>4. PICK U : U = UnmarkedBucket(Bar(nd), t)
  OBVIOUS
<1>5. PICK P : P = PinnedBucket(Bar(nd), t)
  OBVIOUS
<1>6. PICK mark : mark = Table(nd)
  OBVIOUS
<1>7. k \in Nat \ {0} /\ Len(keys) \in Nat /\ DOMAIN keys = 1..Len(keys) /\ k \in DOMAIN keys
  BY <1>1 DEF IsScanNode, Distinct
<1>8. \A i \in 1..k : keys[i] \in Range(keys) /\ keys[i] # None
  <2>1. None \notin Range(keys)
    BY <1>1, Buckets
  <2> QED
    BY <1>7, <2>1 DEF Range
<1>9. \A b \in Range(keys) :
        /\ b \in U <=> b \notin DOMAIN nd.priority \/ ~Later(nd.expiry[b], t)
        /\ b \in E <=> b \notin U /\ nd.priority[b] < 0
        /\ b \in P <=> b \notin U /\ ~(nd.priority[b] < 0)
        /\ b \notin U => /\ mark[b] \in Marks
                         /\ mark[b] = [prio |-> nd.priority[b], expiry |-> nd.expiry[b]]
  BY <1>1, <1>3, <1>4, <1>5, <1>6, Buckets
<1>10. /\ old = [evictFirst |-> old.evictFirst, unmarked |-> old.unmarked,
                 marked |-> old.marked, markedKey |-> old.markedKey]
       /\ FirstOf(old.evictFirst, keys, k - 1, E)
       /\ FirstOf(old.unmarked, keys, k - 1, U)
       /\ WeakestOf(old.marked, old.markedKey, mark, keys, k - 1, P)
  BY <1>1, <1>3, <1>4, <1>5, <1>6 DEF FoundSoFar
<1>11. h \in Range(keys) /\ h # None
  BY <1>2, <1>7, <1>8
<1>12. \A i \in 1..k : keys[i] \in P => mark[keys[i]] \in Marks
  BY <1>8, <1>9
<1> DEFINE Key == [prio |-> nd.priority[h], expiry |-> nd.expiry[h]]
<1>13. new = IF h \in U
             THEN IF old.unmarked = None THEN [old EXCEPT !.unmarked = h] ELSE old
             ELSE IF h \in E
             THEN IF old.evictFirst = None THEN [old EXCEPT !.evictFirst = h] ELSE old
             ELSE IF old.marked = None \/ KeyLess(Key, old.markedKey)
             THEN [old EXCEPT !.marked = h, !.markedKey = Key] ELSE old
  <2>1. new = Scan(nd, t, old, h)
    BY <1>1, <1>2
  <2>2. /\ h \in U <=> h \notin DOMAIN nd.priority \/ ~Later(nd.expiry[h], t)
        /\ h \notin U => (h \in E <=> nd.priority[h] < 0)
    BY <1>9, <1>11
  <2> QED
    BY <2>1, <2>2, Zenon DEF Scan
<1>14. h \notin U => Key = mark[h]
  BY <1>9, <1>11
<1> HIDE DEF Key
<1>15. FoundSoFar(nd, t, new, k)
          <=> /\ new = [evictFirst |-> new.evictFirst, unmarked |-> new.unmarked,
                        marked |-> new.marked, markedKey |-> new.markedKey]
              /\ FirstOf(new.evictFirst, keys, k, E)
              /\ FirstOf(new.unmarked, keys, k, U)
              /\ WeakestOf(new.marked, new.markedKey, mark, keys, k, P)
  BY <1>1, <1>3, <1>4, <1>5, <1>6 DEF FoundSoFar
<1>16. CASE h \in U
  <2>1. h \notin E /\ h \notin P
    BY <1>9, <1>11, <1>16
  <2>2. FirstOf(old.evictFirst, keys, k, E) /\ WeakestOf(old.marked, old.markedKey, mark, keys, k, P)
    BY <1>2, <1>7, <1>10, <2>1, FirstGoesOn, WeakestGoesOn
  <2>3. CASE old.unmarked = None
    <3>1. FirstOf(h, keys, k, U)
      BY <1>2, <1>7, <1>8, <1>10, <1>16, <2>3, FirstIsFound
    <3>2. /\ new = [evictFirst |-> old.evictFirst, unmarked |-> h,
                    marked |-> old.marked, markedKey |-> old.markedKey]
      BY <1>10, <1>13, <1>16, <2>3
    <3> QED
      BY <1>15, <2>2, <3>1, <3>2
  <2>4. CASE old.unmarked # None
    <3>1. FirstOf(old.unmarked, keys, k, U)
      BY <1>7, <1>10, <2>4, FirstGoesOn
    <3>2. new = old
      BY <1>13, <1>16, <2>4
    <3> QED
      BY <1>10, <1>15, <2>2, <3>1, <3>2
  <2> QED
    BY <2>3, <2>4
<1>17. CASE h \in E
  <2>1. h \notin U /\ h \notin P
    BY <1>9, <1>11, <1>17
  <2>2. FirstOf(old.unmarked, keys, k, U) /\ WeakestOf(old.marked, old.markedKey, mark, keys, k, P)
    BY <1>2, <1>7, <1>10, <2>1, FirstGoesOn, WeakestGoesOn
  <2>3. CASE old.evictFirst = None
    <3>1. FirstOf(h, keys, k, E)
      BY <1>2, <1>7, <1>8, <1>10, <1>17, <2>3, FirstIsFound
    <3>2. /\ new = [evictFirst |-> h, unmarked |-> old.unmarked,
                    marked |-> old.marked, markedKey |-> old.markedKey]
      BY <1>10, <1>13, <1>17, <2>1, <2>3
    <3> QED
      BY <1>15, <2>2, <3>1, <3>2
  <2>4. CASE old.evictFirst # None
    <3>1. FirstOf(old.evictFirst, keys, k, E)
      BY <1>7, <1>10, <2>4, FirstGoesOn
    <3>2. new = old
      BY <1>13, <1>17, <2>1, <2>4
    <3> QED
      BY <1>10, <1>15, <2>2, <3>1, <3>2
  <2> QED
    BY <2>3, <2>4
<1>18. CASE h \in P
  <2>1. h \notin U /\ h \notin E
    BY <1>9, <1>11, <1>18
  <2>2. FirstOf(old.evictFirst, keys, k, E) /\ FirstOf(old.unmarked, keys, k, U)
    BY <1>2, <1>7, <1>10, <2>1, FirstGoesOn
  <2>3. CASE old.marked = None \/ KeyLess(Key, old.markedKey)
    <3>1. WeakestOf(h, Key, mark, keys, k, P)
      BY <1>2, <1>7, <1>8, <1>10, <1>12, <1>14, <1>18, <2>1, <2>3, WeakestIsReplaced
    <3>2. /\ new = [evictFirst |-> old.evictFirst, unmarked |-> old.unmarked,
                    marked |-> h, markedKey |-> Key]
      BY <1>10, <1>13, <2>1, <2>3
    <3> QED
      BY <1>15, <2>2, <3>1, <3>2
  <2>4. CASE ~(old.marked = None \/ KeyLess(Key, old.markedKey))
    <3>1. WeakestOf(old.marked, old.markedKey, mark, keys, k, P)
      BY <1>2, <1>7, <1>10, <1>12, <1>14, <1>18, <2>1, <2>4, WeakestIsKept
    <3>2. new = old
      BY <1>13, <2>1, <2>4
    <3> QED
      BY <1>10, <1>15, <2>2, <3>1, <3>2
  <2> QED
    BY <2>3, <2>4
<1> QED
  BY <1>9, <1>11, <1>16, <1>17, <1>18

LEMMA ScannedAll ==
    ASSUME NEW nd, IsScanNode(nd), IsNode(Bar(nd)), NEW t
    PROVE  FoundSoFar(nd, t, ScanAll(nd, t), Len(nd.cache))
<1>1. PICK n : n = Len(nd.cache)
  OBVIOUS
<1>2. n \in Nat
  BY <1>1 DEF IsScanNode, Distinct
<1>3. PICK after :
        /\ after[0] = NothingFound
        /\ \A k \in 1..n : after[k] = Scan(nd, t, after[k - 1], nd.cache[k])
        /\ ScanAll(nd, t) = after[n]
  <2>1. PICK after : ScanRun(after, nd, n, t)
    BY <1>1, <1>2, ScanTurns
  <2> QED
    BY <2>1, Zenon DEF ScanRun
<1> DEFINE Bad == {k \in 0..n : ~ FoundSoFar(nd, t, after[k], k)}
<1>4. Bad = {}
  <2> SUFFICES ASSUME Bad # {} PROVE FALSE
    OBVIOUS
  <2>1. Bad \in SUBSET Nat
    OBVIOUS
  <2>2. PICK k \in Bad : \A i \in Bad : k <= i
    BY <2>1, LeastOf
  <2>3. FoundSoFar(nd, t, NothingFound, 0)
    BY DEF FoundSoFar, NothingFound, FirstOf, WeakestOf
  <2>4. k # 0
    BY <1>3, <2>2, <2>3
  <2>5. k \in 1..n /\ k - 1 \in 0..n /\ k - 1 \notin Bad
    BY <1>2, <2>2, <2>4
  <2>6. FoundSoFar(nd, t, after[k - 1], k - 1)
    BY <2>5
  <2>7. after[k] = Scan(nd, t, after[k - 1], nd.cache[k])
    BY <1>3, <2>5
  <2>8. FoundSoFar(nd, t, after[k], k)
    BY <1>1, <2>5, <2>6, <2>7, ScanOneMore
  <2> QED
    BY <2>2, <2>8
<1> QED
  BY <1>1, <1>2, <1>3, <1>4

\* A victim: resident, before all others in the order Node evicts by, and counted if pinned.
IsVictim(nd, t, pick) ==
    /\ pick.block \in Range(nd.cache)
    /\ \A x \in Range(nd.cache) \ {pick.block} : EvictedBefore(Bar(nd), t, pick.block, x)
    /\ pick.pinned = IF pick.block \in PinnedBucket(Bar(nd), t) THEN 1 ELSE 0

\* The first of a bucket goes before the rest of it.
LEMMA FirstIsFirst ==
    ASSUME NEW keys, Distinct(keys), NEW S, NEW b, b # None, FirstOf(b, keys, Len(keys), S)
    PROVE  /\ b \in Range(keys) /\ b \in S
           /\ \A x \in Range(keys) \ {b} : x \in S => b \in InFrontOf(keys, x)
<1>1. Len(keys) \in Nat /\ DOMAIN keys = 1..Len(keys)
  BY DEF Distinct
<1>2. PICK i \in 1..Len(keys) : /\ b = keys[i] /\ keys[i] \in S
                                /\ \A j \in 1..(i - 1) : keys[j] \notin S
  BY DEF FirstOf
<1>3. ASSUME NEW x \in Range(keys) \ {b}, x \in S PROVE b \in InFrontOf(keys, x)
  <2>1. PICK j \in DOMAIN keys : x = keys[j]
    BY DEF Range
  <2>2. i < j
    BY <1>1, <1>2, <1>3, <2>1
  <2> QED
    BY <1>1, <1>2, <2>1, <2>2, FrontByPlace
<1> QED
  BY <1>1, <1>2, <1>3 DEF Range

LEMMA NoneIsNone ==
    ASSUME NEW keys, Distinct(keys), NEW S, FirstOf(None, keys, Len(keys), S),
           None \notin Range(keys)
    PROVE  \A x \in Range(keys) : x \notin S
<1>1. Len(keys) \in Nat /\ DOMAIN keys = 1..Len(keys)
  BY DEF Distinct
<1>2. \A i \in 1..Len(keys) : keys[i] \in Range(keys) /\ None # keys[i]
  BY <1>1 DEF Range
<1>3. \A i \in 1..Len(keys) : keys[i] \notin S
  BY <1>2 DEF FirstOf
<1> QED
  BY <1>1, <1>3 DEF Range

\* The weakest pin goes before the other pins.
LEMMA WeakestIsFirst ==
    ASSUME NEW nd, IsScanNode(nd), NEW S, NEW b, NEW key,
           S \cap Range(nd.cache) # {},
           WeakestOf(b, key, Table(nd), nd.cache, Len(nd.cache), S)
    PROVE  /\ b \in Range(nd.cache) /\ b \in S
           /\ \A x \in Range(nd.cache) \ {b} : x \in S => WeakerPin(Bar(nd), b, x)
<1>1. PICK keys : keys = nd.cache
  OBVIOUS
<1>2. PICK mark : mark = Table(nd)
  OBVIOUS
<1>3. Distinct(keys) /\ Len(keys) \in Nat /\ DOMAIN keys = 1..Len(keys)
  BY <1>1 DEF IsScanNode, Distinct
<1>4. PICK bar : bar = Bar(nd)
  OBVIOUS
<1>5. bar.mark = mark /\ bar.cache = Order(keys)
  BY <1>1, <1>2, <1>4 DEF Bar
<1>6. \A x \in Range(keys) : bar.cache[x] = InFrontOf(keys, x)
  BY <1>5 DEF Order
<1>7. \E i \in 1..Len(keys) : keys[i] \in S
  BY <1>1, <1>3 DEF Range
<1>8. PICK i \in 1..Len(keys) :
          /\ b = keys[i] /\ keys[i] \in S /\ key = mark[keys[i]]
          /\ \A j \in 1..Len(keys) : keys[j] \in S /\ j # i
                => KeyLess(key, mark[keys[j]]) \/ (key = mark[keys[j]] /\ i < j)
  BY <1>1, <1>2, <1>7 DEF WeakestOf
<1>9. ASSUME NEW x \in Range(keys) \ {b}, x \in S PROVE WeakerPin(bar, b, x)
  <2>1. PICK j \in DOMAIN keys : x = keys[j]
    BY DEF Range
  <2>2. KeyLess(mark[b], mark[x]) \/ (mark[b] = mark[x] /\ i < j)
    BY <1>3, <1>8, <1>9, <2>1
  <2>3. i < j => b \in InFrontOf(keys, x)
    BY <1>3, <1>8, <2>1, FrontByPlace
  <2> QED
    BY <1>5, <1>6, <2>2, <2>3, Zenon DEF WeakerPin, KeyLess
<1> QED
  BY <1>1, <1>3, <1>4, <1>8, <1>9 DEF Range

\* The scan finds the victim, and the fast path does where no block is marked.
LEMMA VictimFirst ==
    ASSUME NEW nd, IsScanNode(nd), IsNode(Bar(nd)), NEW t, Len(nd.cache) > 0
    PROVE  IsVictim(nd, t, PickVictim(nd, t))
<1>1. PICK keys : keys = nd.cache
  OBVIOUS
<1>2. PICK bar : bar = Bar(nd)
  OBVIOUS
<1>3. PICK E : E = EvictFirstBucket(bar, t)
  OBVIOUS
<1>4. PICK U : U = UnmarkedBucket(bar, t)
  OBVIOUS
<1>5. PICK P : P = PinnedBucket(bar, t)
  OBVIOUS
<1>6. PICK found : found = ScanAll(nd, t)
  OBVIOUS
<1>7. PICK pick : pick = PickVictim(nd, t)
  OBVIOUS
<1>8. /\ Distinct(keys) /\ None \notin Range(keys) /\ Len(keys) \in Nat \ {0}
      /\ DOMAIN keys = 1..Len(keys)
  BY <1>1, Buckets DEF IsScanNode, Distinct
<1>9. /\ \A b \in Range(keys) :
           /\ b \in U <=> b \notin DOMAIN nd.priority \/ ~Later(nd.expiry[b], t)
           /\ b \in E <=> b \notin U /\ nd.priority[b] < 0
           /\ b \in P <=> b \notin U /\ ~(nd.priority[b] < 0)
  BY <1>1, <1>2, <1>3, <1>4, <1>5, Buckets
<1>10. /\ FirstOf(found.evictFirst, keys, Len(keys), E)
       /\ FirstOf(found.unmarked, keys, Len(keys), U)
       /\ WeakestOf(found.marked, found.markedKey, Table(nd), keys, Len(keys), P)
  BY <1>1, <1>2, <1>3, <1>4, <1>5, <1>6, ScannedAll DEF FoundSoFar
<1>11. pick = IF DOMAIN nd.priority = {}     THEN [block |-> keys[1], pinned |-> 0]
              ELSE IF found.evictFirst # None THEN [block |-> found.evictFirst, pinned |-> 0]
              ELSE IF found.unmarked # None   THEN [block |-> found.unmarked, pinned |-> 0]
              ELSE [block |-> found.marked, pinned |-> 1]
  BY <1>1, <1>6, <1>7 DEF PickVictim
<1>12. \A x \in Range(keys) : bar.cache[x] = InFrontOf(keys, x)
  BY <1>1, <1>2 DEF Bar, Order
<1>13. \A a, b \in Range(keys) :
          /\ (a \in E /\ (b \in E => a \in InFrontOf(keys, b))) => EvictedBefore(bar, t, a, b)
          /\ (a \in U /\ b \notin E /\ (b \in U => a \in InFrontOf(keys, b)))
               => EvictedBefore(bar, t, a, b)
          /\ (a \in P /\ b \in P /\ WeakerPin(bar, a, b)) => EvictedBefore(bar, t, a, b)
  <2> SUFFICES ASSUME NEW a \in Range(keys), NEW b \in Range(keys)
               PROVE
          /\ (a \in E /\ (b \in E => a \in InFrontOf(keys, b))) => EvictedBefore(bar, t, a, b)
          /\ (a \in U /\ b \notin E /\ (b \in U => a \in InFrontOf(keys, b)))
               => EvictedBefore(bar, t, a, b)
          /\ (a \in P /\ b \in P /\ WeakerPin(bar, a, b)) => EvictedBefore(bar, t, a, b)
    OBVIOUS
  <2>1. EvictedBefore(bar, t, a, b)
          <=> \/ a \in E /\ b \notin E
              \/ a \notin P /\ b \in P
              \/ {a, b} \subseteq E /\ a \in bar.cache[b]
              \/ {a, b} \subseteq U /\ a \in bar.cache[b]
              \/ {a, b} \subseteq P /\ WeakerPin(bar, a, b)
    BY <1>3, <1>4, <1>5, Zenon DEF EvictedBefore
  <2>2. bar.cache[b] = InFrontOf(keys, b)
    BY <1>12
  <2>3. (a \in U => a \notin P) /\ (b \notin E /\ b \notin U => b \in P)
    BY <1>9
  <2> QED
    BY <2>1, <2>2, <2>3
<1>14. /\ pick.block \in Range(keys)
       /\ \A x \in Range(keys) \ {pick.block} : EvictedBefore(bar, t, pick.block, x)
       /\ pick.pinned = IF pick.block \in P THEN 1 ELSE 0
  <2>1. CASE DOMAIN nd.priority = {}
    <3>1. pick = [block |-> keys[1], pinned |-> 0]
      BY <1>11, <2>1
    <3>2. pick.block = keys[1] /\ pick.pinned = 0
      BY <3>1
    <3>3. \A b \in Range(keys) : b \in U /\ b \notin E /\ b \notin P
      BY <1>9, <2>1
    <3>4. keys[1] \in Range(keys)
      BY <1>8 DEF Range
    <3>5. ASSUME NEW x \in Range(keys) \ {keys[1]} PROVE keys[1] \in InFrontOf(keys, x)
      <4>1. PICK j \in DOMAIN keys : x = keys[j]
        BY DEF Range
      <4>2. 1 \in DOMAIN keys /\ 1 < j
        BY <1>8, <4>1
      <4> QED
        BY <1>8, <4>1, <4>2, FrontByPlace
    <3> QED
      BY <1>13, <3>2, <3>3, <3>4, <3>5
  <2>2. CASE DOMAIN nd.priority # {} /\ found.evictFirst # None
    <3>1. pick = [block |-> found.evictFirst, pinned |-> 0]
      BY <1>11, <2>2
    <3>2. pick.block = found.evictFirst /\ pick.pinned = 0
      BY <3>1
    <3>3. /\ pick.block \in Range(keys) /\ pick.block \in E
          /\ \A x \in Range(keys) \ {pick.block} : x \in E => pick.block \in InFrontOf(keys, x)
      BY <1>8, <1>10, <2>2, <3>2, FirstIsFirst
    <3>4. pick.block \notin P
      BY <1>9, <3>3
    <3> QED
      BY <1>13, <3>2, <3>3, <3>4
  <2>3. CASE DOMAIN nd.priority # {} /\ found.evictFirst = None /\ found.unmarked # None
    <3>1. pick = [block |-> found.unmarked, pinned |-> 0]
      BY <1>11, <2>3
    <3>2. pick.block = found.unmarked /\ pick.pinned = 0
      BY <3>1
    <3>3. /\ pick.block \in Range(keys) /\ pick.block \in U
          /\ \A x \in Range(keys) \ {pick.block} : x \in U => pick.block \in InFrontOf(keys, x)
      BY <1>8, <1>10, <2>3, <3>2, FirstIsFirst
    <3>4. \A x \in Range(keys) : x \notin E
      BY <1>8, <1>10, <2>3, NoneIsNone
    <3>5. pick.block \notin P
      BY <1>9, <3>3
    <3> QED
      BY <1>13, <3>2, <3>3, <3>4, <3>5
  <2>4. CASE DOMAIN nd.priority # {} /\ found.evictFirst = None /\ found.unmarked = None
    <3>1. pick = [block |-> found.marked, pinned |-> 1]
      BY <1>11, <2>4
    <3>2. pick.block = found.marked /\ pick.pinned = 1
      BY <3>1
    <3>3. \A x \in Range(keys) : x \notin E /\ x \notin U
      BY <1>8, <1>10, <2>4, NoneIsNone
    <3>4. \A x \in Range(keys) : x \in P
      BY <1>9, <3>3
    <3>5. keys[1] \in Range(keys)
      BY <1>8 DEF Range
    <3>6. P \cap Range(keys) # {}
      BY <3>4, <3>5
    <3>7. /\ pick.block \in Range(keys) /\ pick.block \in P
          /\ \A x \in Range(keys) \ {pick.block} : x \in P => WeakerPin(bar, pick.block, x)
      BY <1>1, <1>2, <1>10, <3>2, <3>6, WeakestIsFirst
    <3> QED
      BY <1>13, <3>2, <3>4, <3>7
  <2> QED
    BY <2>1, <2>2, <2>3, <2>4
<1> QED
  BY <1>1, <1>2, <1>5, <1>7, <1>14 DEF IsVictim

-----------------------------------------------------------------------------
(* Victims, one at a time *)

\* A dict has as many keys as places.
LEMMA KeyCount ==
    ASSUME NEW keys, Distinct(keys)
    PROVE  IsFiniteSet(Range(keys)) /\ Cardinality(Range(keys)) = Len(keys)
<1>1. PICK n : n = Len(keys)
  OBVIOUS
<1>2. PICK D : D = Range(keys)
  OBVIOUS
<1>3. n \in Nat /\ DOMAIN keys = 1..n
  BY <1>1 DEF Distinct
<1>4. keys \in Bijection(1..n, D)
  <2>1. keys \in [1..n -> D]
    BY <1>2, <1>3 DEF Distinct, Range
  <2>2. \A i, j \in 1..n : keys[i] = keys[j] => i = j
    BY <1>3 DEF Distinct
  <2>3. \A x \in D : \E i \in 1..n : keys[i] = x
    BY <1>2, <1>3 DEF Range
  <2> QED
    BY <2>1, <2>2, <2>3 DEF Bijection, Injection, Surjection, IsInjective
<1>5. ExistsBijection(1..n, D)
  BY <1>4 DEF ExistsBijection
<1>6. IsFiniteSet(1..n) /\ Cardinality(1..n) = n
  BY <1>3, FS_Interval
<1> QED
  BY <1>1, <1>2, <1>5, <1>6, FS_Bijection

\* What is left of the code's node once v is evicted.
EvictsOne(nd, t, v, new) ==
    new = [nd EXCEPT !.cache = Pop(@, v),
                     !.priority = Without(@, v),
                     !.expiry = Without(@, v),
                     !.pinnedEvictions = @ + (IF v \in PinnedBucket(Bar(nd), t) THEN 1 ELSE 0)]

LEMMA EvictedOne ==
    ASSUME NEW nd, IsScanNode(nd), NEW t, NEW v \in Range(nd.cache), NEW new,
           EvictsOne(nd, t, v, new)
    PROVE  IsScanNode(new) /\ Bar(new) = Evicted(Bar(nd), t, {v})
<1>1. PICK pins : pins = IF v \in PinnedBucket(Bar(nd), t) THEN 1 ELSE 0
  OBVIOUS
<1>2. /\ new = [cache |-> new.cache, priority |-> new.priority, expiry |-> new.expiry,
                pinnedEvictions |-> new.pinnedEvictions, busyUntil |-> new.busyUntil]
      /\ new.cache = Pop(nd.cache, v)
      /\ new.priority = Without(nd.priority, v) /\ new.expiry = Without(nd.expiry, v)
      /\ new.pinnedEvictions = nd.pinnedEvictions + pins /\ new.busyUntil = nd.busyUntil
  BY <1>1 DEF IsScanNode, EvictsOne
<1>3. /\ Distinct(new.cache) /\ Range(new.cache) = Range(nd.cache) \ {v}
      /\ \A b \in Range(nd.cache) \ {v} : InFrontOf(new.cache, b) = InFrontOf(nd.cache, b) \ {v}
  BY <1>2, PopKeeps DEF IsScanNode
<1>4. /\ nd.priority = [b \in DOMAIN nd.priority |-> nd.priority[b]]
      /\ nd.expiry = [b \in DOMAIN nd.priority |-> nd.expiry[b]]
      /\ DOMAIN nd.expiry = DOMAIN nd.priority
  <2>1. nd.expiry = [b \in DOMAIN nd.priority |-> nd.expiry[b]]
    BY DEF IsScanNode
  <2>2. DOMAIN nd.expiry = DOMAIN nd.priority
    BY <2>1
  <2> QED
    BY <2>1, <2>2, Zenon DEF IsScanNode
<1>5. PICK D : D = DOMAIN nd.priority \ {v}
  OBVIOUS
<1>6. /\ new.priority = [b \in D |-> nd.priority[b]]
      /\ new.expiry = [b \in D |-> nd.expiry[b]]
  <2>1. D = DOMAIN nd.expiry \ {v}
    BY <1>4, <1>5
  <2> QED
    BY <1>2, <1>5, <2>1, Zenon DEF Without, Restrict
<1>7. /\ DOMAIN new.priority = D
      /\ \A b \in D : new.priority[b] = nd.priority[b] /\ new.expiry[b] = nd.expiry[b]
  BY <1>6
<1>8. IsScanNode(new)
  <2>1. /\ new.priority = [b \in DOMAIN new.priority |-> new.priority[b]]
        /\ new.expiry = [b \in DOMAIN new.priority |-> new.expiry[b]]
    BY <1>6, <1>7, Zenon
  <2> QED
    BY <1>2, <1>3, <2>1, Zenon DEF IsScanNode
<1>9. Order(new.cache) = Kept(Order(nd.cache), Range(nd.cache) \ {v})
  <2>1. PICK old : old = Order(nd.cache)
    OBVIOUS
  <2>2. PICK S : S = Range(nd.cache) \ {v}
    OBVIOUS
  <2>3. \A b \in S : old[b] = InFrontOf(nd.cache, b)
    BY <2>1, <2>2 DEF Order
  <2>4. \A b : InFrontOf(nd.cache, b) \subseteq Range(nd.cache)
    BY DEF InFrontOf, Range
  <2>5. \A b \in S : InFrontOf(new.cache, b) = old[b] \cap S
    BY <1>3, <2>2, <2>3, <2>4
  <2>6. Order(new.cache) = [b \in S |-> InFrontOf(new.cache, b)]
    BY <1>3, <2>2 DEF Order
  <2>7. Kept(old, S) = [b \in S |-> old[b] \cap S]
    BY DEF Kept
  <2> QED
    BY <2>1, <2>2, <2>5, <2>6, <2>7, SMTT(30)
<1>10. Table(new) = Restrict(Table(nd), DOMAIN Table(nd) \ {v})
  <2>1. PICK old : old = Table(nd)
    OBVIOUS
  <2>2. /\ DOMAIN old = DOMAIN nd.priority
        /\ \A b \in DOMAIN old : old[b] = [prio |-> nd.priority[b], expiry |-> nd.expiry[b]]
    BY <2>1 DEF Table
  <2>3. Table(new) = [b \in D |-> [prio |-> new.priority[b], expiry |-> new.expiry[b]]]
    BY <1>7 DEF Table
  <2>4. Restrict(old, DOMAIN old \ {v}) = [b \in D |-> old[b]]
    <3>1. DOMAIN old \ {v} = D
      BY <1>5, <2>2
    <3> QED
      BY <3>1, Zenon DEF Restrict
  <2>5. ASSUME NEW b \in D PROVE [prio |-> new.priority[b], expiry |-> new.expiry[b]] = old[b]
    <3>1. b \in DOMAIN old /\ new.priority[b] = nd.priority[b] /\ new.expiry[b] = nd.expiry[b]
      BY <1>5, <1>7, <2>2
    <3> QED
      BY <2>2, <3>1, Zenon
  <2>6. [b \in D |-> [prio |-> new.priority[b], expiry |-> new.expiry[b]]] = [b \in D |-> old[b]]
    BY <2>5, Zenon
  <2> QED
    BY <2>1, <2>3, <2>4, <2>6, Zenon
<1>11. Cardinality({v} \cap PinnedBucket(Bar(nd), t)) = pins
  <2>1. CASE v \in PinnedBucket(Bar(nd), t)
    <3>1. {v} \cap PinnedBucket(Bar(nd), t) = {v}
      BY <2>1
    <3>2. Cardinality({v}) = 1
      BY FS_Singleton
    <3> QED
      BY <1>1, <2>1, <3>1, <3>2
  <2>2. CASE v \notin PinnedBucket(Bar(nd), t)
    <3>1. {v} \cap PinnedBucket(Bar(nd), t) = {}
      BY <2>2
    <3> QED
      BY <1>1, <2>2, <3>1, FS_EmptySet
  <2> QED
    BY <2>1, <2>2
<1>12. Bar(new) = Evicted(Bar(nd), t, {v})
  <2>1. PICK bar : bar = Bar(nd)
    OBVIOUS
  <2>2. /\ bar.cache = Order(nd.cache) /\ bar.mark = Table(nd)
        /\ bar.pinnedEvictions = nd.pinnedEvictions /\ bar.busyUntil = nd.busyUntil
    BY <2>1 DEF Bar
  <2>3. Resident(bar) = Range(nd.cache)
    BY <2>2 DEF Resident, Order
  <2>4. Bar(new) = [cache |-> Order(new.cache), mark |-> Table(new),
                    pinnedEvictions |-> nd.pinnedEvictions + pins, busyUntil |-> nd.busyUntil]
    BY <1>2 DEF Bar
  <2>5. Evicted(bar, t, {v})
          = [cache |-> Kept(Order(nd.cache), Range(nd.cache) \ {v}),
             mark |-> Restrict(Table(nd), DOMAIN Table(nd) \ {v}),
             pinnedEvictions |-> nd.pinnedEvictions + pins, busyUntil |-> nd.busyUntil]
    BY <1>11, <2>1, <2>2, <2>3, Zenon DEF Evicted
  <2> QED
    BY <1>9, <1>10, <2>1, <2>4, <2>5, Zenon
<1> QED
  BY <1>8, <1>12

\* Evicting some blocks changes neither the buckets of the others nor their order.
LEMMA OrderStays ==
    ASSUME NEW nd, IsNode(nd), NEW t, NEW V \in SUBSET Resident(nd),
           NEW left, left = Evicted(nd, t, V)
    PROVE  /\ Resident(left) = Resident(nd) \ V
           /\ \A b \in Resident(nd) \ V : b \in PinnedBucket(left, t) <=> b \in PinnedBucket(nd, t)
           /\ \A a, b \in Resident(nd) \ V :
                 EvictedBefore(left, t, a, b) <=> EvictedBefore(nd, t, a, b)
<1>1. PICK S : S = Resident(nd) \ V
  OBVIOUS
<1>2. left.cache = Kept(nd.cache, S) /\ left.mark = Restrict(nd.mark, DOMAIN nd.mark \ V)
  BY <1>1 DEF Evicted
<1>3. Resident(left) = S /\ \A b \in S : left.cache[b] = nd.cache[b] \cap S
  BY <1>2 DEF Kept, Resident
<1>4. \A b \in S : /\ b \in DOMAIN left.mark <=> b \in DOMAIN nd.mark
                   /\ b \in DOMAIN nd.mark => left.mark[b] = nd.mark[b]
  BY <1>1, <1>2 DEF Restrict
<1>5. \A b \in S : Live(left, t, b) <=> Live(nd, t, b)
  BY <1>4, Zenon DEF Live
<1>6. S \subseteq Resident(nd)
  BY <1>1
<1>7. \A b \in S : Live(nd, t, b) => left.mark[b] = nd.mark[b]
  BY <1>4, Zenon DEF Live
<1>8. ASSUME NEW b \in S
      PROVE  /\ b \in EvictFirstBucket(left, t) <=> b \in EvictFirstBucket(nd, t)
             /\ b \in UnmarkedBucket(left, t) <=> b \in UnmarkedBucket(nd, t)
             /\ b \in PinnedBucket(left, t) <=> b \in PinnedBucket(nd, t)
             /\ b \in PinnedBucket(nd, t) => left.mark[b] = nd.mark[b]
  <2>1. b \in Resident(left) /\ b \in Resident(nd)
    BY <1>3, <1>6
  <2>2. (Live(left, t, b) <=> Live(nd, t, b)) /\ (Live(nd, t, b) => left.mark[b] = nd.mark[b])
    BY <1>5, <1>7
  <2>3. b \in EvictFirstBucket(left, t) <=> b \in EvictFirstBucket(nd, t)
    BY <2>1, <2>2 DEF EvictFirstBucket
  <2>4. b \in UnmarkedBucket(left, t) <=> b \in UnmarkedBucket(nd, t)
    BY <2>1, <2>2 DEF UnmarkedBucket
  <2>5. /\ b \in PinnedBucket(left, t) <=> b \in PinnedBucket(nd, t)
        /\ b \in PinnedBucket(nd, t) => left.mark[b] = nd.mark[b]
    BY <2>1, <2>2 DEF PinnedBucket
  <2> QED
    BY <2>3, <2>4, <2>5
<1>9. ASSUME NEW a \in S, NEW b \in S
      PROVE  EvictedBefore(left, t, a, b) <=> EvictedBefore(nd, t, a, b)
  <2>1. a \in left.cache[b] <=> a \in nd.cache[b]
    BY <1>3
  <2>2. {a, b} \subseteq PinnedBucket(nd, t) => (WeakerPin(left, a, b) <=> WeakerPin(nd, a, b))
    <3>1. SUFFICES ASSUME {a, b} \subseteq PinnedBucket(nd, t)
                   PROVE  WeakerPin(left, a, b) <=> WeakerPin(nd, a, b)
      OBVIOUS
    <3>2. left.mark[a] = nd.mark[a] /\ left.mark[b] = nd.mark[b]
      BY <1>8, <3>1
    <3> QED
      BY <2>1, <3>2, Zenon DEF WeakerPin
  <2>3. /\ a \in EvictFirstBucket(left, t) <=> a \in EvictFirstBucket(nd, t)
        /\ b \in EvictFirstBucket(left, t) <=> b \in EvictFirstBucket(nd, t)
        /\ a \in UnmarkedBucket(left, t) <=> a \in UnmarkedBucket(nd, t)
        /\ b \in UnmarkedBucket(left, t) <=> b \in UnmarkedBucket(nd, t)
        /\ a \in PinnedBucket(left, t) <=> a \in PinnedBucket(nd, t)
        /\ b \in PinnedBucket(left, t) <=> b \in PinnedBucket(nd, t)
    BY <1>8
  <2>4. \A n : EvictedBefore(n, t, a, b)
          <=> \/ a \in EvictFirstBucket(n, t) /\ b \notin EvictFirstBucket(n, t)
              \/ a \notin PinnedBucket(n, t) /\ b \in PinnedBucket(n, t)
              \/ (a \in EvictFirstBucket(n, t) /\ b \in EvictFirstBucket(n, t)) /\ a \in n.cache[b]
              \/ (a \in UnmarkedBucket(n, t) /\ b \in UnmarkedBucket(n, t)) /\ a \in n.cache[b]
              \/ (a \in PinnedBucket(n, t) /\ b \in PinnedBucket(n, t)) /\ WeakerPin(n, a, b)
    BY DEF EvictedBefore
  <2> QED
    BY <2>1, <2>2, <2>3, <2>4
<1> QED
  BY <1>1, <1>3, <1>8, <1>9

\* Evicting some blocks and then one more is evicting them all at once.
LEMMA EvictedTwice ==
    ASSUME NEW nd, IsNode(nd), NEW t \in Nat, NEW V \in SUBSET Resident(nd),
           NEW v \in Resident(nd) \ V
    PROVE  Evicted(Evicted(nd, t, V), t, {v}) = Evicted(nd, t, V \cup {v})
<1>1. PICK left : left = Evicted(nd, t, V)
  OBVIOUS
<1>2. /\ left.cache = Kept(nd.cache, Resident(nd) \ V)
      /\ left.mark = Restrict(nd.mark, DOMAIN nd.mark \ V)
      /\ left.pinnedEvictions = nd.pinnedEvictions + Cardinality(V \cap PinnedBucket(nd, t))
      /\ left.busyUntil = nd.busyUntil
  BY <1>1 DEF Evicted
<1>3. /\ Resident(left) = Resident(nd) \ V
      /\ v \in PinnedBucket(left, t) <=> v \in PinnedBucket(nd, t)
  BY <1>1, OrderStays
<1>4. PICK W : W = V \cup {v}
  OBVIOUS
<1>5. PICK S : S = Resident(nd) \ W
  OBVIOUS
<1>6. Resident(left) \ {v} = S
  BY <1>3, <1>4, <1>5
<1>7. Kept(left.cache, S) = Kept(nd.cache, S)
  <2>1. \A b \in S : left.cache[b] \cap S = nd.cache[b] \cap S
    BY <1>2, <1>4, <1>5 DEF Kept
  <2> QED
    BY <2>1, Zenon DEF Kept
<1>8. Restrict(left.mark, DOMAIN left.mark \ {v}) = Restrict(nd.mark, DOMAIN nd.mark \ W)
  <2>1. DOMAIN left.mark \ {v} = DOMAIN nd.mark \ W
    BY <1>2, <1>4 DEF Restrict
  <2>2. \A b \in DOMAIN nd.mark \ W : left.mark[b] = nd.mark[b]
    BY <1>2, <1>4 DEF Restrict
  <2> QED
    BY <2>1, <2>2, Zenon DEF Restrict
<1>9. left.pinnedEvictions + Cardinality({v} \cap PinnedBucket(left, t))
        = nd.pinnedEvictions + Cardinality(W \cap PinnedBucket(nd, t))
  <2>1. PICK P : P = V \cap PinnedBucket(nd, t)
    OBVIOUS
  <2>2. IsFiniteSet(P) /\ Cardinality(P) \in Nat
    <3>1. P \in SUBSET Resident(nd)
      BY <2>1
    <3> QED
      BY <3>1, ResidentIsFinite DEF IsNode, Resident
  <2>3. nd.pinnedEvictions \in Nat
    BY DEF IsNode
  <2>6. left.pinnedEvictions = nd.pinnedEvictions + Cardinality(P)
    BY <1>2, <2>1, Zenon
  <2>4. CASE v \in PinnedBucket(nd, t)
    <3>1. {v} \cap PinnedBucket(left, t) = {v} /\ W \cap PinnedBucket(nd, t) = P \cup {v}
      BY <1>3, <1>4, <2>1, <2>4
    <3>2. v \notin P /\ Cardinality({v}) = 1
      BY <2>1, FS_Singleton
    <3>3. Cardinality(P \cup {v}) = Cardinality(P) + 1
      BY <2>2, <3>2, FS_AddElement
    <3>4. /\ Cardinality({v} \cap PinnedBucket(left, t)) = 1
          /\ Cardinality(W \cap PinnedBucket(nd, t)) = Cardinality(P) + 1
      BY <3>1, <3>2, <3>3, Zenon
    <3> QED
      BY <2>2, <2>3, <2>6, <3>4
  <2>5. CASE v \notin PinnedBucket(nd, t)
    <3>1. {v} \cap PinnedBucket(left, t) = {} /\ W \cap PinnedBucket(nd, t) = P
      BY <1>3, <1>4, <2>1, <2>5
    <3>2. /\ Cardinality({v} \cap PinnedBucket(left, t)) = 0
          /\ Cardinality(W \cap PinnedBucket(nd, t)) = Cardinality(P)
      BY <3>1, FS_EmptySet, Zenon
    <3> QED
      BY <2>2, <2>3, <2>6, <3>2
  <2> QED
    BY <2>4, <2>5
<1> QED
  BY <1>1, <1>2, <1>4, <1>5, <1>6, <1>7, <1>8, <1>9, Zenon DEF Evicted

\* No two blocks go before each other.
LEMMA BeforeIsStrict ==
    ASSUME NEW nd, IsNode(nd), NEW t, NEW a \in Resident(nd), NEW b \in Resident(nd),
           EvictedBefore(nd, t, a, b), EvictedBefore(nd, t, b, a)
    PROVE  FALSE
<1>1. PICK E : E = EvictFirstBucket(nd, t)
  OBVIOUS
<1>2. PICK U : U = UnmarkedBucket(nd, t)
  OBVIOUS
<1>3. PICK P : P = PinnedBucket(nd, t)
  OBVIOUS
<1>4. \A x : ~(x \in E /\ x \in U) /\ ~(x \in E /\ x \in P) /\ ~(x \in U /\ x \in P)
  BY <1>1, <1>2, <1>3, Zenon DEF EvictFirstBucket, UnmarkedBucket, PinnedBucket
<1>5. \A x, y : EvictedBefore(nd, t, x, y)
         => \/ x \in E /\ y \notin E
            \/ x \notin P /\ y \in P
            \/ x \in E /\ y \in E /\ x \in nd.cache[y]
            \/ x \in U /\ y \in U /\ x \in nd.cache[y]
            \/ x \in P /\ y \in P /\ WeakerPin(nd, x, y)
  BY <1>1, <1>2, <1>3 DEF EvictedBefore
<1>6. ~(a \in nd.cache[b] /\ b \in nd.cache[a])
  BY DEF IsNode, IsRecency, IsOrder, Resident
<1>7. a \in P /\ b \in P => ~(WeakerPin(nd, a, b) /\ WeakerPin(nd, b, a))
  <2> SUFFICES ASSUME a \in P, b \in P, WeakerPin(nd, a, b), WeakerPin(nd, b, a) PROVE FALSE
    OBVIOUS
  <2>1. PICK p \in Marks : p = nd.mark[a]
    BY <1>3 DEF PinnedBucket, Live, IsNode
  <2>2. PICK q \in Marks : q = nd.mark[b]
    BY <1>3 DEF PinnedBucket, Live, IsNode
  <2>3. KeyLess(p, q) \/ (p = q /\ a \in nd.cache[b])
    BY <2>1, <2>2, Zenon DEF WeakerPin, KeyLess
  <2>4. KeyLess(q, p) \/ (p = q /\ b \in nd.cache[a])
    BY <2>1, <2>2, Zenon DEF WeakerPin, KeyLess
  <2>5. ~KeyLess(p, p)
    <3>1. p.prio \in Int /\ p.expiry \in Nat \cup {Forever}
      BY DEF Marks, EVICT_FIRST, PINNED
    <3> QED
      BY <3>1, ForeverIsNoTime DEF KeyLess, Sooner, Later
  <2>6. KeyLess(p, q) /\ KeyLess(q, p) => KeyLess(p, p)
    BY KeyOrder
  <2> QED
    BY <1>6, <2>3, <2>4, <2>5, <2>6
<1> QED
  BY <1>4, <1>5, <1>6, <1>7

\* The blocks that go before all others are a single set.
LEMMA OneVictimSet ==
    ASSUME NEW nd, IsNode(nd), NEW t, NEW V \in VictimSets(nd, t), NEW W \in VictimSets(nd, t)
    PROVE  V = W
<1>1. /\ V \in SUBSET Resident(nd) /\ W \in SUBSET Resident(nd)
      /\ Cardinality(V) = Cardinality(W)
      /\ \A v \in V, s \in Resident(nd) \ V : EvictedBefore(nd, t, v, s)
      /\ \A v \in W, s \in Resident(nd) \ W : EvictedBefore(nd, t, v, s)
  BY DEF VictimSets
<1>2. IsFiniteSet(V) /\ IsFiniteSet(W)
  BY <1>1, ResidentIsFinite DEF IsNode, Resident
<1>3. CASE V \subseteq W
  BY <1>1, <1>2, <1>3, FS_Subset
<1>4. CASE W \subseteq V
  BY <1>1, <1>2, <1>4, FS_Subset
<1>5. CASE ~(V \subseteq W) /\ ~(W \subseteq V)
  <2>1. PICK a \in V : a \notin W
    BY <1>5
  <2>2. PICK b \in W : b \notin V
    BY <1>5
  <2>3. EvictedBefore(nd, t, a, b) /\ EvictedBefore(nd, t, b, a)
    BY <1>1, <2>1, <2>2
  <2>4. a \in Resident(nd) /\ b \in Resident(nd)
    BY <1>1
  <2> QED
    BY <2>3, <2>4, BeforeIsStrict
<1> QED
  BY <1>3, <1>4, <1>5

\* What k turns of the loop "while over capacity" have made of a node: V is gone.
EvictedSoFar(nd, t, new, k, V) ==
    /\ IsScanNode(new)
    /\ V \in SUBSET Resident(Bar(nd))
    /\ Bar(new) = Evicted(Bar(nd), t, V)
    /\ Cardinality(V) = MinOf(k, Overflow(Bar(nd)))
    /\ \A v \in V, s \in Resident(Bar(nd)) \ V : EvictedBefore(Bar(nd), t, v, s)

LEMMA EvictOneMore ==
    ASSUME NEW nd, IsNode(Bar(nd)), NEW t \in Nat, NEW old, NEW new,
           NEW k \in Nat \ {0}, NEW V, EvictedSoFar(nd, t, old, k - 1, V),
           new = EvictTurn(old, t)
    PROVE  \E W : EvictedSoFar(nd, t, new, k, W)
<1>1. PICK bar : bar = Bar(nd)
  OBVIOUS
<1>2. PICK left : left = Bar(old)
  OBVIOUS
<1>3. PICK D : D = Resident(bar)
  OBVIOUS
<1>4. PICK over : over = Overflow(bar)
  OBVIOUS
<1>5. /\ IsScanNode(old) /\ IsNode(bar) /\ V \in SUBSET D
      /\ left = Evicted(bar, t, V) /\ Cardinality(V) = MinOf(k - 1, over)
      /\ \A v \in V, s \in D \ V : EvictedBefore(bar, t, v, s)
  BY <1>1, <1>2, <1>3, <1>4 DEF EvictedSoFar
<1>6. /\ IsNode(left) /\ Resident(left) = D \ V
      /\ \A a, b \in D \ V : EvictedBefore(left, t, a, b) <=> EvictedBefore(bar, t, a, b)
  <2>1. V \in SUBSET Resident(bar)
    BY <1>3, <1>5
  <2>2. IsNode(Evicted(bar, t, V))
    BY <1>5, <2>1, EvictedIsNode
  <2>3. /\ Resident(left) = Resident(bar) \ V
        /\ \A a, b \in Resident(bar) \ V :
              EvictedBefore(left, t, a, b) <=> EvictedBefore(bar, t, a, b)
    BY <1>5, <2>1, OrderStays
  <2> QED
    BY <1>3, <1>5, <2>2, <2>3, Zenon
<1>7. Range(old.cache) = D \ V /\ Len(old.cache) \in Nat /\ Cardinality(D \ V) = Len(old.cache)
  <2>1. Resident(left) = Range(old.cache)
    BY <1>2, <1>5, <1>6, Buckets
  <2>2. Distinct(old.cache)
    BY <1>5 DEF IsScanNode
  <2>3. Cardinality(Range(old.cache)) = Len(old.cache)
    BY <2>2, KeyCount
  <2>4. Range(old.cache) = D \ V
    BY <1>6, <2>1, Zenon
  <2>5. Len(old.cache) \in Nat
    BY <2>2 DEF Distinct
  <2> QED
    BY <2>3, <2>4, <2>5, Zenon
<1>8. /\ IsFiniteSet(D) /\ IsFiniteSet(V)
      /\ Cardinality(D) \in Nat /\ Cardinality(V) \in Nat /\ Cardinality(D \ V) \in Nat
  BY <1>3, <1>5, ResidentIsFinite DEF IsNode, Resident
<1>9. Cardinality(D) = Cardinality(V) + Cardinality(D \ V)
  BY <1>5, <1>8, SplitCount
<1>10. over = (IF Cardinality(D) >= Capacity THEN Cardinality(D) - Capacity ELSE 0) /\ over \in Nat
  <2>1. over = MaxOf(0, Cardinality(D) - Capacity)
    BY <1>3, <1>4 DEF Overflow
  <2> QED
    BY <1>8, <2>1, CapacityIsNat DEF MaxOf
<1>11. CASE Len(old.cache) > Capacity
  <2>1. PICK pick : pick = PickVictim(old, t)
    OBVIOUS
  <2>2. Len(old.cache) > 0
    BY <1>7, <1>11, CapacityIsNat
  <2>3. IsVictim(old, t, pick)
    BY <1>2, <1>5, <1>6, <2>1, <2>2, VictimFirst
  <2>4. /\ pick.block \in D \ V
        /\ \A x \in (D \ V) \ {pick.block} : EvictedBefore(left, t, pick.block, x)
        /\ pick.pinned = IF pick.block \in PinnedBucket(left, t) THEN 1 ELSE 0
    BY <1>2, <1>7, <2>3 DEF IsVictim
  <2>5. PICK v : v = pick.block
    OBVIOUS
  <2>6. PICK W : W = V \cup {v}
    OBVIOUS
  <2>7. EvictsOne(old, t, v, new)
    <3>1. new = EvictOne(old, t)
      BY <1>11 DEF EvictTurn
    <3>2. pick.pinned = IF v \in PinnedBucket(Bar(old), t) THEN 1 ELSE 0
      BY <1>2, <2>4, <2>5
    <3> QED
      BY <2>1, <2>5, <3>1, <3>2, Zenon DEF EvictOne, EvictsOne
  <2>8. IsScanNode(new) /\ Bar(new) = Evicted(Bar(old), t, {v})
    <3>1. v \in Range(old.cache)
      BY <1>7, <2>4, <2>5
    <3> QED
      BY <1>5, <2>7, <3>1, EvictedOne
  <2>9. Bar(new) = Evicted(bar, t, W)
    <3>1. V \in SUBSET Resident(bar) /\ v \in Resident(bar) \ V
      BY <1>3, <1>5, <2>4, <2>5
    <3>2. Evicted(Evicted(bar, t, V), t, {v}) = Evicted(bar, t, V \cup {v})
      BY <1>5, <3>1, EvictedTwice
    <3> QED
      BY <1>2, <1>5, <2>6, <2>8, <3>2, Zenon
  <2>10. W \in SUBSET D
    BY <1>5, <2>4, <2>5, <2>6
  <2>11. Cardinality(W) = Cardinality(V) + 1
    BY <1>8, <2>4, <2>5, <2>6, FS_AddElement
  <2>12. Cardinality(W) = MinOf(k, over)
    <3>1. Cardinality(V) = MinOf(k - 1, over)
      BY <1>5
    <3>2. Cardinality(D) = Cardinality(V) + Len(old.cache)
      BY <1>7, <1>9
    <3>3. over = Cardinality(V) + Len(old.cache) - Capacity
      BY <1>7, <1>8, <1>10, <1>11, <3>2, CapacityIsNat
    <3>4. over \in Nat /\ Cardinality(V) \in Nat /\ Cardinality(V) < over
      BY <1>7, <1>8, <1>10, <1>11, <3>3, CapacityIsNat
    <3>5. Cardinality(V) = k - 1 /\ k - 1 < over
      BY <3>1, <3>4 DEF MinOf
    <3> QED
      BY <2>11, <3>4, <3>5 DEF MinOf
  <2>13. \A w \in W, s \in D \ W : EvictedBefore(bar, t, w, s)
    BY <1>5, <1>6, <2>4, <2>5, <2>6
  <2>14. EvictedSoFar(nd, t, new, k, W)
    BY <1>1, <1>3, <1>4, <2>8, <2>9, <2>10, <2>12, <2>13 DEF EvictedSoFar
  <2> QED
    BY <2>14
<1>12. CASE ~(Len(old.cache) > Capacity)
  <2>1. new = old
    BY <1>12 DEF EvictTurn
  <2>2. Cardinality(V) = MinOf(k, over)
    BY <1>5, <1>7, <1>8, <1>9, <1>10, <1>12, CapacityIsNat DEF MinOf
  <2>3. EvictedSoFar(nd, t, new, k, V)
    BY <1>1, <1>2, <1>3, <1>4, <1>5, <2>1, <2>2 DEF EvictedSoFar
  <2> QED
    BY <2>3
<1> QED
  BY <1>11, <1>12

\* Evicting nothing changes nothing.
LEMMA EvictedNone ==
    ASSUME NEW nd, IsNode(nd), NEW t
    PROVE  Evicted(nd, t, {}) = nd
<1>1. Kept(nd.cache, Resident(nd) \ {}) = nd.cache
  <2>1. PICK c : c = nd.cache
    OBVIOUS
  <2>2. c = [b \in DOMAIN c |-> c[b]] /\ \A b \in DOMAIN c : c[b] \cap DOMAIN c = c[b]
    BY <2>1 DEF IsNode, IsRecency, IsOrder
  <2>3. Kept(c, DOMAIN c) = [b \in DOMAIN c |-> c[b]]
    BY <2>2, Zenon DEF Kept
  <2>4. Resident(nd) \ {} = DOMAIN c
    BY <2>1 DEF Resident
  <2> QED
    BY <2>1, <2>2, <2>3, <2>4, Zenon
<1>2. Restrict(nd.mark, DOMAIN nd.mark \ {}) = nd.mark
  BY DEF Restrict, IsNode
<1>3. Cardinality({} \cap PinnedBucket(nd, t)) = 0
  <2>1. {} \cap PinnedBucket(nd, t) = {}
    OBVIOUS
  <2> QED
    BY <2>1, FS_EmptySet
<1>4. nd.pinnedEvictions + 0 = nd.pinnedEvictions
  BY DEF IsNode
<1>5. Evicted(nd, t, {}) = [cache |-> nd.cache, mark |-> nd.mark,
                            pinnedEvictions |-> nd.pinnedEvictions, busyUntil |-> nd.busyUntil]
  BY <1>1, <1>2, <1>3, <1>4, Zenon DEF Evicted
<1> QED
  BY <1>5, Zenon DEF IsNode

\* The loop evicts what Node describes.
LEMMA EvictDownEvicts ==
    ASSUME NEW nd, IsScanNode(nd), IsNode(Bar(nd)), NEW t \in Nat
    PROVE  /\ IsScanNode(EvictDown(nd, t))
           /\ \E V \in VictimSets(Bar(nd), t) : Bar(EvictDown(nd, t)) = Evicted(Bar(nd), t, V)
<1>1. PICK n : n = Len(nd.cache)
  OBVIOUS
<1>2. n \in Nat /\ Distinct(nd.cache)
  BY <1>1 DEF IsScanNode, Distinct
<1>3. PICK after :
        /\ after[0] = nd
        /\ \A k \in 1..n : after[k] = EvictTurn(after[k - 1], t)
        /\ EvictDown(nd, t) = after[n]
  <2>1. PICK after : EvictRun(after, nd, n, t)
    BY <1>1, <1>2, EvictTurns
  <2> QED
    BY <2>1, Zenon DEF EvictRun
<1>4. PICK over : over = Overflow(Bar(nd))
  OBVIOUS
<1>5. over \in Nat /\ over <= n
  <2>1. Resident(Bar(nd)) = Range(nd.cache)
    BY Buckets
  <2>2. Cardinality(Range(nd.cache)) = n
    BY <1>1, <1>2, KeyCount
  <2>3. over = MaxOf(0, n - Capacity)
    BY <1>4, <2>1, <2>2, Zenon DEF Overflow
  <2> QED
    BY <1>2, <2>3, CapacityIsNat DEF MaxOf
<1> DEFINE Bad == {k \in 0..n : ~ \E V : EvictedSoFar(nd, t, after[k], k, V)}
<1>6. Bad = {}
  <2> SUFFICES ASSUME Bad # {} PROVE FALSE
    OBVIOUS
  <2>1. Bad \in SUBSET Nat
    OBVIOUS
  <2>2. PICK k \in Bad : \A i \in Bad : k <= i
    BY <2>1, LeastOf
  <2>3. EvictedSoFar(nd, t, nd, 0, {})
    <3>1. Bar(nd) = Evicted(Bar(nd), t, {})
      BY EvictedNone
    <3>2. Cardinality({}) = MinOf(0, over)
      BY <1>5, FS_EmptySet DEF MinOf
    <3> QED
      BY <1>4, <3>1, <3>2 DEF EvictedSoFar
  <2>4. k # 0
    BY <1>3, <2>2, <2>3
  <2>5. k \in 1..n /\ k \in Nat \ {0} /\ k - 1 \in 0..n /\ k - 1 \notin Bad
    BY <1>2, <2>2, <2>4
  <2>6. PICK V : EvictedSoFar(nd, t, after[k - 1], k - 1, V)
    BY <2>5
  <2>7. after[k] = EvictTurn(after[k - 1], t)
    BY <1>3, <2>5
  <2>8. \E W : EvictedSoFar(nd, t, after[k], k, W)
    BY <2>5, <2>6, <2>7, EvictOneMore
  <2> QED
    BY <2>2, <2>8
<1>7. PICK V : EvictedSoFar(nd, t, after[n], n, V)
  BY <1>2, <1>6
<1>8. IsScanNode(after[n]) /\ Bar(after[n]) = Evicted(Bar(nd), t, V)
  BY <1>7 DEF EvictedSoFar
<1>9. V \in VictimSets(Bar(nd), t)
  <2>1. MinOf(n, over) = over
    BY <1>2, <1>5 DEF MinOf
  <2> QED
    BY <1>4, <1>7, <2>1 DEF EvictedSoFar, VictimSets
<1> QED
  BY <1>3, <1>8, <1>9

-----------------------------------------------------------------------------
(* The code's node is Node's *)

\* The inductive invariant: the dict has no key twice, the side tables are in step, and the
\* node they stand for is Node's.
ScanInv == IsScanNode(scan) /\ Bar(scan) = node

LEMMA ScanAdmitIsAdmit ==
    ASSUME TypeOK, ScanInv, NEW arrival \in now..MaxTime, NEW service \in Service,
           NEW req \in Request, NEW retainUntil \in Nat, NEW prio \in Priority,
           ScanAdmit(arrival, service, req, retainUntil, prio)
    PROVE  ScanInv'
<1>1. PICK old : old = scan
  OBVIOUS
<1>2. PICK queued : queued = [old EXCEPT !.busyUntil = MaxOf(arrival, @) + service]
  OBVIOUS
<1>3. PICK d : d = Directive(arrival, retainUntil, prio)
  OBVIOUS
<1>4. PICK seated : seated = SeatAll(queued, req, d)
  OBVIOUS
<1>5. PICK full : full = Seated(node, arrival, service, req, retainUntil, prio)
  OBVIOUS
<1>6. PICK left : left = EvictDown(seated, arrival)
  OBVIOUS
<1>7. /\ arrival \in Nat /\ service \in Nat /\ prio \in Int \cup {NoPriority}
      /\ IsNode(node)
  BY TimesAreNat, PriorityIsArgument DEF TypeOK
<1>8. IsScanNode(old) /\ Bar(old) = node
  BY <1>1 DEF ScanInv
<1>9. /\ IsScanNode(queued)
      /\ queued.cache = old.cache /\ queued.priority = old.priority
      /\ queued.expiry = old.expiry /\ queued.pinnedEvictions = old.pinnedEvictions
      /\ queued.busyUntil = MaxOf(arrival, old.busyUntil) + service
  BY <1>2, <1>8 DEF IsScanNode
<1>10. d \in Marks \cup {NoMark}
  BY <1>3, <1>7, DirectiveIsMark
<1>11. /\ IsScanNode(seated)
       /\ Order(seated.cache) = Touched(Order(queued.cache), req)
       /\ Table(seated) = Marked(Table(queued), req, d)
       /\ seated.pinnedEvictions = queued.pinnedEvictions
       /\ seated.busyUntil = queued.busyUntil
  BY <1>4, <1>9, <1>10, SeatedIsTouched
<1>12. Bar(seated) = full
  <2>1. /\ node.cache = Order(old.cache) /\ node.mark = Table(old)
        /\ node.pinnedEvictions = old.pinnedEvictions /\ node.busyUntil = old.busyUntil
    BY <1>8 DEF Bar
  <2>2. Table(queued) = Table(old)
    BY <1>9, Zenon DEF Table
  <2>3. Bar(seated) = [cache |-> Touched(node.cache, req), mark |-> Marked(node.mark, req, d),
                       pinnedEvictions |-> node.pinnedEvictions,
                       busyUntil |-> MaxOf(arrival, node.busyUntil) + service]
    BY <1>9, <1>11, <2>1, <2>2, Zenon DEF Bar
  <2> QED
    BY <1>3, <1>5, <2>3, Zenon DEF Seated
<1>13. IsNode(full)
  BY <1>5, <1>7, SeatedIsNode
<1>14. /\ IsScanNode(left)
       /\ \E V \in VictimSets(full, arrival) : Bar(left) = Evicted(full, arrival, V)
  BY <1>6, <1>7, <1>11, <1>12, <1>13, EvictDownEvicts
<1>15. \E V \in VictimSets(full, arrival) : node' = Evicted(full, arrival, V)
  BY <1>5 DEF ScanAdmit, Admit, Admitted
<1>16. Bar(left) = node'
  BY <1>13, <1>14, <1>15, OneVictimSet
<1>17. scan' = left
  BY <1>1, <1>2, <1>3, <1>4, <1>6 DEF ScanAdmit
<1>18. IsScanNode(scan') /\ Bar(scan') = node'
  BY <1>14, <1>16, <1>17, Zenon
<1> QED
  BY <1>18 DEF ScanInv, Bar, Order, Table, IsScanNode

LEMMA ScanInitInv == ScanInit => Init /\ ScanInv
<1> SUFFICES ASSUME ScanInit PROVE Init /\ ScanInv
  OBVIOUS
<1>1. PICK nd : nd = scan
  OBVIOUS
<1>2. /\ nd = [cache |-> <<>>, priority |-> << >>, expiry |-> << >>,
               pinnedEvictions |-> 0, busyUntil |-> 0]
      /\ Init /\ node = EmptyNode
  BY <1>1 DEF ScanInit, Init
<1>3. DOMAIN << >> = {} /\ Range(<< >>) = {}
  BY DEF Range
<1>4. /\ nd.cache = << >> /\ nd.priority = << >> /\ nd.expiry = << >>
      /\ nd.pinnedEvictions = 0 /\ nd.busyUntil = 0
  BY <1>2
<1>5. IsScanNode(nd)
  <2>1. Distinct(<< >>)
    BY <1>3 DEF Distinct
  <2>2. << >> = [b \in {} |-> << >>[b]]
    OBVIOUS
  <2> QED
    BY <1>2, <1>3, <1>4, <2>1, <2>2 DEF IsScanNode
<1>6. Bar(nd) = EmptyNode
  <2>1. Order(nd.cache) = NoBlocks
    BY <1>3, <1>4 DEF Order, NoBlocks
  <2>2. Table(nd) = [b \in {} |-> NoMark]
    BY <1>3, <1>4 DEF Table
  <2> QED
    BY <1>4, <2>1, <2>2, Zenon DEF Bar, EmptyNode
<1> QED
  BY <1>1, <1>2, <1>5, <1>6, Zenon DEF ScanInv

\* A step of the code's node is a step of Node.
LEMMA ScanStep ==
    ASSUME TypeOK, ScanInv, [ScanNext]_scanVars
    PROVE  [Next]_vars /\ ScanInv'
<1>1. CASE ScanNext
  <2>1. PICK arrival \in now..MaxTime, service \in Service, req \in Request,
             window \in Window, prio \in Priority :
               ScanAdmit(arrival, service, req, arrival + window, prio)
    BY <1>1 DEF ScanNext
  <2>2. arrival + window \in Nat
    BY TimesAreNat DEF TypeOK
  <2>3. ScanInv'
    BY <2>1, <2>2, ScanAdmitIsAdmit
  <2>4. Admit(arrival, service, req, arrival + window, prio)
    BY <2>1 DEF ScanAdmit
  <2> QED
    BY <2>3, <2>4 DEF Next
<1>2. CASE UNCHANGED scanVars
  BY <1>2 DEF scanVars, vars, ScanInv, Bar, Order, Table, IsScanNode
<1> QED
  BY <1>1, <1>2

\* Node.admit's scan (_pick_victim) with its accumulators and its fast path, one victim at a
\* time, evicts exactly the blocks that come first in the order Node states, counts the same
\* pins and keeps the side tables _priority and _expiry in step, whatever the capacity, the
\* request and the directives.
THEOREM ScanIsNode == ScanSpec => []ScanImplementsNode
<1>1. ScanInit => TypeOK /\ ScanInv
  BY ScanInitInv, InitTypeOK
<1>2. TypeOK /\ ScanInv /\ [ScanNext]_scanVars => TypeOK' /\ ScanInv'
  BY ScanStep, NextTypeOK
<1>3. ScanInv => ScanImplementsNode
  <2> SUFFICES ASSUME ScanInv PROVE ScanImplementsNode
    OBVIOUS
  <2>1. NodeBar = Bar(scan)
    BY DEF NodeBar, Bar, Order, Table
  <2>2. DOMAIN scan.expiry = DOMAIN scan.priority
    BY DEF ScanInv, IsScanNode
  <2> QED
    BY <2>1, <2>2 DEF ScanInv, ScanImplementsNode
<1> QED
  BY <1>1, <1>2, <1>3, PTL DEF ScanSpec

\* The code's node takes no step that Node does not describe: whatever is proved of Spec
\* (capacity, leases, the order of eviction) holds of the scan, too.
THEOREM ScanIsSpec == ScanSpec => Spec
<1>1. ScanInit => Init /\ TypeOK /\ ScanInv
  BY ScanInitInv, InitTypeOK
<1>2. TypeOK /\ ScanInv /\ [ScanNext]_scanVars => [Next]_vars /\ TypeOK' /\ ScanInv'
  BY ScanStep, NextTypeOK
<1> QED
  BY <1>1, <1>2, PTL DEF ScanSpec, Spec
=============================================================================
