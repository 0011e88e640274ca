------------------------------ MODULE KVCache ------------------------------
(***************************************************************************)
(* What one admission does to a simulated node (src/bench/sim/node.py,     *)
(* class Node): operators on a node's state, used by the modules that      *)
(* drive nodes.                                                            *)
(*                                                                         *)
(* A node is a record                                                      *)
(*    cache            the resident blocks with their recency order       *)
(*    mark             [block -> [prio, expiry]] for the marked blocks     *)
(*                     (the side tables _priority and _expiry, always      *)
(*                     written together)                                   *)
(*    pinnedEvictions  live marks sacrificed so far                        *)
(*    busyUntil        when the single server is next free                 *)
(***************************************************************************)
EXTENDS Recency

CONSTANTS
    Capacity,    \* cache_capacity, in blocks
    Forever,     \* float("inf"), the expiry of a persistent mark
    NoPriority   \* Python's None in place of a priority

ASSUME CapacityIsNat == Capacity \in Nat
ASSUME ForeverIsNoTime == Forever \notin Int
ASSUME NoPriorityIsNone == NoPriority \notin Int

EVICT_FIRST == -1
HIGH == 50
PINNED == 100

MaxOf(a, b) == IF a >= b THEN a ELSE b
MinOf(a, b) == IF a <= b THEN a ELSE b

-----------------------------------------------------------------------------
(* Retention directives *)

\* A faulty clamp: nothing caps a priority from above.
ClampBelowOnly(prio) == MaxOf(EVICT_FIRST, prio)

ClampPriority(prio) == MaxOf(EVICT_FIRST, MinOf(PINNED, prio))

\* An expiry still ahead of time t, and one expiry before another.
Later(expiry, t) == expiry = Forever \/ expiry > t
Sooner(e, f) == e # Forever /\ Later(f, e)

NoMark == [prio |-> NoPriority, expiry |-> 0]

\* The mark an admission leaves on its blocks; NoMark clears them.
Directive(now, retainUntil, prio) ==
    IF prio = NoPriority
    THEN IF retainUntil > now THEN [prio |-> HIGH, expiry |-> retainUntil] ELSE NoMark
    ELSE [prio   |-> ClampPriority(prio),
          expiry |-> IF retainUntil > now THEN retainUntil ELSE Forever]

Marks == [prio : EVICT_FIRST..PINNED, expiry : Nat \cup {Forever}]

Resident(nd) == DOMAIN nd.cache

\* A faulty Marked: an unmarked admission leaves the marks of its blocks alone.
MarkedNeverCleared(mark, req, d) ==
    IF d = NoMark THEN mark
    ELSE [b \in DOMAIN mark \cup Range(req) |-> IF b \in Range(req) THEN d ELSE mark[b]]

Marked(mark, req, d) ==
    IF d = NoMark
    THEN Restrict(mark, DOMAIN mark \ Range(req))
    ELSE [b \in DOMAIN mark \cup Range(req) |-> IF b \in Range(req) THEN d ELSE mark[b]]

-----------------------------------------------------------------------------
(* Eviction *)

\* A faulty Live: a mark counts for one instant longer than its lease.
LiveAtExpiry(nd, now, b) == b \in DOMAIN nd.mark /\ Later(nd.mark[b].expiry, now - 1)

Live(nd, now, b) == b \in DOMAIN nd.mark /\ Later(nd.mark[b].expiry, now)

\* _pick_victim's three buckets, the first to be drained lowest.
EvictFirstBucket(nd, now) == {b \in Resident(nd) : Live(nd, now, b) /\ nd.mark[b].prio < 0}
PinnedBucket(nd, now)     == {b \in Resident(nd) : Live(nd, now, b) /\ ~(nd.mark[b].prio < 0)}
UnmarkedBucket(nd, now)   == {b \in Resident(nd) : ~Live(nd, now, b)}

\* Lowest priority, then soonest expiring, then least recently used.
WeakerPin(nd, a, b) ==
    \/ nd.mark[a].prio < nd.mark[b].prio
    \/ nd.mark[a].prio = nd.mark[b].prio /\ Sooner(nd.mark[a].expiry, nd.mark[b].expiry)
    \/ nd.mark[a] = nd.mark[b] /\ a \in nd.cache[b]

\* Faulty victim orders: the unmarked bucket drained first, or from its newest end.
UnmarkedBeforeEvictFirst(nd, now, a, b) ==
    \/ a \in UnmarkedBucket(nd, now) /\ b \notin UnmarkedBucket(nd, now)
    \/ a \notin PinnedBucket(nd, now) /\ b \in PinnedBucket(nd, now)
    \/ {a, b} \subseteq EvictFirstBucket(nd, now) /\ a \in nd.cache[b]
    \/ {a, b} \subseteq UnmarkedBucket(nd, now) /\ a \in nd.cache[b]
    \/ {a, b} \subseteq PinnedBucket(nd, now) /\ WeakerPin(nd, a, b)
NewestUnmarkedFirst(nd, now, a, b) ==
    \/ a \in EvictFirstBucket(nd, now) /\ b \notin EvictFirstBucket(nd, now)
    \/ a \notin PinnedBucket(nd, now) /\ b \in PinnedBucket(nd, now)
    \/ {a, b} \subseteq EvictFirstBucket(nd, now) /\ a \in nd.cache[b]
    \/ {a, b} \subseteq UnmarkedBucket(nd, now) /\ b \in nd.cache[a]
    \/ {a, b} \subseteq PinnedBucket(nd, now) /\ WeakerPin(nd, a, b)

\* _pick_victim takes a rather than b.
EvictedBefore(nd, now, a, b) ==
    \/ a \in EvictFirstBucket(nd, now) /\ b \notin EvictFirstBucket(nd, now)
    \/ a \notin PinnedBucket(nd, now) /\ b \in PinnedBucket(nd, now)
    \/ {a, b} \subseteq EvictFirstBucket(nd, now) /\ a \in nd.cache[b]
    \/ {a, b} \subseteq UnmarkedBucket(nd, now) /\ a \in nd.cache[b]
    \/ {a, b} \subseteq PinnedBucket(nd, now) /\ WeakerPin(nd, a, b)

\* A faulty loop bound: one turn too many.
OverflowPlus1(nd) ==
    IF Cardinality(Resident(nd)) > Capacity THEN Cardinality(Resident(nd)) - Capacity + 1 ELSE 0

Overflow(nd) == MaxOf(0, Cardinality(Resident(nd)) - Capacity)

\* What the loop "while over capacity, evict the victim" removes: the Overflow blocks that
\* go before all the others, a single set because the order is total.
VictimSets(nd, now) ==
    {V \in SUBSET Resident(nd) :
        /\ Cardinality(V) = Overflow(nd)
        /\ \A v \in V, s \in Resident(nd) \ V : EvictedBefore(nd, now, v, s)}

\* A faulty Evicted: the pressure is recorded once per admission, not once per pin.
EvictedCountedOnce(nd, now, V) ==
    [cache           |-> Kept(nd.cache, Resident(nd) \ V),
     mark            |-> Restrict(nd.mark, DOMAIN nd.mark \ V),
     pinnedEvictions |-> nd.pinnedEvictions
                           + MinOf(1, Cardinality(V \cap PinnedBucket(nd, now))),
     busyUntil       |-> nd.busyUntil]

Evicted(nd, now, V) ==
    [cache           |-> Kept(nd.cache, Resident(nd) \ V),
     mark            |-> Restrict(nd.mark, DOMAIN nd.mark \ V),
     pinnedEvictions |-> nd.pinnedEvictions + Cardinality(V \cap PinnedBucket(nd, now)),
     busyUntil       |-> nd.busyUntil]

-----------------------------------------------------------------------------
(* Admission *)

\* The shape of a node's state.
IsNode(nd) ==
    /\ IsRecency(nd.cache)
    /\ nd.mark \in [DOMAIN nd.mark -> Marks]
    /\ nd.pinnedEvictions \in Nat
    /\ nd.busyUntil \in Nat
    /\ nd = [cache |-> nd.cache, mark |-> nd.mark,
             pinnedEvictions |-> nd.pinnedEvictions, busyUntil |-> nd.busyUntil]

EmptyNode == [cache |-> NoBlocks, mark |-> [b \in {} |-> NoMark],
              pinnedEvictions |-> 0, busyUntil |-> 0]

Seated(nd, now, service, req, retainUntil, prio) ==
    [cache           |-> Touched(nd.cache, req),
     mark            |-> Marked(nd.mark, req, Directive(now, retainUntil, prio)),
     pinnedEvictions |-> nd.pinnedEvictions,
     busyUntil       |-> MaxOf(now, nd.busyUntil) + service]

\* The node after Node.admit (a singleton).
Admitted(nd, now, service, req, retainUntil, prio) ==
    LET full == Seated(nd, now, service, req, retainUntil, prio)
    IN  {Evicted(full, now, V) : V \in VictimSets(full, now)}

Wait(nd, now) == MaxOf(0, nd.busyUntil - now)
=============================================================================
