------------------------------- MODULE Belady -------------------------------
(***************************************************************************)
(* The reference node of oracle-belady (class BeladyNode of                *)
(* src/bench/sim/node.py) replaying a generated stream by itself: it       *)
(* knows the whole stream and evicts what is used again last.  The oracle  *)
(* sets no retention directive, so the node has no marks.                  *)
(***************************************************************************)
EXTENDS Workload

CONSTANT Capacity    \* cache_blocks

ASSUME CapacityIsNat == Capacity \in Nat

VARIABLES
    cache,   \* recency order of the resident blocks (see LRUOrder)
    at,      \* how many requests have been admitted: the index of the last
    hits     \* history: blocks that were resident when they were asked for

vars == <<workloadVars, cache, at, hits>>

BlocksOf(r) == Range(r.block_hashes)

R == INSTANCE LRUOrder

-----------------------------------------------------------------------------
\* _build_future_uses: the requests that name a block.
Uses(b) == {i \in DOMAIN requests : b \in BlocksOf(requests[i])}

Never == Len(requests) + 1    \* float("inf")

\* A faulty _next_use: the request being admitted counts as a later use (bisect_left).
UseAtOrAfter(b, i) == Min({j \in Uses(b) : j >= i} \cup {Never})

\* The first use after request i.
NextUse(b, i) == Min({j \in Uses(b) : j > i} \cup {Never})

\* A faulty victim order: ties go from the newest end.
NewestOfEquals(order, i, a, b) ==
    \/ NextUse(a, i) > NextUse(b, i)
    \/ NextUse(a, i) = NextUse(b, i) /\ b \in order[a]

\* _pick_victim takes a rather than b: furthest next use, the first in the scan of equals.
FurtherUse(order, i, a, b) ==
    \/ NextUse(a, i) > NextUse(b, i)
    \/ NextUse(a, i) = NextUse(b, i) /\ a \in order[b]

\* What is left once admit's loop has evicted down to capacity: the order is total.
Staying(order, i) ==
    {b \in DOMAIN order : Cardinality({x \in DOMAIN order : FurtherUse(order, i, b, x)}) < Capacity}

ReplayInit ==
    /\ Init
    /\ cache = R!NoBlocks
    /\ at = 0
    /\ hits = 0

Admit ==
    /\ sorted /\ at < Len(requests)
    /\ LET r == requests[at + 1]
           order == R!Touched(cache, r.block_hashes)
       IN  /\ cache' = R!Kept(order, Staying(order, at + 1))
           /\ hits' = hits + Cardinality(BlocksOf(r) \cap DOMAIN cache)
    /\ at' = at + 1
    /\ UNCHANGED workloadVars

Next == (Generate /\ UNCHANGED <<cache, at, hits>>) \/ Admit

Spec == ReplayInit /\ [][Next]_vars

-----------------------------------------------------------------------------
\* Every way of keeping at most Capacity blocks after each request, as sets of
\* [kept, hits]; keeping fewer than one may never helps.
Kept(ways, r) ==
    UNION {LET full == way.kept \cup BlocksOf(r)
               room == IF Cardinality(full) < Capacity THEN Cardinality(full) ELSE Capacity
           IN  {[kept |-> K, hits |-> way.hits + Cardinality(BlocksOf(r) \cap way.kept)] :
                    K \in kSubset(room, full)}
           : way \in ways}

\* The most hits there can be of the requests admitted so far.
BestHits ==
    LET ways[k \in 0..at] ==
            IF k = 0 THEN {[kept |-> {}, hits |-> 0]} ELSE Kept(ways[k - 1], requests[k])
    IN  Max({way.hits : way \in ways[at]})

\* node.py: "MIN optimality holds for a single reference stream and a single cache".  So it
\* does although requests bring many blocks at once, some that are evicted in the same step:
\* no way of evicting has had more block hits at any point of the stream.
MinIsOptimal == hits = BestHits

\* tests/test_sim.py, test_belady_evicts_like_lru_when_no_future_knowledge: when nothing in
\* the cache will be used again a step is one of plain LRU.
UnknownFutureIsLRU ==
    [][at' > at =>
         LET order == R!Touched(cache, requests[at'].block_hashes)
         IN  (\A b \in DOMAIN order : NextUse(b, at') = Never)
                => cache' = R!Kept(order, R!MostRecent(order, Capacity))]_vars
=============================================================================
