----------------------------- MODULE RouterIndex -----------------------------
(***************************************************************************)
(* What the approximate prefix scorer believes and what is true:           *)
(* _RouterIndex of bench/sim/policies.py records every routing decision    *)
(* of WeightedScorers in an LRU of its own per node and never sees what    *)
(* the nodes evict.  No directive is set under this policy, so each node   *)
(* is the plain LRU cache of module LRU (CacheProofs, PlainIsLRU).  Which   *)
(* node a request goes to is left open.                                    *)
(***************************************************************************)
EXTENDS KVCache, BeliefIndex

CONSTANT NodeId

VARIABLES
    believed,   \* the index: one recency order per node
    resident    \* the caches: one recency order per node

beliefVars == <<believed, resident>>

BeliefInit ==
    /\ believed = [n \in NodeId |-> NoBlocks]
    /\ resident = [n \in NodeId |-> NoBlocks]

\* WeightedScorers.__call__ records its choice; then run_simulation admits the request there.
Route(n, req) ==
    /\ believed' = [believed EXCEPT ![n] = record(@, req)]
    /\ resident' = [resident EXCEPT ![n] = LRUTouched(@, req, Capacity)]

BeliefNext == \E n \in NodeId, req \in Request : Route(n, req)

BeliefSpec == BeliefInit /\ [][BeliefNext]_beliefVars

-----------------------------------------------------------------------------

\* The index and the caches are recency orders.
BeliefTypeOK ==
    /\ DOMAIN believed = NodeId /\ DOMAIN resident = NodeId
    /\ \A n \in NodeId : IsRecency(believed[n]) /\ IsRecency(resident[n])

\* The narrower of the two LRUs always holds exactly the most recent blocks of the wider
\* one: beliefs differ from the truth by capacity only, never by what was evicted when.
BeliefIsTruncation ==
    \A n \in NodeId :
        /\ BeliefCapacity <= Capacity
             => believed[n] = Kept(resident[n], MostRecent(resident[n], BeliefCapacity))
        /\ Capacity <= BeliefCapacity
             => resident[n] = Kept(believed[n], MostRecent(believed[n], Capacity))

\* An index no wider than the caches -- the defaults are 2048 blocks for both -- never
\* believes in a prefix block that was evicted.
NeverOverestimates ==
    BeliefCapacity <= Capacity
      => \A n \in NodeId, req \in Request :
            MatchedPrefix(req, DOMAIN believed[n]) <= MatchedPrefix(req, DOMAIN resident[n])

\* An index no narrower than the caches never misses a resident prefix block.
NeverUnderestimates ==
    Capacity <= BeliefCapacity
      => \A n \in NodeId, req \in Request :
            MatchedPrefix(req, DOMAIN resident[n]) <= MatchedPrefix(req, DOMAIN believed[n])
=============================================================================
