------------------------------ MODULE Recency ------------------------------
(***************************************************************************)
(* The blocks a cache or an index of one may hold, and the prefixes by     *)
(* which requests name them (blocks.py).                                   *)
(***************************************************************************)
EXTENDS LRUOrder

CONSTANTS
    Block,      \* block hashes
    Request     \* the block lists a request may carry, head block first

ASSUME BlockFinite == IsFiniteSet(Block)
\* blocks.py chains hashes, so a request never names one block twice
ASSUME RequestIsChain ==
    /\ Request \subseteq Seq(Block)
    /\ \A req \in Request : \A i, j \in DOMAIN req : req[i] = req[j] => i = j

\* matched_prefix: the length of the leading run of req that is in blocks.
MatchedPrefix(req, blocks) ==
    Cardinality({i \in DOMAIN req : \A j \in 1..i : req[j] \in blocks})

\* order is the recency order of some blocks.
IsRecency(order) == DOMAIN order \subseteq Block /\ IsOrder(order)
=============================================================================
