-------------------------------- MODULE LRU --------------------------------
(***************************************************************************)
(* A bounded cache that forgets its least recently used blocks: what a     *)
(* node's KV cache promises to be when no request carries a retention      *)
(* directive (node.py: "a workload that never sets a directive is plain    *)
(* LRU"), and what the router's shadow index of a node is (policies.py,    *)
(* _RouterIndex).                                                          *)
(***************************************************************************)
EXTENDS Recency

CONSTANT Capacity    \* how many blocks stay resident

VARIABLE cache

Init == cache = NoBlocks

Touch(req) == cache' = LRUTouched(cache, req, Capacity)

Next == \E req \in Request : Touch(req)

Spec == Init /\ [][Next]_cache
=============================================================================
