----------------------------- MODULE BeliefIndex -----------------------------
(***************************************************************************)
(* The shadow index of the approximate prefix scorer: _RouterIndex of      *)
(* bench/sim/policies.py keeps, per node, an LRU of the blocks it has      *)
(* routed there.                                                           *)
(***************************************************************************)
EXTENDS Recency

CONSTANT BeliefCapacity   \* of the index, per node (index_capacity)

ASSUME BeliefCapacityIsNat == BeliefCapacity \in Nat

\* A faulty record: the index has lost track of the blocks it already believed in.
recordInPlace(order, req) == LRUTouchedInPlace(order, req, BeliefCapacity)

record(order, req) == LRUTouched(order, req, BeliefCapacity)
=============================================================================
