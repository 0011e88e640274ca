------------------------------ MODULE LRUOrder ------------------------------
(***************************************************************************)
(* The recency order of a table used as an LRU (the OrderedDict of         *)
(* node.py's _cache and policies.py's _RouterIndex and tables of gaps,     *)
(* the map and list of the gateway plugin's): a function from each key to  *)
(* the keys less recently used than it.  The first key of the dict, or     *)
(* front of the list, is the one mapped to {}.                             *)
(***************************************************************************)
EXTENDS Integers, FiniteSets, Sequences, Functions

NoBlocks == [b \in {} |-> {}]

\* The blocks of req in front of b: inserted just before it.
InFrontOf(req, b) ==
    {req[i] : i \in {k \in DOMAIN req : \E j \in DOMAIN req : k < j /\ req[j] = b}}

\* A faulty Touched: a block that is already resident keeps its old place (no pop).
TouchedWithoutPop(order, req) ==
    [b \in DOMAIN order \cup Range(req) |->
        IF b \in DOMAIN order THEN order[b] ELSE DOMAIN order \cup InFrontOf(req, b)]

\* Pop and reinsert every block of req in turn: they become the most recent, in order.
Touched(order, req) ==
    LET untouched == DOMAIN order \ Range(req)
    IN  [b \in untouched \cup Range(req) |->
            IF b \in untouched THEN order[b] \ Range(req)
                               ELSE untouched \cup InFrontOf(req, b)]

\* The order once only the blocks of S are left.
Kept(order, S) == [b \in S |-> order[b] \cap S]

NewerThan(order, b) == {x \in DOMAIN order : b \in order[x]}

\* The blocks that fewer than capacity others are more recent than.
MostRecent(order, capacity) ==
    {b \in DOMAIN order : Cardinality(NewerThan(order, b)) < capacity}

\* A faulty LRUTouched: what is already held is not moved to the recent end.
LRUTouchedInPlace(order, req, capacity) ==
    LET touched == TouchedWithoutPop(order, req)
    IN  Kept(touched, MostRecent(touched, capacity))

\* Touch the blocks of req and drop the oldest past capacity.
LRUTouched(order, req, capacity) ==
    LET touched == Touched(order, req)
    IN  Kept(touched, MostRecent(touched, capacity))

\* order is a strict total order on its keys.
IsOrder(order) ==
    /\ order \in [DOMAIN order -> SUBSET DOMAIN order]
    /\ \A a, b \in DOMAIN order : a \in order[b] => b \notin order[a] /\ order[a] \subseteq order[b]
    /\ \A a, b \in DOMAIN order : a = b \/ a \in order[b] \/ b \in order[a]
=============================================================================
