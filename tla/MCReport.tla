------------------------------ MODULE MCReport ------------------------------
(* Two routes over two replicas, the first of which may have counted        *)
(* something that was not scraped before the report began.                  *)
EXTENDS Report, TLC

CONSTANTS a, b

MCCompare == <<"round-robin", "prefix-affinity">>
MCHit == [hits |-> 1, queries |-> 1, evictions |-> 0]
MCMiss == [hits |-> 0, queries |-> 1, evictions |-> 1]
MCWork == {MCHit, MCMiss}
MCEarlier == {Zero, MCHit}

MCSymmetry == Permutations({a, b})
=============================================================================
