------------------------------ MODULE Policies ------------------------------
(***************************************************************************)
(* The routing policies (src/bench/sim/policies.py) as functions of what   *)
(* they may look at: the request's blocks and observables, the nodes, the  *)
(* clock and the policy's own state.  A policy answers with a placement:   *)
(* where, whether to transfer, and the retention directive.  The predicted *)
(* TTFT and regime it also returns are recomputed by the engine.           *)
(*                                                                         *)
(* Node clocks, prices and leases are in 1/Scale of a time unit, so that   *)
(* the estimates of GapTables need no rounding.                            *)
(***************************************************************************)
EXTENDS Cost, GapTables, Rounding

CONSTANTS
    NominalTokens,     \* the 40 of _nominal_service
    SaturationDepth,   \* DEFAULT_SATURATION_DEPTH
    PrefixWeight, LoadWeight

ASSUME PolicyParametersAreNat ==
    /\ NominalTokens \in Nat /\ SaturationDepth \in Nat
    /\ PrefixWeight \in Nat /\ LoadWeight \in Nat

To(n, transfer) ==
    [node |-> n, transfer |-> transfer, retain_until |-> 0, priority |-> NoPriority]

-----------------------------------------------------------------------------
(* The coarse load signal *)

NominalService == PrefillFixed + InterToken * NominalTokens

\* A faulty QuantizedWait: a number of requests, used as a time.
QuantizedInRequests(nd, now) ==
    IF NominalService > 0 THEN Rounded(Wait(nd, now), NominalService) ELSE Wait(nd, now)

QuantizedWait(nd, now) ==
    IF NominalService > 0
    THEN Rounded(Wait(nd, now), NominalService) * NominalService
    ELSE Wait(nd, now)

SaturationLimit == SaturationDepth * NominalService

-----------------------------------------------------------------------------
(* The policies *)

round_robin(next) == To(next % NumNodes, FALSE)

cache_local(req, nodes) == To(hot_node(req, nodes), FALSE)

oracle(req, nodes, now) ==
    LET best == best_placement(req, nodes, now) IN To(best.node, best.transfer)

transfer_aware(req, nodes, now) ==
    LET hot == hot_node(req, nodes)
        Scored(c) ==
            [predict(req, nodes, hot, c[1], now, c[2]) EXCEPT
                !.ttft = @ - Wait(nodes[c[1]], now) + QuantizedWait(nodes[c[1]], now)]
        best == Argmin({Scored(c) : c \in Arms(hot)})
    IN  To(best.node, best.transfer)

\* The least loaded node, ties to the lowest id.
least_loaded(nodes, now) ==
    LET Lighter(b, n) ==
            \/ QuantizedWait(nodes[b], now) < QuantizedWait(nodes[n], now)
            \/ QuantizedWait(nodes[b], now) = QuantizedWait(nodes[n], now) /\ b <= n
    IN  To(CHOOSE b \in NodeId : \A n \in NodeId : Lighter(b, n), FALSE)

\* A faulty Candidates: nothing is filtered.
CandidatesAll(nodes, now) == NodeId

\* The saturation filter.
Candidates(nodes, now) ==
    LET spare == {n \in NodeId : QuantizedWait(nodes[n], now) <= SaturationLimit}
    IN  IF spare = {} THEN NodeId ELSE spare

\* The scores of the candidates, all multiplied by Len(req) and by the spread of their waits
\* (with no spread every load score is 1, and drops out).  held says how many prefix blocks
\* the scorer believes each node has.
weighted(req, nodes, now, held) ==
    LET candidates == Candidates(nodes, now)
        wait == [n \in candidates |-> QuantizedWait(nodes[n], now)]
        longest == Max(Range(wait))
        spread == MaxOf(1, longest - Min(Range(wait)))
        Score(n) == PrefixWeight * held[n] * spread
                      + LoadWeight * MaxOf(1, Len(req)) * (longest - wait[n])
        Beaten(n, b) == Score(n) < Score(b) \/ (Score(n) = Score(b) /\ b <= n)
    IN  To(CHOOSE b \in candidates : \A n \in candidates : Beaten(n, b), FALSE)

\* A warm document prefix on a node that is not saturated.
DocumentIsWarm(req, nodes, now) ==
    LET hot == hot_node(req, nodes)
    IN  matched(req, nodes[hot]) > 0 /\ QuantizedWait(nodes[hot], now) <= SaturationLimit

class_aware(kind, req, nodes, now) ==
    IF kind = "oneshot" THEN least_loaded(nodes, now)
    ELSE IF kind = "rag" /\ DocumentIsWarm(req, nodes, now) THEN cache_local(req, nodes)
    ELSE transfer_aware(req, nodes, now)

\* Faulty directives: a lease that starts at time zero; one-shots that are left unmarked.
RetainedFromZero(place, kind, estimate, now) ==
    IF kind = "oneshot" THEN [place EXCEPT !.priority = EVICT_FIRST]
    ELSE IF kind = "tool" /\ WorthPinning(estimate)
    THEN [place EXCEPT !.retain_until = LeaseWindow(estimate), !.priority = HIGH]
    ELSE place
RetainedUnmarked(place, kind, estimate, now) ==
    IF kind = "tool" /\ WorthPinning(estimate)
    THEN [place EXCEPT !.retain_until = now + LeaseWindow(estimate), !.priority = HIGH]
    ELSE place

\* The directive ClassAwareReliability puts on top of class_aware's placement.
Retained(place, kind, estimate, now) ==
    IF kind = "oneshot" THEN [place EXCEPT !.priority = EVICT_FIRST]
    ELSE IF kind = "tool" /\ WorthPinning(estimate)
    THEN [place EXCEPT !.retain_until = now + LeaseWindow(estimate), !.priority = HIGH]
    ELSE place
=============================================================================
