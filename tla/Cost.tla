-------------------------------- MODULE Cost --------------------------------
(***************************************************************************)
(* The routing cost model (src/bench/sim/cost.py): the predicted time to   *)
(* first token of a request on a node, and the placement that minimises    *)
(* it.  Time is an integer; the code's floats are these prices up to       *)
(* rounding.  Nodes are numbered 0..NumNodes-1 and hold KVCache records.   *)
(***************************************************************************)
EXTENDS KVCache

CONSTANTS
    NumNodes,
    BlockPrefill,    \* block_size * prefill_per_token
    PrefillFixed,    \* prefill_fixed
    BlockTransfer,   \* block_kv_bytes / bandwidth
    LinkLatency,     \* link_latency
    InterToken       \* inter_token

ASSUME NumNodesIsPositive == NumNodes \in Nat \ {0}
ASSUME PricesAreNat ==
    /\ BlockPrefill \in Nat /\ PrefillFixed \in Nat /\ BlockTransfer \in Nat
    /\ LinkLatency \in Nat /\ InterToken \in Nat

NodeId == 0..(NumNodes - 1)

transfer_time(blocks) == IF blocks <= 0 THEN 0 ELSE blocks * BlockTransfer + LinkLatency
prefill_time(missing) == missing * BlockPrefill + PrefillFixed

matched(req, nd) == MatchedPrefix(req, Resident(nd))

\* A faulty hot_node: ties go to the highest id.
HotNodeTiesHigh(req, nodes) ==
    CHOOSE h \in NodeId :
        \A n \in NodeId : \/ matched(req, nodes[n]) < matched(req, nodes[h])
                          \/ matched(req, nodes[n]) = matched(req, nodes[h]) /\ n <= h

\* The longest cached prefix, ties to the lowest id.
hot_node(req, nodes) ==
    CHOOSE h \in NodeId :
        \A n \in NodeId : \/ matched(req, nodes[n]) < matched(req, nodes[h])
                          \/ matched(req, nodes[n]) = matched(req, nodes[h]) /\ h <= n

\* Blocks copied from the hot node, and blocks that need no prefill.
Transferred(req, nodes, hot, n, transfer) ==
    IF transfer THEN MaxOf(0, matched(req, nodes[hot]) - matched(req, nodes[n])) ELSE 0
Reused(req, nodes, hot, n, transfer) ==
    matched(req, nodes[n]) + Transferred(req, nodes, hot, n, transfer)

Ttft(req, nodes, hot, n, now, transfer) ==
    LET sent == Transferred(req, nodes, hot, n, transfer)
    IN  Wait(nodes[n], now) + transfer_time(sent)
            + prefill_time(Len(req) - matched(req, nodes[n]) - sent)

RegimeOf(req, nodes, hot, n, transfer) ==
    IF Transferred(req, nodes, hot, n, transfer) > 0 THEN "transfer"
    ELSE IF n = hot /\ matched(req, nodes[n]) > 0 THEN "wait" ELSE "recompute"

predict(req, nodes, hot, n, now, transfer) ==
    [node |-> n, transfer |-> transfer, ttft |-> Ttft(req, nodes, hot, n, now, transfer)]

\* Python's order on (ttft, node_id, transfer), False before True.
Before(p, q) ==
    \/ p.ttft < q.ttft
    \/ p.ttft = q.ttft /\ p.node < q.node
    \/ p.ttft = q.ttft /\ p.node = q.node /\ (q.transfer \/ ~p.transfer)

Argmin(placements) == CHOOSE p \in placements : \A q \in placements : Before(p, q)

\* Every node with and without a transfer; the hot node has nobody to copy from.
Arms(hot) == {c \in NodeId \X BOOLEAN : c[2] => c[1] # hot}

\* A faulty best_placement: transfers are never considered.
BestWithoutTransfer(req, nodes, now) ==
    LET hot == hot_node(req, nodes)
    IN  Argmin({predict(req, nodes, hot, n, now, FALSE) : n \in NodeId})

best_placement(req, nodes, now) ==
    LET hot == hot_node(req, nodes)
    IN  Argmin({predict(req, nodes, hot, c[1], now, c[2]) : c \in Arms(hot)})
=============================================================================
