------------------------------- MODULE Cluster -------------------------------
(***************************************************************************)
(* run_simulation (src/bench/sim/engine.py): a stream of conversations'    *)
(* turns, routed one by one by one policy over simulated nodes, each       *)
(* charged its true cost and compared with the oracle on the same state.   *)
(*                                                                         *)
(* Script says what each conversation sends, turn by turn (workload.py);   *)
(* when its turns arrive among the others' is left open, within MaxTime.   *)
(* The lists of per-request results are kept by their last entries, and    *)
(* the per-class slices of the totals are left out.                        *)
(***************************************************************************)
EXTENDS Policies, BeliefIndex

CONSTANTS
    PolicyName,     \* the policies to run
    Conversation,   \* conversation ids
    Script,         \* conversation -> sequence of [blocks, messages, tool, gen]
    MaxTime

ASSUME ScriptsSendTurns ==
    Script \in [Conversation -> Seq([blocks : Request, messages : Seq(Message),
                                     tool : Tool \cup {NoTool}, gen : Nat])]
ASSUME MaxTimeIsNat == MaxTime \in Nat

VARIABLES
    policy,     \* the policy of this run
    nodes,      \* node id -> node (see KVCache)
    turn,       \* conversation -> turns already served
    now,        \* arrival of the last request
    next,       \* RoundRobin._next
    believed,   \* WeightedScorers._index, for the approximate scorer
    tracker, gaps,      \* ClassAwareReliability._last_seen and _index
    last_seen,          \* the engine's own last-seen table
    result              \* the totals and last entries of SimResult

vars == <<policy, nodes, turn, now, next, believed, tracker, gaps, last_seen, result>>

NothingServed ==
    [node |-> 0, transfer |-> FALSE, regime |-> "recompute", regret |-> 0, resident |-> 0,
     blocks |-> <<>>]

Init ==
    /\ policy \in PolicyName
    /\ nodes = [n \in NodeId |-> EmptyNode]
    /\ turn = [c \in Conversation |-> 0]
    /\ now = 0
    /\ next = 0
    /\ believed = [n \in NodeId |-> NoBlocks]
    /\ tracker = EmptyTable
    /\ gaps = EmptyTable
    /\ last_seen = EmptyTable
    /\ result = [coupled |-> 0, reused |-> 0, total |-> 0,
                 gap_by_tool |-> [t \in Tool |-> {}], last |-> NothingServed]

-----------------------------------------------------------------------------
(* One request *)

Sent(c) == Script[c][turn[c] + 1]

KindOf(c) == classify(RequestView(Sent(c).messages))

\* c's next turn may arrive at this time: after its previous one, among the others' in order.
Arrives(c, at) ==
    /\ turn[c] < Len(Script[c])
    /\ at >= now
    /\ Has(last_seen, c) => at > last_seen.val[c]

\* Every queue emptied, the caches kept.
Idle(clock) == [n \in NodeId |-> [nodes[n] EXCEPT !.busyUntil = clock]]

\* A faulty IsCoupled: the predicted time counts as part of the placement.
CoupledByTtft(req, clock) ==
    best_placement(req, nodes, clock) # best_placement(req, Idle(clock), clock)

IsCoupled(req, clock) ==
    LET loaded == best_placement(req, nodes, clock)
        idle == best_placement(req, Idle(clock), clock)
    IN  <<loaded.node, loaded.transfer>> # <<idle.node, idle.transfer>>

\* A faulty _resident: a transfer brings the whole hot prefix on top of what is there.
ResidentTwice(req, hot, n, transfer) ==
    matched(req, nodes[n]) + (IF transfer THEN matched(req, nodes[hot]) ELSE 0)

\* Blocks that need no prefill on n.
resident_blocks(req, hot, n, transfer) == Reused(req, nodes, hot, n, transfer)

\* One turn of the loop, for the placement the policy returned.
Serve(c, at, place) ==
    LET req == Sent(c).blocks
        clock == at * Scale
        hot == hot_node(req, nodes)
        n == place.node
        realized == Ttft(req, nodes, hot, n, clock, place.transfer)
        resident == resident_blocks(req, hot, n, place.transfer)
        service == prefill_time(Len(req) - resident) + Sent(c).gen * InterToken
        seen == Observed(last_seen, c, Sent(c).tool, at)
    IN  /\ \E nd \in Admitted(nodes[n], clock, service, req, place.retain_until, place.priority) :
              nodes' = [nodes EXCEPT ![n] = nd]
        /\ turn' = [turn EXCEPT ![c] = @ + 1]
        /\ now' = at
        /\ last_seen' = seen.tracker
        /\ result' =
             [coupled |-> result.coupled + IF IsCoupled(req, clock) THEN 1 ELSE 0,
              reused |-> result.reused + resident,
              total |-> result.total + Len(req),
              gap_by_tool |-> IF seen.learn
                              THEN [result.gap_by_tool EXCEPT ![Sent(c).tool] = @ \cup {seen.gap}]
                              ELSE result.gap_by_tool,
              last |-> [blocks |-> req, node |-> n, transfer |-> place.transfer,
                        resident |-> resident,
                        regime |-> RegimeOf(req, nodes, hot, n, place.transfer),
                        regret |-> MaxOf(0, realized - best_placement(req, nodes, clock).ttft)]]
        /\ UNCHANGED policy

-----------------------------------------------------------------------------
(* One action per policy *)

RoundRobin(c, at) ==
    /\ policy = "round-robin"
    /\ Arrives(c, at)
    /\ Serve(c, at, round_robin(next))
    /\ next' = next + 1
    /\ UNCHANGED <<believed, tracker, gaps>>

Stateless(c, at) ==
    /\ Arrives(c, at)
    /\ \/ policy = "cache-local" /\ Serve(c, at, cache_local(Sent(c).blocks, nodes))
       \/ policy = "transfer-aware"
            /\ Serve(c, at, transfer_aware(Sent(c).blocks, nodes, at * Scale))
       \/ policy = "class-aware"
            /\ Serve(c, at, class_aware(KindOf(c), Sent(c).blocks, nodes, at * Scale))
       \/ policy = "oracle" /\ Serve(c, at, oracle(Sent(c).blocks, nodes, at * Scale))
    /\ UNCHANGED <<next, believed, tracker, gaps>>

WeightedPrecise(c, at) ==
    /\ policy = "weighted-precise"
    /\ Arrives(c, at)
    /\ Serve(c, at, weighted(Sent(c).blocks, nodes, at * Scale,
                             [n \in NodeId |-> matched(Sent(c).blocks, nodes[n])]))
    /\ UNCHANGED <<next, believed, tracker, gaps>>

WeightedApprox(c, at) ==
    /\ policy = "weighted-approx"
    /\ Arrives(c, at)
    /\ LET blocks == Sent(c).blocks
           held == [n \in NodeId |-> MatchedPrefix(blocks, DOMAIN believed[n])]
           place == weighted(blocks, nodes, at * Scale, held)
       IN  /\ Serve(c, at, place)
           /\ believed' = [believed EXCEPT ![place.node] = record(@, blocks)]
    /\ UNCHANGED <<next, tracker, gaps>>

\* ClassAwareReliability: learn, route as class-aware, then mark.
Reliability(c, at) ==
    /\ policy = "class-aware-reliability"
    /\ Arrives(c, at)
    /\ LET sent == Sent(c)
           seen == Observed(tracker, c, sent.tool, at)
           place == class_aware(KindOf(c), sent.blocks, nodes, at * Scale)
       IN  /\ tracker' = seen.tracker
           /\ gaps' = IF seen.learn THEN Recorded(gaps, sent.tool, seen.gap) ELSE gaps
           /\ Serve(c, at, Retained(place, KindOf(c), Estimate(gaps', sent.tool), at * Scale))
    /\ UNCHANGED <<next, believed>>

Next ==
    \E c \in Conversation, at \in now..MaxTime :
        \/ RoundRobin(c, at)
        \/ Stateless(c, at)
        \/ WeightedPrecise(c, at)
        \/ WeightedApprox(c, at)
        \/ Reliability(c, at)

Spec == Init /\ [][Next]_vars

-----------------------------------------------------------------------------
(* Invariants *)

\* Blocks of every turn served so far.
Seen == UNION {UNION {Range(Script[c][i].blocks) : i \in 1..turn[c]} : c \in Conversation}

\* The hit rate is honest: the first use of a block is a miss on whatever node, so the misses
\* are never fewer than the different blocks served, transfers included.
FirstUsesAreMisses == result.total - result.reused >= Cardinality(Seen)

\* Ties go to the lowest id, so cache-local never leaves the node of the very first request:
\* every other node stays as it was created.
CacheLocalUsesOneNode ==
    policy = "cache-local" => \A n \in NodeId \ {0} : nodes[n] = EmptyNode

\* A reliability pin is always a lease: none is ever turned into a mark that lasts forever
\* (a HIGH directive whose lease is not ahead of the clock would be).
PinsAreLeases ==
    \A n \in NodeId : \A b \in DOMAIN nodes[n].mark :
        nodes[n].mark[b].prio = HIGH => nodes[n].mark[b].expiry # Forever

\* The approximate index is told of routing decisions and never of evictions (policies.py,
\* _RouterIndex), and yet, whatever loads and saturation made of the routing, it is wrong by
\* its capacity only: the narrower of index and cache holds the most recent blocks of the wider.
BeliefsFollowCaches ==
    policy = "weighted-approx" =>
        \A n \in NodeId :
            /\ BeliefCapacity <= Capacity
                 => believed[n] = Kept(nodes[n].cache, MostRecent(nodes[n].cache, BeliefCapacity))
            /\ Capacity <= BeliefCapacity
                 => nodes[n].cache = Kept(believed[n], MostRecent(believed[n], Capacity))

-----------------------------------------------------------------------------
(* Action properties *)

Clock == now' * Scale
Chosen == result'.last

\* "The lower bound every other policy's regret is measured against" (policies.py): no
\* policy's placement is ever cheaper than the oracle's, so clipping the regret hides nothing.
OracleIsLowerBound ==
    [][LET best == best_placement(Chosen.blocks, nodes, Clock)
           hot == hot_node(Chosen.blocks, nodes)
       IN  Ttft(Chosen.blocks, nodes, hot, Chosen.node, Clock, Chosen.transfer)
             = best.ttft + Chosen.regret]_vars

\* Routing on waits rounded to whole requests costs transfer-aware at most one nominal
\* service time over the oracle, however deep the queues are.
RoundingCostsOneService ==
    [][policy = "transfer-aware" => Chosen.regret <= NominalService]_vars

HalfPastLimit == (2 * SaturationDepth + 1) * NominalService
Clogged(n) == 2 * Wait(nodes[n], Clock) > HalfPastLimit
Spare(n) == 2 * Wait(nodes[n], Clock) < HalfPastLimit

\* The saturation filter, in exact waits: a weighted policy goes to a node queued beyond the
\* limit (give or take half a request) only when every node is.
SaturatedNodesAreSpared ==
    [][(policy \in {"weighted-precise", "weighted-approx"})
         => ~Clogged(Chosen.node) \/ (\A n \in NodeId : ~Spare(n))]_vars

\* One-shots are shed "before anything with retention value" (policies.py): serving one
\* evicts no block but its own and those earlier one-shots left.
OneShotsDisplaceNothing ==
    [][\A c \in Conversation :
         policy = "class-aware-reliability" /\ turn'[c] # turn[c] /\ KindOf(c) = "oneshot"
         => \A n \in NodeId : \A b \in Resident(nodes[n]) \ Resident(nodes'[n]) :
              \/ b \in Range(Sent(c).blocks)
              \/ b \in DOMAIN nodes[n].mark /\ nodes[n].mark[b].prio = EVICT_FIRST]_vars

\* A decision counted as coupled does depend on the others: it changes when every node but
\* the best one is idle.
OthersIdle(best) ==
    [n \in NodeId |-> IF n = best THEN nodes[n] ELSE [nodes[n] EXCEPT !.busyUntil = Clock]]
DependsOnOthers ==
    LET loaded == best_placement(Chosen.blocks, nodes, Clock)
        alone == best_placement(Chosen.blocks, OthersIdle(loaded.node), Clock)
    IN  <<loaded.node, loaded.transfer>> # <<alone.node, alone.transfer>>
CoupledDependsOnOthers ==
    [][result'.coupled # result.coupled => DependsOnOthers]_vars

-----------------------------------------------------------------------------
(* Refinement *)

\* The nodes' LRU as RouterIndex has it, under the policy that keeps an index beside it.
Index == INSTANCE RouterIndex WITH
            resident <- [n \in NodeId |-> IF policy = "weighted-approx" THEN nodes[n].cache
                                                                      ELSE NoBlocks]

\* Under the approximate scorer beliefs and caches evolve as in RouterIndex.
ImplementsRouterIndex == Index!BeliefSpec

=============================================================================
