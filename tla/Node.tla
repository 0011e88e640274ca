-------------------------------- MODULE Node --------------------------------
(***************************************************************************)
(* One simulated node serving a stream of requests: class Node of          *)
(* src/bench/sim/node.py as run_simulation drives it.  Arrivals come in    *)
(* time order; each one is admitted whole, by a single call of admit.      *)
(*                                                                         *)
(* The stream is bounded by MaxRequests, arrival times by MaxTime.         *)
(***************************************************************************)
EXTENDS KVCache

CONSTANTS
    Service,      \* service times, for the queue tail
    Window,       \* retain_until - now; 0 stands for every retain_until that is not ahead
    Priority,     \* the priority argument: an integer, or NoPriority
    MaxTime, MaxRequests

ASSUME TimesAreNat == Service \subseteq Nat /\ Window \subseteq Nat /\ MaxTime \in Nat
ASSUME PriorityIsArgument == Priority \subseteq Int \cup {NoPriority}
ASSUME MaxRequestsIsNat == MaxRequests \in Nat

VARIABLES
    node,    \* the node's state (see KVCache)
    now,     \* arrival time of the last request
    served,  \* how many requests have been admitted: the next one's at_index
    asked    \* history: what each block was last asked to be, and by which request

vars == <<node, now, served, asked>>

Init ==
    /\ node = EmptyNode
    /\ now = 0
    /\ served = 0
    /\ asked = [b \in Block |-> [want |-> NoMark, at |-> 0]]

Admit(arrival, service, req, retainUntil, prio) ==
    LET d == Directive(arrival, retainUntil, prio)
    IN  /\ served < MaxRequests
        /\ node' \in Admitted(node, arrival, service, req, retainUntil, prio)
        /\ now' = arrival
        /\ served' = served + 1
        /\ asked' = [b \in Block |-> IF b \in Range(req) THEN [want |-> d, at |-> served + 1]
                                                         ELSE asked[b]]

Next ==
    \E arrival \in now..MaxTime, service \in Service, req \in Request,
       window \in Window, prio \in Priority :
        Admit(arrival, service, req, arrival + window, prio)

Spec == Init /\ [][Next]_vars

-----------------------------------------------------------------------------
(* What was asked of a block, whatever the node remembers of it *)

AskedLive(b) == asked[b].want # NoMark /\ Later(asked[b].want.expiry, now)
AskedPin(b) == AskedLive(b) /\ asked[b].want.prio >= 0

\* RFC-0001: evict-first < unmarked < priority ascending, expiry collapses to unmarked.
EffectiveRank(b) ==
    IF AskedLive(b) THEN IF asked[b].want.prio < 0 THEN 0 ELSE 2 + asked[b].want.prio
                    ELSE 1

-----------------------------------------------------------------------------
(* Invariants *)

\* Every state variable keeps to its range, and the recency order of the cache is a strict
\* total order (one insertion order per OrderedDict).
TypeOK ==
    /\ IsNode(node)
    /\ now \in 0..MaxTime
    /\ served \in 0..MaxRequests
    /\ asked \in [Block -> [want : Marks \cup {NoMark}, at : 0..MaxRequests]]

\* admit never leaves the node above its capacity, whatever mixture of live, expired and
\* evict-first marks it holds, and never evicts a block it has room for.
CapacityHeld == Cardinality(Resident(node)) <= Capacity

\* "Re-admission overwrites the prior directive on these blocks -- clearing it entirely on
\* the unmarked path" (node.py, admit): the side tables hold exactly the last directive
\* asked of every resident block, and nothing of an evicted one.  (RFC-0001 has a shared block
\* keep the highest of its live directives: SharedBlocksKeepMaximum, which the code does not.)
MarkIsLastAsk ==
    /\ DOMAIN node.mark = {b \in Resident(node) : asked[b].want # NoMark}
    /\ \A b \in DOMAIN node.mark : node.mark[b] = asked[b].want

\* The insertion order of the dict is the order of last use: a block of an earlier request
\* is always in front of a block of a later one.
RecencyIsLastUse ==
    \A a, b \in Resident(node) : asked[a].at < asked[b].at => a \in node.cache[b]

\* "Record the pressure" (node.py, _pick_victim): a block whose lease still runs is either
\* resident or was counted by pinned_evictions when it was sacrificed -- no lease is lost
\* silently, however many requests ago it was granted.
LostLeasesAreCounted ==
    Cardinality({b \in Block : AskedPin(b) /\ b \notin Resident(node)}) <= node.pinnedEvictions

-----------------------------------------------------------------------------
(* Action properties *)

EvictedBlocks == Resident(node) \ Resident(node)'

\* Eviction stops as soon as the cache fits: a step that evicted something leaves the
\* cache exactly full.
EvictsOnlyOverflow ==
    [][EvictedBlocks # {} => Cardinality(Resident(node)') = Capacity]_vars

\* RFC-0001 section 3, of which node.py is "the executable spec": no block is evicted while one of
\* a lower effective rank stays, the rank being that of the last directive asked of it.
EvictionFollowsRank ==
    [][\A v \in EvictedBlocks, s \in Resident(node)' : EffectiveRank(v)' <= EffectiveRank(s)']_vars

\* "LRU position breaking ties": between blocks with the same standing, the one used by the
\* earlier request goes.
TiesGoByRecency ==
    [][\A v \in EvictedBlocks, s \in Resident(node)' :
         (\/ asked[v]'.want = asked[s]'.want
          \/ EffectiveRank(v)' = 1 /\ EffectiveRank(s)' = 1)
            => asked[v]'.at <= asked[s]'.at]_vars

\* A pin is sacrificed only "when every resident block is marked-and-unexpired": what stays
\* after a counted eviction is all live marks.
PinsGoLast ==
    [][node.pinnedEvictions' > node.pinnedEvictions => \A b \in Resident(node)' : AskedPin(b)']_vars

\* While no live directive is in force a step is one of plain LRU, even if expired marks
\* are still in the side tables ("TTL expiry collapses a mark to unmarked").
UnmarkedIsLRU ==
    [][(\A b \in Block : ~AskedLive(b)')
         => \E req \in Request : LET order == Touched(node.cache, req)
                                IN  node.cache' = Kept(order, MostRecent(order, Capacity))]_vars

\* The block is asked for again without one of those it was last asked for with: its next
\* request is of another chain than its last one.
OtherChainAsks(b) ==
    /\ asked[b].at > 0 /\ asked[b]'.at = served'
    /\ \E c \in Block : asked[c].at = asked[b].at /\ asked[c]'.at # served'

\* RFC-0001, "Block sharing" (lines 139-142): "a shared block carries the *maximum* of the live
\* directives covering it, and the reset-to-unmarked rule applies only when *no* live directive
\* covers the block".  So a live mark is neither lowered nor cleared by a request of another chain.
\* admit lets the last request win.
SharedBlocksKeepMaximum ==
    [][\A b \in Resident(node) \cap Resident(node)' :
         OtherChainAsks(b) /\ Live(node, now', b)
           => Live(node, now, b)' /\ node.mark[b].prio <= node.mark[b].prio']_vars

Plain == INSTANCE LRU WITH cache <- node.cache

\* A node whose requests never carry a directive is a plain LRU cache: "retain_until <= now
\* marks nothing and reproduces pure LRU exactly" (node.py, admit).
IsPlainLRU == Plain!Spec

=============================================================================
