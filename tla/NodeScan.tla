------------------------------ MODULE NodeScan ------------------------------
(***************************************************************************)
(* Node.admit as the code runs it (src/bench/sim/node.py): the cache is    *)
(* the key sequence of the OrderedDict, the two side tables are separate,  *)
(* blocks are seated one by one and victims are found by _pick_victim's    *)
(* single oldest-first scan, one at a time, until the cache fits.          *)
(*                                                                         *)
(* It runs beside Node, which describes the same in closed form.           *)
(***************************************************************************)
EXTENDS Node, SequencesExt

VARIABLE scan    \* [cache, priority, expiry, pinnedEvictions, busyUntil]

scanVars == <<vars, scan>>

None == NoPriority    \* Python has one None

ASSUME NoneIsNoBlock == None \notin Block

-----------------------------------------------------------------------------
Without(f, h) == Restrict(f, DOMAIN f \ {h})
Set(f, h, x) == [b \in DOMAIN f \cup {h} |-> IF b = h THEN x ELSE f[b]]

\* dict.pop(h, None): the other keys stay in their order.
Pop(keys, h) ==
    IF h \in Range(keys) THEN RemoveAt(keys, CHOOSE i \in DOMAIN keys : keys[i] = h) ELSE keys

\* One turn of admit's loop over req_blocks, and the loop.
Seat(nd, h, d) ==
    [nd EXCEPT
        !.cache = Append(Pop(@, h), h),
        !.priority = IF d.prio = None THEN Without(@, h) ELSE Set(@, h, d.prio),
        !.expiry = IF d.prio = None THEN Without(@, h) ELSE Set(@, h, d.expiry)]
SeatAll(nd, req, d) ==
    LET after[k \in 0..Len(req)] == IF k = 0 THEN nd ELSE Seat(after[k - 1], req[k], d)
    IN  after[Len(req)]

\* A faulty comparison: of two marks with one key the later one wins.
KeyAtMost(k, m) == k.prio < m.prio \/ (k.prio = m.prio /\ ~Sooner(m.expiry, k.expiry))

KeyLess(k, m) == k.prio < m.prio \/ (k.prio = m.prio /\ Sooner(k.expiry, m.expiry))

\* One turn of the scan, found holding the first-seen block of each bucket, and the scan.
Scan(nd, t, found, h) ==
    LET key == [prio |-> nd.priority[h], expiry |-> nd.expiry[h]]
    IN  IF h \notin DOMAIN nd.priority \/ ~Later(nd.expiry[h], t)
        THEN IF found.unmarked = None THEN [found EXCEPT !.unmarked = h] ELSE found
        ELSE IF nd.priority[h] < 0
        THEN IF found.evictFirst = None THEN [found EXCEPT !.evictFirst = h] ELSE found
        ELSE IF found.marked = None \/ KeyLess(key, found.markedKey)
        THEN [found EXCEPT !.marked = h, !.markedKey = key] ELSE found

NothingFound == [evictFirst |-> None, unmarked |-> None, marked |-> None, markedKey |-> None]

ScanAll(nd, t) ==
    LET found[k \in 0..Len(nd.cache)] ==
            IF k = 0 THEN NothingFound ELSE Scan(nd, t, found[k - 1], nd.cache[k])
    IN  found[Len(nd.cache)]

\* The victim, and how much pinned_evictions grows by.
PickVictim(nd, t) ==
    LET found == ScanAll(nd, t)
    IN  IF DOMAIN nd.priority = {}   THEN [block |-> nd.cache[1], pinned |-> 0]
        ELSE IF found.evictFirst # None THEN [block |-> found.evictFirst, pinned |-> 0]
        ELSE IF found.unmarked # None   THEN [block |-> found.unmarked, pinned |-> 0]
        ELSE [block |-> found.marked, pinned |-> 1]

EvictOne(nd, t) ==
    LET victim == PickVictim(nd, t)
    IN  [nd EXCEPT
            !.cache = Pop(@, victim.block),
            !.priority = Without(@, victim.block),
            !.expiry = Without(@, victim.block),
            !.pinnedEvictions = @ + victim.pinned]

\* One turn of admit's loop "while over capacity", and the loop: no more turns do anything
\* than there are blocks.
EvictTurn(nd, t) == IF Len(nd.cache) > Capacity THEN EvictOne(nd, t) ELSE nd
EvictDown(nd, t) ==
    LET after[k \in 0..Len(nd.cache)] == IF k = 0 THEN nd ELSE EvictTurn(after[k - 1], t)
    IN  after[Len(nd.cache)]

-----------------------------------------------------------------------------
ScanInit ==
    /\ Init
    /\ scan = [cache |-> <<>>, priority |-> << >>, expiry |-> << >>,
               pinnedEvictions |-> 0, busyUntil |-> 0]

ScanAdmit(arrival, service, req, retainUntil, prio) ==
    LET queued == [scan EXCEPT !.busyUntil = MaxOf(arrival, @) + service]
        d == Directive(arrival, retainUntil, prio)
    IN  /\ Admit(arrival, service, req, retainUntil, prio)
        /\ scan' = EvictDown(SeatAll(queued, req, d), arrival)

ScanNext ==
    \E arrival \in now..MaxTime, service \in Service, req \in Request,
       window \in Window, prio \in Priority :
        ScanAdmit(arrival, service, req, arrival + window, prio)

ScanSpec == ScanInit /\ [][ScanNext]_scanVars

-----------------------------------------------------------------------------
\* The node of Node that this one is: the dict's key order as a recency order, the two
\* side tables as one.
NodeBar ==
    [cache |-> [b \in Range(scan.cache) |-> InFrontOf(scan.cache, b)],
     mark |-> [b \in DOMAIN scan.priority |->
                  [prio |-> scan.priority[b], expiry |-> scan.expiry[b]]],
     pinnedEvictions |-> scan.pinnedEvictions,
     busyUntil |-> scan.busyUntil]

\* The scan, its three accumulators and the fast path when _priority is empty evict exactly
\* the blocks that come first in the order Node evicts by, count the same pins and keep the
\* two side tables in step: fed the same requests, the code's node is Node's at every step.
ScanImplementsNode == NodeBar = node /\ DOMAIN scan.expiry = DOMAIN scan.priority
=============================================================================
