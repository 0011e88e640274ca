# A specification of sched_lm

sched_lm asks how a router should place requests over LLM inference nodes so that their KV
caches are used well. It has two halves. An offline simulator (`src/bench/sim`, Python)
plays a stream of conversations over simulated nodes under several routing policies. A
gateway plugin (`src/gateway-plugin`, Go) does the promising part of it in a live
llm-d router: it learns how soon each tool's callers return and asks the backend to keep, or
to shed, the prefixes that are worth it. A small command line (`src/bench/*.py`) drives both.

This directory holds TLA+ modules of both halves, the TLC runs that check them
on small instances, and TLAPS proofs of what matters most for every instance.
`PROJECT.json` maps every definition to the lines it stands for and lists the hazards, runs,
mutants, findings and theorems.

## 1. Inventory

| Component | Source | State | Operations | Modelled in |
|---|---|---|---|---|
| Simulated node | `sim/node.py`, `sim/priority.py` | LRU dict of blocks, priority and expiry tables, queue tail, pin counter | `admit` (seat, mark, evict), `wait`, `matched` | LRUOrder, Recency, KVCache, Node, NodeScan, LRU |
| Belady node | `sim/node.py:177` | an LRU dict, future uses | `_build_future_uses`, `_next_use`, `_pick_victim`, `admit` | Belady |
| Block hashing | `sim/blocks.py` | none | `hash_blocks`, `matched_prefix` | Workload, Recency |
| Cost model | `sim/cost.py` | none | `hot_node`, `predict`, `best_placement` | Cost |
| Policies | `sim/policies.py` | `RoundRobin._next`, router index, gap tables | one call per request | Policies, Rounding, BeliefIndex, RouterIndex, GapTables |
| Engine | `sim/engine.py` | nodes, last-seen table, totals | one turn of the loop per request | Cluster |
| Workload | `sim/workload.py` | random generators, a session under way | `generate_sessions`, `generate_mixed`, the sort by arrival | Workload; Cluster plays scripts of its own |
| Classification (Go) | `classify.go` | none | `Classify`, `LastToolName`, `ConversationKey` | Classify, Conversation |
| Gap tables (Go) | `session.go`, `toolgap.go` | two mutex-guarded LRU tables | `ObserveGap`, `Record`, `Predict` | GapTables, PreRequest |
| PreRequest plugin (Go) | `prerequest.go` | the two tables, the clock | `PreRequest`, once per request, concurrently | PreRequest |
| Profile handler (Go) | `class_aware_reliability.go` | none | `Pick`, `ProcessResults` | ProfileHandler |
| Traffic generator | `bench/traffic.py` | semaphore, tasks, tallies | `run_traffic`, `run_session_traffic`, `_stream_chat` | Traffic |
| Report | `bench/cli.py:288`, `metrics.py` | counter snapshots, rows | a snapshot, one traffic run, a wait, a snapshot, for each route | Report |
| Everything else | `cli.py`, `report.py`, `prompt.py`, `cmd/epp`, `infra/` | none of their own | options, tables, a constant prompt, registration, manifests | no |

How they interact. `run_simulation` calls the policy with a view of the request (its blocks
and what a router may observe), the nodes and the clock; the policy answers with a placement
that may carry a retention directive; the engine charges what that placement truly costs on
the nodes' state and calls `Node.admit`. The policy's own state is never corrected by the
nodes: the approximate index lives on routing decisions alone. In the gateway, the framework
calls `PreRequest` in the goroutine of each request; goroutines share the two tables, each
under a lock of its own, and the clock is read outside both. The traffic generator is a
single asyncio loop: its coroutines share the semaphore and the tallies, and the gateway
answers each request when and how it likes. The generated stream is what both halves share:
the simulator replays it block by block, and `run_session_traffic` sends its messages over
the wire, where the plugin must find in them what the simulator was told. The report runs the
traffic once per route and takes the differences of counters that the replicas keep and
Prometheus scrapes, each at its own pace.

What is hard, and what would make each part correct:

- **Node**: marks expire without anybody looking, conflict on shared prefixes and evict each
  other under pressure. Correct when eviction follows the RFC's rank with recency breaking
  ties, capacity always holds, the tables say what was last asked, no lease is lost without
  being counted, and expired marks are as good as none.
- **Policies and engine**: decisions on coarse or stale views, compared with an oracle.
  Correct when the oracle really is a lower bound, coarse signals cost a bounded amount, hits
  are never counted twice, and directives displace only what they may.
- **Router index**: never sees an eviction. Correct when its error is one of capacity only.
- **Plugin**: three critical sections per request, tables at their limit, clients with
  directives of their own. Correct when no observed time is lost, estimates stay within what
  was observed, pins follow short returns, and the client's lower wish wins.
- **Traffic**: permits taken by one coroutine and given back by another, streams that fail
  after they began, exceptions seen only once everything is dispatched. Correct when every
  permit comes back, every request is tallied exactly once, nothing goes out before its time,
  and the run ends.
- **Workload**: sessions overlap, share texts and are retimed by failing calls. Correct when
  only what is meant to be shared is, turns come in order and extend one another, and the two
  halves see one class, one tool and one session in a request.
- **Belady**: a victim choice by future knowledge, over requests of many blocks, with ties.
  Correct when no other way of evicting hits more, and when it is LRU where it knows nothing.
- **Profile handler**: fallbacks in map order, classes that look at the last message only.
  Correct when a tool session stays with its profile.
- **Report**: counters that restart, are scraped late and read in separate queries, requests
  that outlive their client. Correct when clean rows are exact and nothing is counted twice.

## 2. The modules

```
LRUOrder                     an OrderedDict used as an LRU
  Recency                    the same over blocks and chained requests
    LRU                      abstract: a bounded LRU cache
    BeliefIndex              the router's shadow index of a node
    KVCache                  one admission to a node
      Node                   a node serving a stream        --refines--> LRU (no directives)
        NodeScan             the code's loops and scan beside it, in lockstep
      RouterIndex (+ BeliefIndex)  beliefs beside caches
      Cost                   predicted time, best placement
        Policies (+ GapTables, Rounding)  the eight policies
          Cluster (+ BeliefIndex)  run_simulation           --refines--> RouterIndex
Classify                     what is read off a request
  Workload (+ Rounding)      the generated stream and its block hashes
    Belady (+ LRUOrder)      one clairvoyant node replaying it
  Conversation               a conversation as it grows
    ProfileHandler           the profile each of its requests gets, --refines--> Conversation
  GapTables (+ LRUOrder)     the two learning tables
    PreRequest               concurrent requests through the plugin
Traffic                      the live traffic generator
Report                       snapshots and rows over replicas that scrape and restart
```

`MC*` modules give each of these a small instance; `*Proofs` hold the theorems, and
`OperatorLemmas` what several of them need to know of the operators.

**LRUOrder, Recency.** The dict's insertion order is a function from each key to the keys older
than it; nodes, the router index and the gap tables all use it. `Touched` is the
pop-and-reinsert loop over a request's blocks, `Kept` what is left after evictions,
`MostRecent` what survives an LRU of given capacity, `LRUTouched` both together. Recency adds blocks, requests and
`MatchedPrefix`, the leading run of hits. Hashes are model values; that `hash_blocks` chains
them is the assumption `RequestIsChain` (no request names a block twice).

**KVCache, Node.** A node is a record of cache, marks, pin counter and queue tail; the side
tables `_priority` and `_expiry`, always written together, are one function `mark`.
`Directive` is `_directive`, `EvictedBefore` the total order `_pick_victim` picks by,
`VictimSets` and `Evicted` the whole eviction loop in closed form, `Admitted` the whole of
`admit`. `Node` drives one node with any stream of requests, times and directives, and keeps
a history, `asked`: what each block was last asked to be, whatever the node remembers. Most
properties relate the two.

**NodeScan.** The same node the way the code runs it: the key sequence, two separate side
tables, blocks seated one by one, one oldest-first scan with its accumulators per victim, the
fast path when `_priority` is empty. Its variable `scan` takes every admission Node takes, and
`ScanImplementsNode` says that both are the same node after each. The loops are recursive
functions, so that they can be reasoned about.

**LRU, BeliefIndex, RouterIndex.** LRU is what a node is without directives. BeliefIndex is
`_RouterIndex`: the same per node, with a capacity of its own, `BeliefCapacity`. RouterIndex puts
both beside each other under any routing; Cluster records its routing in the same index.

**Cost, Policies, Cluster.** Pure operators for the cost model and for each policy's answer,
then the loop of `run_simulation` with one action per policy (`Stateless` covers the four
without state). `Serve` is one turn of the loop: learn the gap, compare with the oracle, count
coupling, charge the true cost, admit. `Script` is the workload; which conversation's turn
comes next, and when, is left open.

**Workload, Belady.** `Workload` builds a stream request by request as `generate_sessions`
and `generate_mixed` do: first the tool sessions, each turn after the one before, then the
document queries, then the one-shots, and at last the sort. The budget of each class is
rounded as the code rounds it. `hash_blocks` cuts the tokens of a request into whole blocks, a
block standing for all the words up to its end. `Belady` then admits the stream to one node:
touch, then evict whatever is used again last until the cache fits. `BestHits` is the most hits
any way of keeping blocks has had of the requests so far, by trying all of them.

**Classify, Conversation, ProfileHandler.** The three functions of `classify.go` beside the
simulator's `classify`. Which texts are long is two sets, `LongInChars` for the plugin's 512
characters and `LongInTokens` for the simulator's 128 words, with nothing assumed of how they
overlap. Conversation is the (external) client: a history that only grows at
its end. `ProfileHandler` schedules each request it sends: `Pick` and `ProcessResults` over
some set of configured profiles, each picked profile failing or not.

**GapTables, PreRequest.** The tables as records of an LRU order and values. PreRequest gives
each goroutine the steps the code has: arrival and classification, the clock reading,
`ObserveGap`, `Record`, `Predict` with the merge into the client's header. Each lock's
critical section is one step; everything else interleaves. Its history variables remember
which conversations had two turns in progress at once, what was learned of each since when,
and which gaps of each tool: the properties compare the tables with them.

**Traffic.** Both ways to generate traffic in one module, since they differ in little: a
*job* is what holds a permit while it runs, one request of `run_traffic` or one session of
`run_session_traffic`, and `work` says when its requests are due. The loop's side dispatches,
begins and posts jobs, gathers and returns; the gateway's side lets a posted request go every
way `_stream_chat` knows: refused, a first chunk, an error object in the stream, the end, a
client error, or any other exception (`Fail`), which is seen at `gather` and ends the run
without a result (`Raise`).

**Report.** The `report` command as it goes from route to route: three queries, the traffic,
the settling, three queries, the row. Between any two of its steps replicas serve open
requests, are scraped, or restart. What the traffic does inside is Traffic's; here it is how
many requests it sent and whether any is still open when it ends.

### Abstractions

- Times, prices and estimates are integers. GapTables keeps means in `1/Scale` and variances
  in `1/Scale^2`, and the instances choose Scale so that every division is exact; Cluster
  counts node clocks, prices and leases in `1/Scale` too. The rounding of floats is not
  modelled, nor the rounding of a lease to milliseconds (`prerequest.go:152`).
- `round` is Python's, halves to even.
- The weighted policies compare sums of two fractions; the model compares the same sums
  multiplied by their denominators.
- The FNV hash of a conversation's opening stands for the opening itself.
- Lists of per-request results are kept by their last entry, and the per-class slices are
  left out: they repeat the same additions.
- In Workload a text is named by its kind and what makes it unique and has a number of words;
  texts of different names differ in their first word (`synth_text` tags, the constants'
  wording). Every draw is a choice: weights, distributions, seeds and with them the
  independence of the classes' streams are left out, and so is `gen_tokens`, which only prices
  a request.
- A block hash is what it hashes: two blocks are equal when the words up to their ends are.
- Belady is one node under the whole stream. Over several nodes each keeps the index of the
  whole cluster's stream, and the claim of optimality does not extend to them
  (`sim/node.py:177`).
- In Report the waiting is over once every replica was scraped: `--settle` is documented as at
  least a scrape interval. What one request adds to the counters is one of a few triples, and
  the gauges and the histogram the report shows as they are read are left out.
- In Traffic time passes only while the loop has nothing to run, and the last instant,
  `MaxTime`, stands for any later time, so nothing is said of pacing from then on.
- `PriorMean` and `PriorVar` are the default prior; the per-tool priors are empty, as both
  callers leave them.

## 3. What is checked

| Run | Instance | Shows |
|---|---|---|
| `node` | 4 blocks in 3 chains, two with one head, capacity 2, four requests, priorities below, inside and above the scale, leases and none | `TypeOK`, `MarkIsLastAsk`, `LostLeasesAreCounted`, `ScanImplementsNode`, `EvictionFollowsRank`, `TiesGoByRecency`, `UnmarkedIsLRU` |
| `cluster` | two nodes of capacity 3, an index of capacity 2, all eight policies, a three-turn tool session, two queries of one document, a one-shot, all arrival orders up to time 3 | `FirstUsesAreMisses`, `CacheLocalUsesOneNode`, `PinsAreLeases`, `BeliefsFollowCaches`, `OracleIsLowerBound`, `RoundingCostsOneService`, `SaturatedNodesAreSpared`, `CoupledDependsOnOthers`, `OneShotsDisplaceNothing`, `ImplementsRouterIndex` |
| `conversation` | up to 6 messages, with and without system message and session header, single, parallel and unnamed calls, texts long by either, both or neither measure, three sets of configured profiles | `MirrorsWithinLimits`, `ToolTurnsKeepTheirProfile`, `NamesTheAwaitedTool`, `KeyFixedOnceOpened` |
| `prerequest` | two goroutines, four requests, six kinds of request, both tables of capacity one, time up to 3 | `TypeOK`, `GapsTelescope`, `MeanWithinObserved`, `ForwardUnlessOverlapped`, `NeverRaisesClient`, `PinsFollowShortReturns`, `SteadyToolIsPinned` |
| `traffic` | two permits; four single requests, paced or not, or sessions of three, two and one turns; time up to 4 | `PermitsAreKept`, `EachIsTalliedOnce`, `NeverSentEarly`, `RunEnds` |
| `replay` | two sessions of three turns with and without tool reliability, and a mixture of one session of two turns, three queries of two documents and a one-shot; blocks of two words; a Belady cache of three blocks | `OnlyOpeningsAreShared`, `TurnsExtendInOrder`, `SignalsMatchTheWire`, `LiveKeysAreSessions`, `MinIsOptimal`, `UnknownFutureIsLRU` |
| `report` | two routes, two replicas, three requests in all, one restart or failed query, counts from before the report | `CleanRowsAreExact`, `NothingIsCountedTwice` |

Why the bounds are enough. A capacity of two under three-block chains gives requests that do not
fit, full caches of live pins, and all three buckets at once; four requests are enough to pin, let
expire, re-mark and evict. Tables of capacity one are full from the second key on. In `cluster`
three turns of a conversation teach two gaps, which is what a confident short prediction and its
pin need, and Capacity 3 evicts from the third request on. Two permits under three or four jobs
make the loop wait for a permit, with jobs to come behind the one that gets it. Six messages hold
a system message, the opening, a call, its result, a reply and the next question, which is where a
class that looks at the last message only would turn; what an assistant says is read by nothing,
and is one text. An index of two blocks behind caches of three forgets what a node still holds, so
that routing by it differs from routing by the truth; at the defaults the two are equal, and a
wider index is the theorem's. In `replay` two sessions share an opening or not, a result may be
canned in both, and the arrival gaps 0 and 2 against a think time of 2 and a retry gap of 1 make
turns of different sessions tie and cross; three blocks are fewer than any session of three turns
has, and `MinIsOptimal` compares the node with every way of keeping blocks. In `report` three
requests let one be abandoned while both routes still have work of their own, and a restart or a
failed query can come at any point of it. `prerequest` uses symmetry in the goroutines and
`report` in the replicas, which their properties treat alike.

The systems really stop when their stream ends, hence `CHECK_DEADLOCK FALSE`. Fairness is
assumed by `Traffic` alone, and only `RunEnds` needs it: the event loop eventually runs each
coroutine that is ready (asyncio's queue is first in, first out); time goes on; and a posted
request ends, at the latest by aiohttp's default timeout of five minutes for the whole of it,
in whichever way. Nothing is assumed of how requests end: a run in which they all fail ends
too. `RunEnds` is what a lost permit would break: the dispatching loop would wait for it for
ever.

### Where code and words part

Five runs end in a violation on purpose: each states what a document or comment says.

- `node_sharing`: RFC-0001 (`docs/rfc-0001-kv-cache-priority-directives.md:139-142`) gives a block
  that several chains share the maximum of the live directives covering it and resets it only when
  none is live. `admit` lets the last request win, as its own docstring says (`node.py:82-84`): a
  request that pins nothing clears the pin another session holds on their common head
  (`SharedBlocksKeepMaximum`). `MarkIsLastAsk` in the run `node` is the code's rule, checked on
  sharing chains too; the two cannot both hold.
- `conversation_key`: the plan for the plugin says its fallback key is stable as a session
  grows; without a system message it is made of the first two user messages, so it changes at
  the second and the gap before it is never learned.
- `prerequest_lease`: a lease is said to last until the session comes back; two overlapping
  turns of one conversation can swap between clock and lock, and the learned gap and the lease
  are negative.
- `traffic_gaps`: `run_session_traffic` says a timing-observing router sees the gaps the
  workload modelled (`traffic.py:198-200`); turns are scheduled from the session's start, so
  after a slow answer the next gap is shorter than modelled, down to none.
- `workload_canned`: the head of `workload.py` says that a canned tool result becomes a prefix
  that different sessions share. The reply before it is unique to its session and turn, and
  hashes chain, so no such block exists; `deterministic_tool_prob` changes lengths only.

Three differences of wording have no run. With everything pinned the RFC (lines 134 and 195) and
`docs/policies.md:28` let the soonest-expiring pin go, where the code compares priority first;
routers send one pinning level today, so the two agree until a client sends another. README.md:125
defines coupling by every *other* node's being idle, where the engine idles the best one too.
`classify.go:10` says its classes mirror `classify()` of the policies; its thresholds are 512
characters against 128 words (`classify.go:17-20` and the plan's line 117 call the one a proxy for
the other), so 100 long words are rag in the plugin and tool in the simulator, 128 short ones the
other way round, and it looks at declared tools, which the simulator cannot see.
`MirrorsWithinLimits` says that they differ there and nowhere else.

Other things worth knowing, met on the way. With the defaults (2048 blocks in `cli.py:410` and in
`policies.py:319`) the approximate index is exactly the cache whenever `weighted-approx` runs, so
the difference from `weighted-precise` that `docs/policies.md` attributes to stale beliefs is none
(the theorem `BeliefsAreFollowed`, in both directions); it takes a capacity other than the
default. Expired marks stay in the side tables and keep the slow path of `_pick_victim` in use;
`UnmarkedIsLRU` shows that they change nothing else. A cached prefix on a node that is not the hot
one is labelled "recompute" even when it is reused. The plugin's tracker never sees RAG or one-shot
requests, although `session.go:9-11` expects their keys in it. A Belady node breaks ties from the
oldest end, which evicts the head of a prefix first: its block hits stay optimal and its matched
prefixes need not be. In the report the prefill time is the mean since the replicas started, not
the route's; a route compared twice keeps its second row only; with a first snapshot older than the
traffic before it a hit rate can exceed one, and a query that Prometheus does not answer counts as
zero. The report's sessions are generated without `tool_reliability` (`cli.py:320`; the `traffic`
command has the option), so no tool is named on the wire and the plugin learns the gaps of the
unknown tool alone.

## 4. What is proved

Every theorem holds for every value of the constants: any set of blocks, chains and requests,
any capacities, prices, thresholds and bounds, any number of nodes, goroutines, jobs or
replicas.

**OperatorLemmas** is what the other proofs share: `Touched` and `Kept` keep a recency order a
strict total order; `OldestLeave`, that dropping the oldest keys down to a capacity leaves the
most recent ones; `AdmittedOutcome`, that whatever is admitted to a node, what stays is the
request and the old blocks less a victim set that goes before all the rest; `PutFits` for the
tables; and the arithmetic of estimates (`FoldedKnown`: a mean stays between what it was and
the new gap; `SqrtIsRoot`, `LeaseCoversMean`: a lease is at least the mean).

**CacheProofs** is about one cache, in three parts.

*Node.* `TypeCorrect` and `CapacityIsHeld`, then the action properties
`NoNeedlessEviction` (a step that evicts leaves the cache exactly full) and `PinsAreLast`;
`MarksAreLastAsk`; `RankDecidesEviction`; `LeasesAreAccountedFor`; `RecencyOrder`;
`TiesAreRecency`; `ExpiredCollapses` (while no directive is in force a step is one of plain
LRU); and `PlainIsLRU`, that a node whose stream carries no directive implements LRU. `TypeOK`
is inductive by itself; `MarkIsLastAsk` is inductive with it and turns the node's buckets into
what was asked, which is what the properties speak of. `LostLeasesAreCounted` needs both: the
live pins a step drops are counted by it, those that merely expire leave the set.
`RecencyIsLastUse` needs `AskedByServed`, that nothing was asked by a request still to come,
and makes a tie in the victim order one of last use.

*The code's node.* `ScanIsNode`, that the code's loops and its scan compute Node's closed form,
and `ScanIsSpec`, that every behaviour of theirs is one of Node, so that all of the above is true
of the code's node too. The inductive invariant `ScanInv` adds to the equality of the two nodes
the shape of the code's: no key twice in the dict, the two side tables in step. Each loop is
followed turn by turn. After k blocks the seated ones are the newest, in order (`SeatedAll`).
After k keys of a scan each accumulator holds the first of its bucket among them, or the first of
the weakest (`ScannedAll`), so what is picked goes before all others (`VictimFirst`). After k
evictions the node is Node's less k blocks that go before all that stay (`EvictedSoFar`). The
victim order is strict (`BeforeIsStrict`), so there is one set of such blocks (`OneVictimSet`),
and the scan's victims are Node's.

*Indexes.* `BeliefTypeCorrect`; `BeliefsAreTruncations`, by the lemma that truncating
an LRU to fewer blocks commutes with touching it; from it `IndexNeverOverestimates` and
`IndexNeverUnderestimates`.

**StreamProofs** is about the generated stream and its replay.

The invariant of generation, `StreamInv`, says what a list of requests looks like half-way:
every request is one its class can make (`Generated`, with its blocks, its signals and the place
of its own texts); the session under way has the messages of a conversation of its length, with
the tool that was drawn (`UnderWay`); every request belongs to a session already begun and, if
to the one under way, is a beginning of it (`Begun`); and of two requests of one session the
first is the shorter and not the later (`Precedes`). The properties alone are not inductive: none
of them says what the next turn is appended to. From `StreamInv` follow `SignalsAgree`;
`HeadersAreSessions`; `SessionsGrowInOrder`, as a stable sort by arrival, session and turn leaves
two turns in their order (`InOrderSorts`) and the blocks of a longer prompt begin with those of
the shorter (`BlocksExtend`); and `OnlyOpeningsShared`, as in every prompt the first text that
is not part of an opening carries the name of its session, and equal blocks cover equal texts
(`SharedBeginnings`).

Of the replay, `IgnoranceIsLRU`, and `MinIsBest`: the reference node has at every point of the
stream the most hits possible. That hits are the most is not inductive either: a way that is
behind may hold what is asked for next. The invariant `Leads` has that what the node keeps is one
of the ways, and that for every way and every t the way's hits and the blocks it keeps that are
used again by t are together no more than the node's (`Dominated`). A request turns blocks that
were soon to be used into hits, for both alike, and brings both the same new ones
(`AskedWereSoon`). Eviction takes from the node nothing that is used by t, or leaves it full of
such blocks (`SoonestStay`), when no way can hold more. With t now, it is a comparison of hits.

**ClusterProofs.** All ten properties of the run. `Shape` (nodes keep their shape and fit
their capacity) and `Tables` are inductive. The reliability policy keeps a tracker of its own
beside the engine's; `Tables` has that the two are equal while it runs, and so, as turns of a
conversation come at different times, that every gap it learns, and with it every mean, is at
least one. `StepDecides` then says of any step, whatever the policy, that it serves a turn at
a placement of which `Decision` holds: an arm of the cost model, carrying no directive, one to
be shed, or a lease ahead of the clock. From there:

- `CacheLocalStaysHome`: while the other nodes are empty node 0 wins every tie for the hot node.
- `OracleIsLeast`: `best_placement` is the least over the arms by a total order (`BestIsFirst`,
  over any finite set of nodes), and every placement is an arm. `RoundingIsCheap`: the rounded
  wait is within half a service time of the wait, on both sides of a comparison.
  `SaturatedAreSpared`: the same for the filter.
- `LeasesExpire` and `OneShotsAreHarmless`, by the invariant `OnlyAsked`: every mark on a node
  is a lease or one to be shed, and under every other policy there is none. A block without a
  shed mark goes only after all of the one-shot's own, which are more than the node overflows by.
- `CoupledIsCoupled`: a price is a wait and a work that does not depend on queues
  (`PriceIsWaitAndWork`); if emptying all other queues kept the best placement, emptying its
  own as well would, as that makes it cheaper still (`EmptyingBestKeepsIt`).
- `HitRateIsHonest`, by the invariant `Honest`: all that is resident anywhere was served, so
  what is new in a request lies behind every prefix it can reuse.
- `IndexIsRouterIndex`: the cluster implements `RouterIndex`. Under the approximate scorer no
  node has marks (`OnlyAsked`), so an admission is one of LRU; under every other policy the
  mapped state does not change.
- `BeliefsAreFollowed`: the same of the simulator itself, by the same lemma about touching and
  truncating; the index is a recency order per node (`IndexIsOrder`), and so is each cache.

**PreRequestProofs.** `TypeCorrect`: the tables stay within capacity. `LearnedGapsTelescope`
is inductive with the types. `MeansWithinObserved` and `SteadyToolsArePinned` rest on
`EstimatesFit`: the mean is between two recorded gaps, and the variance is zero while only one
length was ever recorded. `NegativeOnlyIfOverlapped` needs that an overlap once known stays
known and that, without one, a clock that was read is not behind its conversation's last turn
(`GapsGoForward`). `ClientsAreNeverRaised` holds from arrival on (`NeverAskedMore`), not only
at the end. `PinsFollowReturns`: a confident estimate is a recorded one, since the prior is
unsure, and its mean is at least the least gap.

**ConversationProofs.** `ClassesDifferWithinLimits`, exactly when the two classifiers part, whatever
texts each finds long; `AwaitedToolIsNamed`, by the invariant that what is
awaited ends with the last call of the last message that calls (`AwaitsLastCaller`);
`KeyIsFixedOnceOpened`, by counting the hashed messages before and after one is appended;
`HandlerIsAWatcher`, that ProfileHandler implements Conversation; and `ToolTurnsStay`, as what
was picked is always what `Pick` selects for the part of the history seen (`HandlerInv`).

**TrafficProofs.** `TypeCorrect`; `PacingHolds`; `PermitsAccounted`, by the count of running
jobs; `TalliedOnce`, by the counts of posted and ended requests (`TalliesAgree`), where
`StagesMatch` ties each job's stage to how many of its requests are posted and ended.

**ReportProofs.** `TypeCorrect`; `CountedOnce`, as without a fault rows, baseline, readings,
what is scraped and what is counted are in one order (`Ordered`); `RowsAreWhatWasServed`, as
while nothing blurs the report the counters are the baseline and what this route was served
(`Clean`). Totals over replicas are folds; that they do not depend on the order, grow with
their parts and change by what one part changes by is proved by the smallest set of which it
would be false.

The assumptions are the named ASSUMEs of the modules, which TLC evaluates in every run. Most are
types: finitely many blocks, chained requests, natural capacities, prices and times, scripts that
send well-formed turns, at least one route to compare (`SomeRoutes`). Four say what the code is
deployed with: a confidence threshold between 0 and 1 (`ThresholdIsWeight`), a margin of at least
one (`MarginExtends`), a weight between 0 and 1 (`AlphaIsWeight`), and a prior too uncertain to pin
(`PriorIsUnsure`). Two say what the generator's constants are: no class has more sessions than the
offsets of the classes' ids are apart (`SidsFit`), and a query is long and an opening question
short both in characters and in words, as the defaults make them (`OnlyQueriesAreLong`; 1040 words
against a handful). `NoBodyIsNone`, `NoneIsNoBlock`, `NoScopeIsNoSession` and the like keep
Python's None and Go's nil and "" apart from real values.

`CapacityIsHeld`, `RecencyOrder`, `NoNeedlessEviction`, `PinsAreLast`, `PlainIsLRU`, `ScanIsSpec`,
`HandlerIsAWatcher`, `BeliefTypeCorrect`, `BeliefsAreTruncations`, `IndexNeverOverestimates`,
`IndexNeverUnderestimates` and the `TypeCorrect` of Traffic and Report have no run of their own.

Where a list is computed step by step (the words of a prompt, the loops of `admit`, the ways of
keeping blocks) the module has a recursive function. The library's induction principles cannot be
used with the installed provers; the proofs take the least index at which the claim would be false
(`LeastOf`, `LeastNumber`). The step before it gives the contradiction.

Only model-checked: `RunEnds`, the one liveness property. It rests on fairness, which the prover
does not reason about. The other components are calls that always return, and the scheduling of
goroutines decides nothing but their order.

### Not modelled

- `cmd/epp/main.go` registers the plugins and starts the framework. The framework's scheduling
  loop is external: ProfileHandler takes it to call `Pick` once per request, and nothing is said
  of a loop that waits for `Pick` to select nothing, which it never does.
- The commands' options and tables (`cli.py`, `bench/report.py`) and the prompt builder
  (`prompt.py`): no state, one constant text.
- The gauges, the prefill histogram, the percentiles and the rate window of the metrics command:
  numbers shown as they are read.
- A cluster of several Belady nodes (`oracle-belady`): a reference estimate by its own words,
  with nothing promised that could be checked.
- Numerical results of the simulator (hit rates, percentiles): measurements, not properties.
- `infra/`: manifests and scripts; the forked inference simulator is a submodule whose directory
  is empty.

## 5. What is left

Every safety and action property of the passing runs is proved. What could still be added:

1. a cluster of several Belady nodes, beside which no promise stands in the code;
2. should the provers come to reason about fairness, `RunEnds`, by the permits and the jobs that
   still hold one.
