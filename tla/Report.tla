------------------------------- MODULE Report -------------------------------
(***************************************************************************)
(* The live comparison of routes (report in src/bench/cli.py): the totals  *)
(* of the replicas' counters are read from Prometheus                      *)
(* (src/bench/metrics.py) before and after each route's traffic, and their *)
(* differences are the route's row.  The backend goes on by itself:        *)
(* replicas serve, also requests the client has given up on, are scraped   *)
(* one by one, and restart; a query may fail.                              *)
(*                                                                         *)
(* Bounded by MaxRequests in all and by MaxFaults.                         *)
(***************************************************************************)
EXTENDS Integers, FiniteSets, Sequences, Functions, FiniteSetsExt

CONSTANTS
    Replica,
    Compare,       \* the --compare options, in order
    Work,          \* what one request may add to a replica's counters
    Earlier,       \* what a replica may have counted, and not yet shown, before the report
    MaxRequests, MaxFaults

ASSUME ReplicasAreFinite == IsFiniteSet(Replica)
ASSUME CountsAreNat == Work \cup Earlier \subseteq [{"hits", "queries", "evictions"} -> Nat]
ASSUME BoundsAreNat == MaxRequests \in Nat /\ MaxFaults \in Nat
\* "Please provide at least one route to compare" (cli.py)
ASSUME SomeRoutes == Compare \in Seq(Range(Compare)) \ {<<>>}

Metric == {"hits", "queries", "evictions"}

\* The order in which report asks for them, each in a query of its own.
Asked == <<"hits", "queries", "evictions">>

Zero == [m \in Metric |-> 0]
Plus(c, d) == [m \in Metric |-> c[m] + d[m]]
Minus(c, d) == [m \in Metric |-> c[m] - d[m]]
Total(counts) == [m \in Metric |-> SumFunction([r \in DOMAIN counts |-> counts[r][m]])]

VARIABLES
    turn,      \* which of Compare is being run
    phase,     \* "before", "traffic", "settle", "after"; "done" or "lost" at the end
    read,      \* the readings of the current snapshot, one per query answered
    before,    \* the readings before the traffic
    rows,      \* the report: route -> differences
    counters,  \* what each replica has counted since it started
    scraped,   \* each replica's counters when it was last scraped
    due,       \* replicas whose scrape the settling still waits for
    open,      \* requests sent that no replica has finished yet
    sent,      \* requests sent so far
    faults,    \* restarts and failed queries so far
    served,    \* history: what was counted for each of Compare
    counted,   \* history: everything counted, shown or not, since the last scrape before
    blurred    \* history: a snapshot missed something, or a fault came in

reportVars == <<turn, phase, read, before, rows>>
backendVars == <<counters, scraped, due, open>>
vars == <<reportVars, backendVars, sent, faults, served, counted, blurred>>

Route == Compare[turn]

Init ==
    /\ turn = 1 /\ phase = "before" /\ read = << >> /\ before = Zero
    /\ rows = << >>
    /\ counters \in [Replica -> Earlier]
    /\ scraped = [r \in Replica |-> Zero]
    /\ due = {} /\ open = 0 /\ sent = 0 /\ faults = 0
    /\ served = [i \in DOMAIN Compare |-> Zero]
    /\ counted = Total(counters)
    /\ blurred = (counters # scraped)

-----------------------------------------------------------------------------
(* The report *)

\* _scalar: the sum over what was scraped, or 0 when Prometheus does not answer 200.
Answer(m, fails) == IF fails THEN 0 ELSE Total(scraped)[m]

\* A faulty Baseline: only the first route's snapshot is taken.
BaselineOfFirst(snapshot) == IF turn = 1 THEN snapshot ELSE before

\* What the differences are taken from.
Baseline(snapshot) == snapshot

Snapshot == [m \in Metric |-> read[CHOOSE i \in DOMAIN Asked : Asked[i] = m]]

Query ==
    /\ phase \in {"before", "after"} /\ Len(read) < Len(Asked)
    /\ \E fails \in BOOLEAN :
        /\ fails => faults < MaxFaults
        /\ read' = Append(read, Answer(Asked[Len(read) + 1], fails))
        /\ faults' = IF fails THEN faults + 1 ELSE faults
        /\ blurred' = (blurred \/ fails)
    /\ UNCHANGED <<turn, phase, before, rows, backendVars, sent, served, counted>>

Start ==
    /\ phase = "before" /\ Len(read) = Len(Asked)
    /\ before' = Baseline(Snapshot)
    /\ phase' = "traffic" /\ read' = << >>
    /\ UNCHANGED <<turn, rows, backendVars, sent, faults, served, counted, blurred>>

\* _run_route returns.
EndTraffic ==
    /\ phase = "traffic"
    /\ phase' = "settle"
    /\ due' = Replica
    /\ blurred' = (blurred \/ open > 0)
    /\ UNCHANGED <<turn, read, before, rows, counters, scraped, open, sent, faults, served, counted>>

\* The traffic, or a query that does not even reach Prometheus, raises, and the report with it:
\* nothing is printed.
Raise ==
    /\ phase \in {"before", "traffic", "after"}
    /\ phase' = "lost"
    /\ UNCHANGED <<turn, read, before, rows, backendVars, sent, faults, served, counted, blurred>>

\* A faulty SettledWhen: nothing is waited for.
SettledAtOnce == TRUE

\* settle is no shorter than the scrape interval (cli.py, --settle).
SettledWhen == due = {}

Settled ==
    /\ phase = "settle" /\ SettledWhen
    /\ phase' = "after"
    /\ UNCHANGED <<turn, read, before, rows, backendVars, sent, faults, served, counted, blurred>>

Record ==
    /\ phase = "after" /\ Len(read) = Len(Asked)
    /\ rows' = [r \in DOMAIN rows \cup {Route} |->
                    IF r = Route THEN Minus(Snapshot, before) ELSE rows[r]]
    /\ read' = << >>
    /\ IF turn < Len(Compare)
       THEN turn' = turn + 1 /\ phase' = "before"
       ELSE UNCHANGED turn /\ phase' = "done"
    /\ UNCHANGED <<before, backendVars, sent, faults, served, counted, blurred>>

-----------------------------------------------------------------------------
(* The backend and Prometheus *)

Send ==
    /\ phase = "traffic" /\ sent < MaxRequests
    /\ sent' = sent + 1
    /\ open' = open + 1
    /\ UNCHANGED <<reportVars, counters, scraped, due, faults, served, counted, blurred>>

Serve(replica) ==
    /\ open > 0
    /\ open' = open - 1
    /\ \E one \in Work :
        /\ counters' = [counters EXCEPT ![replica] = Plus(@, one)]
        /\ served' = [served EXCEPT ![turn] = Plus(@, one)]
        /\ counted' = Plus(counted, one)
    /\ UNCHANGED <<reportVars, scraped, due, sent, faults, blurred>>

Scrape(replica) ==
    /\ scraped' = [scraped EXCEPT ![replica] = counters[replica]]
    /\ due' = due \ {replica}
    /\ UNCHANGED <<reportVars, counters, open, sent, faults, served, counted, blurred>>

Restart(replica) ==
    /\ faults < MaxFaults
    /\ counters' = [counters EXCEPT ![replica] = Zero]
    /\ faults' = faults + 1
    /\ blurred' = TRUE
    /\ UNCHANGED <<reportVars, scraped, due, open, sent, served, counted>>

\* What the backend does after the report has ended is not looked at.
Backend ==
    /\ phase \notin {"done", "lost"}
    /\ \E replica \in Replica : Serve(replica) \/ Scrape(replica) \/ Restart(replica)

Next == Query \/ Start \/ EndTraffic \/ Raise \/ Settled \/ Record \/ Send \/ Backend

Spec == Init /\ [][Next]_vars

-----------------------------------------------------------------------------
Finished(i) == i < turn \/ phase = "done"

\* "Attribute the delta to just this run" (cli.py, report): with everything shown before the
\* report, no request given up on and no fault, every row is exactly what the backend counted
\* for its own traffic, the second route's too although its first snapshot is not waited for.
\* (Of a route that is named twice the report keeps the later row.)
CleanRowsAreExact ==
    ~blurred => \A i \in DOMAIN Compare :
        /\ Finished(i)
        /\ \A j \in DOMAIN Compare : Finished(j) /\ Compare[j] = Compare[i] => j <= i
        => rows[Compare[i]] = served[i]

\* Late requests and late scrapes may move work from one route's row to the next's, or to
\* none, but without a restart or a failed query nothing is in two rows, and no difference
\* is negative.
NothingIsCountedTwice ==
    faults = 0 => \A m \in Metric :
        /\ \A r \in DOMAIN rows : rows[r][m] >= 0
        /\ SumFunction([r \in DOMAIN rows |-> rows[r][m]]) <= counted[m]
=============================================================================
