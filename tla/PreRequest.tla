----------------------------- MODULE PreRequest -----------------------------
(***************************************************************************)
(* The kv-cache-priority plugin (gateway-plugin/prerequest.go) under       *)
(* concurrent requests: PreRequest runs in one goroutine per request, and  *)
(* only ObserveGap, Record and Predict are each under a lock of their own. *)
(* The clock is read before any of them.                                   *)
(*                                                                         *)
(* pc: "idle" -> ("clock" -> "observe" -> ["record"] -> "predict") ->      *)
(* "done".  Bounded by MaxTime and MaxRequests.                            *)
(***************************************************************************)
EXTENDS GapTables

CONSTANTS
    Proc,          \* goroutines
    InferenceRequest,   \* requests [session, body, header] that may arrive
    MaxTime, MaxRequests

ASSUME BoundsAreNat == MaxTime \in Nat /\ MaxRequests \in Nat

EvictFirstPriority == -1
HighPriority == 50

\* Header values: none, one whose leading integer does not parse, or [prio, ttl] with a
\* lease in 1/Scale (0 for a directive without ttl).
NoHeader == [kind |-> "none"]
Unparsed == [kind |-> "unparsed"]
Asks(prio, ttl) == [kind |-> "directive", prio |-> prio, ttl |-> ttl]

ASSUME RequestsAreTyped ==
    /\ InferenceRequest # {}
    /\ \A r \in InferenceRequest : r.header.kind = "directive" => r.header.prio \in Int

VARIABLES
    time,       \* the clock
    tracker,    \* SessionTracker: conversation key -> last seen
    index,      \* ToolGapIndex: tool -> estimate
    arrived,    \* how many requests have arrived
    pc, req, header, clock, gap,   \* each goroutine's place, its request as it came, the
                                   \* header it leaves on it, its clock reading and gap
    overlapped, \* history: the conversations that had two turns in progress at once
    anchor,     \* history: per conversation, when its last turn came that taught nothing
    learned,    \* history: per conversation, the sum of the gaps learned since then
    gaps        \* history: per tool, the gaps recorded of it since it entered the index

history == <<overlapped, anchor, learned, gaps>>
vars == <<time, tracker, index, arrived, pc, req, header, clock, gap, history>>

Scopes == {ConversationKey(r.session, r.body) : r \in InferenceRequest} \ {NoScope}
Tools == {LastToolName(r.body) : r \in InferenceRequest} \ {NoTool}

ScopeOf(p) == ConversationKey(req[p].session, req[p].body)
ToolOf(p) == LastToolName(req[p].body)

Busy(p) == pc[p] \notin {"idle", "done"}

Init ==
    /\ time = 0
    /\ tracker = EmptyTable
    /\ index = EmptyTable
    /\ arrived = 0
    /\ pc = [p \in Proc |-> "idle"]
    /\ req = [p \in Proc |-> CHOOSE r \in InferenceRequest : TRUE]
    /\ header = [p \in Proc |-> NoHeader]
    /\ clock = [p \in Proc |-> 0]
    /\ gap = [p \in Proc |-> 0]
    /\ overlapped = {}
    /\ anchor = [s \in Scopes |-> 0]
    /\ learned = [s \in Scopes |-> 0]
    /\ gaps = [t \in Tools |-> {}]

Tick ==
    /\ time < MaxTime
    /\ time' = time + 1
    /\ UNCHANGED <<tracker, index, arrived, pc, req, header, clock, gap, history>>

-----------------------------------------------------------------------------
(* Answering a request *)

\* A faulty Merged: the router's directive replaces whatever the client asked.
MergedAlways(asked, directive) == directive

\* The router caps what the client asks, and never raises it.
Merged(asked, directive) ==
    IF asked.kind = "directive" /\ asked.prio <= directive.prio THEN asked ELSE directive

\* The conversation of r, if another goroutine is busy on it.
Overlapping(p, r) ==
    {s \in Scopes : /\ s = ConversationKey(r.session, r.body)
                    /\ \E q \in Proc \ {p} : Busy(q) /\ ScopeOf(q) = s}

\* A request is scheduled to p: decide up to the clock reading.
Arrive(p, r) ==
    /\ ~Busy(p)
    /\ arrived < MaxRequests
    /\ arrived' = arrived + 1
    /\ req' = [req EXCEPT ![p] = r]
    /\ header' = [header EXCEPT ![p] =
                    IF Classify(r.body) = "oneshot"
                    THEN Merged(r.header, Asks(EvictFirstPriority, 0)) ELSE r.header]
    /\ pc' = [pc EXCEPT ![p] = IF Classify(r.body) = "tool" THEN "clock" ELSE "done"]
    /\ overlapped' = overlapped \cup Overlapping(p, r)
    /\ UNCHANGED <<time, tracker, index, clock, gap, anchor, learned, gaps>>

ReadClock(p) ==
    /\ pc[p] = "clock"
    /\ clock' = [clock EXCEPT ![p] = time]
    /\ pc' = [pc EXCEPT ![p] = "observe"]
    /\ UNCHANGED <<time, tracker, index, arrived, req, header, gap, history>>

\* What a turn of s leaves in the history: a gap that is learned, or a new starting point.
Turn(s, now, seen) ==
    /\ learned' = IF s = NoScope THEN learned
                  ELSE [learned EXCEPT ![s] = IF seen.learn THEN @ + seen.gap ELSE 0]
    /\ anchor' = IF s = NoScope \/ seen.learn THEN anchor ELSE [anchor EXCEPT ![s] = now]

\* sessions.ObserveGap, under its lock.
ObserveGap(p) ==
    /\ pc[p] = "observe"
    /\ LET seen == Observed(tracker, ScopeOf(p), ToolOf(p), clock[p])
       IN  /\ tracker' = seen.tracker
           /\ gap' = [gap EXCEPT ![p] = seen.gap]
           /\ pc' = [pc EXCEPT ![p] = IF seen.learn THEN "record" ELSE "predict"]
           /\ Turn(ScopeOf(p), clock[p], seen)
    /\ UNCHANGED <<time, index, arrived, req, header, clock, overlapped, gaps>>

\* index.Record, under its lock.
Record(p) ==
    /\ pc[p] = "record"
    /\ index' = Recorded(index, ToolOf(p), gap[p])
    /\ pc' = [pc EXCEPT ![p] = "predict"]
    /\ gaps' = [gaps EXCEPT ![ToolOf(p)] =
                    (IF Has(index, ToolOf(p)) THEN @ ELSE {}) \cup {gap[p]}]
    /\ UNCHANGED <<time, tracker, arrived, req, header, clock, gap, overlapped, anchor, learned>>

\* index.Predict, under its lock, and the rest of decide and PreRequest.
Predict(p) ==
    /\ pc[p] = "predict"
    /\ LET est == Estimate(index, ToolOf(p))
       IN  header' = [header EXCEPT ![p] =
                        IF WorthPinning(est) THEN Merged(@, Asks(HighPriority, LeaseWindow(est))) ELSE @]
    /\ pc' = [pc EXCEPT ![p] = "done"]
    /\ UNCHANGED <<time, tracker, index, arrived, req, clock, gap, history>>

Next ==
    \/ Tick
    \/ \E p \in Proc, r \in InferenceRequest : Arrive(p, r)
    \/ \E p \in Proc : ReadClock(p) \/ ObserveGap(p) \/ Record(p) \/ Predict(p)

Spec == Init /\ [][Next]_vars

-----------------------------------------------------------------------------
(* Invariants *)

\* Every variable keeps to its range; both tables stay within their capacity ("cost is
\* hard-capped regardless of how many distinct tools appear", toolgap.go), and no variance
\* turns negative.
TypeOK ==
    /\ time \in 0..MaxTime
    /\ arrived \in 0..MaxRequests
    /\ IsTable(tracker, TrackerCapacity) /\ DOMAIN tracker.val \subseteq Scopes
    /\ \A s \in DOMAIN tracker.val : tracker.val[s] \in 0..time
    /\ IsTable(index, IndexCapacity) /\ DOMAIN index.val \subseteq Tools
    /\ \A t \in DOMAIN index.val :
         index.val[t] \in [count : Nat \ {0}, mean : Int, var : Nat]
    /\ pc \in [Proc -> {"idle", "clock", "observe", "record", "predict", "done"}]
    /\ req \in [Proc -> InferenceRequest]
    /\ clock \in [Proc -> 0..time]
    /\ gap \in [Proc -> -MaxTime..MaxTime]

\* The table is read and written under one lock: no turn is lost between two others.  The
\* gaps learned from a conversation since its last turn that taught nothing add up to
\* exactly the time it has covered since then, whatever turns of it run at once.
GapsTelescope ==
    \A s \in DOMAIN tracker.val : tracker.val[s] = anchor[s] + learned[s]

\* "Learned from timing alone" (toolgap.go): the mean of a tool lies between two gaps that
\* were observed of it since it entered the table, in whatever order goroutines recorded them.
MeanWithinObserved ==
    \A t \in DOMAIN index.val :
        \E short, long \in gaps[t] :
            short * Scale <= index.val[t].mean /\ index.val[t].mean <= long * Scale

\* A gap is never negative in a conversation whose turns never overlap, even though the
\* clock is read outside the lock.
ForwardUnlessOverlapped ==
    \A p \in Proc : pc[p] = "record" /\ ScopeOf(p) \notin overlapped => gap[p] >= 0

\* "The router wins downward ... but never raises a client directive that already asks for
\* less" (prerequest.go): what is forwarded never asks for more than the client did.
NeverRaisesClient ==
    \A p \in Proc :
        pc[p] = "done" /\ req[p].header.kind = "directive"
            => header[p].kind = "directive" /\ header[p].prio <= req[p].header.prio

-----------------------------------------------------------------------------
(* Action properties *)

PinnedBy(p) == pc[p] = "predict" /\ pc'[p] = "done" /\ header'[p] # header[p]

\* "A long predicted gap, or an unpredictable or unseen tool, adds no retention"
\* (prerequest.go): a pin names a tool that has been seen to return within ShortGap.
PinsFollowShortReturns ==
    [][\A p \in Proc : PinnedBy(p)
         => /\ ToolOf(p) \in DOMAIN index.val
            /\ \E g \in gaps[ToolOf(p)] : g <= ShortGap]_vars

\* A tool of which every observed gap was the same short one is pinned for that gap with
\* the margin, however many goroutines learn and predict at once.
SteadyToolIsPinned ==
    [][\A p \in Proc, g \in 0..ShortGap :
         /\ pc[p] = "predict" /\ pc'[p] = "done" /\ header[p] = NoHeader
         /\ ToolOf(p) \in DOMAIN index.val /\ gaps[ToolOf(p)] = {g}
         => header'[p] = Asks(HighPriority, (g * Scale * MarginNum) \div MarginDen)]_vars

-----------------------------------------------------------------------------
(* What comments say, and the code does not do *)

\* prerequest.go lines 46-48: "a HIGH lease sized to the predicted gap, so the prefix
\* survives eviction until the session comes back".  Two turns of one conversation may take
\* the lock in the other order than they read the clock: the gap, the mean and the lease
\* are then negative.
LeaseIsAhead ==
    \A p \in Proc : pc[p] = "done" /\ header[p].kind = "directive" => header[p].ttl >= 0
=============================================================================
