------------------------------- MODULE Traffic -------------------------------
(***************************************************************************)
(* The live traffic generator (src/bench/traffic.py): run_traffic, which   *)
(* dispatches one task per request, and run_session_traffic, which runs    *)
(* one coroutine per session.  Both are coroutines of one asyncio loop;    *)
(* the gateway answers when and how it likes.                              *)
(*                                                                         *)
(* A job is what holds one permit of the semaphore while it runs: a single *)
(* request, or a session of several turns.  Time passes only while the     *)
(* loop has nothing to run.  The clock is bounded: MaxTime stands for any  *)
(* time from then on.                                                      *)
(***************************************************************************)
EXTENDS Integers, FiniteSets, Sequences, FiniteSetsExt

CONSTANTS
    Concurrency,
    NumRequests,    \* run_traffic: how many requests
    Intervals,      \* run_traffic: 1 / qps, or 0 for a closed loop
    Sessions,       \* run_session_traffic: per session its turns' arrivals after the first
    MaxTime

ASSUME ConcurrencyIsPositive == Concurrency \in Nat \ {0}
ASSUME NumRequestsIsNat == NumRequests \in Nat
ASSUME TimesAreNat == MaxTime \in Nat /\ Intervals \subseteq Nat
ASSUME SessionsHaveTurns == Sessions \in Seq(Seq(Nat) \ {<<>>})

VARIABLES
    work,       \* job -> the times its requests are due, after the job has begun
    time,
    phase,      \* of the calling coroutine: "dispatch", "gather", "returned", "raised"
    permits,    \* the semaphore's value
    stage,      \* of each job: "new", "ready", "posted", "streaming", "over", "failed"
    begun,      \* when each job took its permit (requests of run_traffic: the run's start)
    done,       \* how many requests of each job have ended and been tallied
    result,     \* BenchmarkResult: how often each of its lists and counters grew
    sent        \* history: when each job's requests were posted

vars == <<work, time, phase, permits, stage, begun, done, result, sent>>

Job == DOMAIN work
AnyJob == 1..Max({NumRequests, Len(Sessions)})
Counter == {"ttfts", "e2e", "successes", "errors"}
Running == {"ready", "posted", "streaming"}

\* run_traffic's requests, i / qps after the start.
Paced(interval) == [i \in 1..NumRequests |-> <<(i - 1) * interval>>]

Init ==
    /\ \/ work \in {Paced(interval) : interval \in Intervals} /\ phase = "dispatch"
       \/ work = Sessions /\ phase = "gather"
    /\ time = 0
    /\ permits = Concurrency
    /\ stage = [j \in Job |-> "new"]
    /\ begun = [j \in Job |-> 0]
    /\ done = [j \in Job |-> 0]
    /\ result = [c \in Counter |-> 0]
    /\ sent = [j \in Job |-> <<>>]

-----------------------------------------------------------------------------
(* The loop's side *)

Active == phase \in {"dispatch", "gather"}

\* A faulty pace: the first request is not waited for, and the others one too early.
DueOfPrevious(j) == begun[j] + (IF done[j] = 0 THEN 0 ELSE work[j][done[j]])

\* When the next request of j may go out.
Due(j) == begun[j] + work[j][done[j] + 1]
IsDue(j) == time >= Due(j) \/ time = MaxTime

\* A faulty semaphore: paced requests do not wait for it.
FreeIfUnpaced == permits > 0 \/ (phase = "dispatch" /\ Due(NumRequests) > 0)

Free == permits > 0

\* Jobs take their permits in order: run_traffic's loop does, and a semaphore wakes its
\* waiters first come, first served.
NextNew(j) == stage[j] = "new" /\ \A i \in Job : stage[i] = "new" => j <= i

\* run_traffic sleeps until the request is due, then acquires, then creates its task.
CanDispatch(j) == phase = "dispatch" /\ NextNew(j) /\ IsDue(j) /\ Free
Dispatch(j) ==
    /\ CanDispatch(j)
    /\ permits' = permits - 1
    /\ stage' = [stage EXCEPT ![j] = "ready"]
    /\ UNCHANGED <<work, time, phase, begun, done, result, sent>>

\* Every request has its task: run_traffic goes on to gather them.
CanGather == phase = "dispatch" /\ \A j \in Job : stage[j] # "new"
Gather ==
    /\ CanGather
    /\ phase' = "gather"
    /\ UNCHANGED <<work, time, permits, stage, begun, done, result, sent>>

\* A session gets its permit; its clock starts.
CanBegin(j) == phase = "gather" /\ NextNew(j) /\ Free
Begin(j) ==
    /\ CanBegin(j)
    /\ permits' = permits - 1
    /\ stage' = [stage EXCEPT ![j] = "ready"]
    /\ begun' = [begun EXCEPT ![j] = time]
    /\ UNCHANGED <<work, time, phase, done, result, sent>>

CanPost(j) == Active /\ stage[j] = "ready" /\ IsDue(j)
Post(j) ==
    /\ CanPost(j)
    /\ stage' = [stage EXCEPT ![j] = "posted"]
    /\ sent' = [sent EXCEPT ![j] = Append(@, time)]
    /\ UNCHANGED <<work, time, phase, permits, begun, done, result>>

\* gather: everything has ended, or something raised.  The exception leaves asyncio.run,
\* which cancels what still runs; no result is returned.
CanReturn == phase = "gather" /\ \A j \in Job : stage[j] = "over"
CanRaise == phase = "gather" /\ \E j \in Job : stage[j] = "failed"
Return ==
    /\ CanReturn
    /\ phase' = "returned"
    /\ UNCHANGED <<work, time, permits, stage, begun, done, result, sent>>
Raise ==
    /\ CanRaise
    /\ phase' = "raised"
    /\ UNCHANGED <<work, time, permits, stage, begun, done, result, sent>>

Runnable ==
    \/ CanGather \/ CanReturn \/ CanRaise
    \/ \E j \in Job : CanDispatch(j) \/ CanBegin(j) \/ CanPost(j)

Tick ==
    /\ Active /\ ~Runnable
    /\ time < MaxTime
    /\ time' = time + 1
    /\ UNCHANGED <<work, phase, permits, stage, begun, done, result, sent>>

-----------------------------------------------------------------------------
(* The gateway's side: how a request goes on, in _stream_chat *)

InFlight(j) == Active /\ stage[j] \in {"posted", "streaming"}

\* A faulty finally: an exception keeps the permit.
LeaveKeepingPermit(j, s) ==
    /\ stage' = [stage EXCEPT ![j] = s]
    /\ permits' = IF s = "failed" THEN permits ELSE permits + 1

\* The job ends, whichever way, and gives its permit back.
Leave(j, s) ==
    /\ stage' = [stage EXCEPT ![j] = s]
    /\ permits' = permits + 1

\* A request was tallied; the job goes on to its next one, if any.
Tallied(j) ==
    /\ done' = [done EXCEPT ![j] = @ + 1]
    /\ IF done[j] + 1 < Len(work[j])
       THEN stage' = [stage EXCEPT ![j] = "ready"] /\ UNCHANGED permits
       ELSE Leave(j, "over")
    /\ UNCHANGED <<work, time, phase, begun, sent>>

Refuse(j) ==
    /\ Active /\ stage[j] = "posted"
    /\ result' = [result EXCEPT !["errors"] = @ + 1]
    /\ Tallied(j)

FirstChunk(j) ==
    /\ Active /\ stage[j] = "posted"
    /\ stage' = [stage EXCEPT ![j] = "streaming"]
    /\ result' = [result EXCEPT !["ttfts"] = @ + 1]
    /\ UNCHANGED <<work, time, phase, permits, begun, done, sent>>

\* A faulty ErrorChunk: no return, the stream is read on.
ErrorChunkGoesOn(j) ==
    /\ Active /\ stage[j] = "posted"
    /\ stage' = [stage EXCEPT ![j] = "streaming"]
    /\ result' = [result EXCEPT !["errors"] = @ + 1]
    /\ UNCHANGED <<work, time, phase, permits, begun, done, sent>>

\* A chunk that is an error object, the first or a later one.
ErrorChunk(j) ==
    /\ InFlight(j)
    /\ result' = [result EXCEPT !["errors"] = @ + 1]
    /\ Tallied(j)

\* The response ends; it may have been empty.
Finish(j) ==
    /\ InFlight(j)
    /\ result' = [result EXCEPT !["e2e"] = @ + 1, !["successes"] = @ + 1]
    /\ Tallied(j)

\* A client error of aiohttp: the stream was reset, the connection failed.
Break(j) ==
    /\ InFlight(j)
    /\ result' = [result EXCEPT !["errors"] = @ + 1]
    /\ Tallied(j)

\* Any other exception, such as the timeout of the whole request, leaves the coroutine.
Fail(j) ==
    /\ InFlight(j)
    /\ Leave(j, "failed")
    /\ UNCHANGED <<work, time, phase, begun, done, result, sent>>

End(j) == Refuse(j) \/ ErrorChunk(j) \/ Finish(j) \/ Break(j) \/ Fail(j)

-----------------------------------------------------------------------------
Next ==
    \/ Tick \/ Gather \/ Return \/ Raise
    \/ \E j \in Job : Dispatch(j) \/ Begin(j) \/ Post(j) \/ FirstChunk(j) \/ End(j)

\* The loop runs what is ready, time passes, and a request ends at the latest by the client's
\* timeout for the whole of it (five minutes, aiohttp's default).
Fairness ==
    /\ WF_vars(Tick) /\ WF_vars(Gather) /\ WF_vars(Return) /\ WF_vars(Raise)
    /\ \A j \in AnyJob : WF_vars(j \in Job /\ (Dispatch(j) \/ Begin(j) \/ Post(j)))
    /\ \A j \in AnyJob : WF_vars(j \in Job /\ End(j))

Spec == Init /\ [][Next]_vars /\ Fairness

-----------------------------------------------------------------------------
(* Properties *)

\* "`concurrency` is a safety cap on in-flight requests so a stalled backend cannot create
\* unbounded tasks": never more jobs than that, and every permit is with a job or free.
PermitsAreKept ==
    /\ Cardinality({j \in Job : stage[j] \in Running}) + permits = Concurrency
    /\ permits >= 0

\* The k-th request of job j is <<j, k>>: all there are, those posted, and those that ended.
Requests == UNION {{j} \X DOMAIN work[j] : j \in Job}
Posted == UNION {{j} \X DOMAIN sent[j] : j \in Job}
Ended == UNION {{j} \X (1..done[j]) : j \in Job}

\* Each request is counted once, as a success or as an error, whichever way its response
\* went; a run that returns has counted them all.  Only successes have an end-to-end time, and
\* no request has two times to its first chunk.
EachIsTalliedOnce ==
    /\ result["successes"] + result["errors"] = Cardinality(Ended)
    /\ phase = "returned" => Ended = Requests
    /\ result["e2e"] = result["successes"]
    /\ result["ttfts"] <= Cardinality(Posted)

\* Open-loop pacing: no request goes out before its time, i / qps after the start or its
\* modelled arrival after its session's first turn, whatever the earlier ones took.
NeverSentEarly ==
    \A j \in Job : \A k \in DOMAIN sent[j] :
        sent[j][k] >= begun[j] + work[j][k] \/ sent[j][k] = MaxTime

\* No permit is lost on any of the ways a request can end, so the run comes to an end.
RunEnds == <>(phase \in {"returned", "raised"})

-----------------------------------------------------------------------------
(* What a docstring says, and the code does not do *)

\* run_session_traffic, lines 198-200: "turns are paced by the workload's arrival gaps ... so a
\* timing-observing router sees the same re-arrival gaps the generator modeled".  A turn
\* held up by a slow answer goes out late while the next one keeps to the schedule, so
\* the gap between them is shorter than modelled.
GapsAreAtLeastModelled ==
    \A j \in Job : \A k \in DOMAIN sent[j] :
        k > 1 /\ sent[j][k] < MaxTime
            => sent[j][k] - sent[j][k - 1] >= work[j][k] - work[j][k - 1]
=============================================================================
