---------------------------- MODULE TrafficProofs ----------------------------
(***************************************************************************)
(* What holds of the traffic generator for every number of permits, of     *)
(* requests and of sessions, every pace and every schedule of turns.       *)
(***************************************************************************)
EXTENDS Traffic, FiniteSetTheorems, SequenceTheorems, TLAPS

-----------------------------------------------------------------------------
(* Types *)

Stage == Running \cup {"new", "over", "failed"}

TypeOK ==
    /\ work \in Seq(Seq(Nat) \ {<<>>})
    /\ time \in 0..MaxTime
    /\ phase \in {"dispatch", "gather", "returned", "raised"}
    /\ permits \in Nat
    /\ stage \in [Job -> Stage]
    /\ begun \in [Job -> 0..MaxTime]
    /\ done \in [Job -> Nat]
    /\ result \in [Counter -> Nat]
    /\ sent \in [Job -> Seq(0..MaxTime)]

\* The requests of run_traffic are jobs of one request each.
LEMMA PacedIsWork ==
    ASSUME NEW interval \in Nat
    PROVE  Paced(interval) \in Seq(Seq(Nat) \ {<<>>})
<1> DEFINE e(i) == <<(i - 1) * interval>>
<1>1. ASSUME NEW i \in 1..NumRequests
      PROVE  e(i) \in Seq(Nat) \ {<<>>}
  <2>1. (i - 1) * interval \in Nat
    BY NumRequestsIsNat
  <2> QED
    BY <2>1
<1>2. [i \in 1..NumRequests |-> e(i)] \in Seq(Seq(Nat) \ {<<>>})
  <2> HIDE DEF e
  <2> QED
    BY <1>1, NumRequestsIsNat, IsASeq
<1> QED
  BY <1>2 DEF Paced

LEMMA InitTypeOK == Init => TypeOK
<1> SUFFICES ASSUME Init
             PROVE  TypeOK
  OBVIOUS
<1>1. work \in Seq(Seq(Nat) \ {<<>>})
  BY PacedIsWork, TimesAreNat, SessionsHaveTurns DEF Init
<1>2. /\ permits \in Nat /\ phase \in {"dispatch", "gather", "returned", "raised"}
      /\ time \in 0..MaxTime
  BY ConcurrencyIsPositive, TimesAreNat DEF Init
<1>3. /\ stage \in [Job -> Stage] /\ begun \in [Job -> 0..MaxTime] /\ done \in [Job -> Nat]
      /\ result \in [Counter -> Nat]
      /\ sent \in [Job -> Seq(0..MaxTime)]
  BY TimesAreNat DEF Init, Stage
<1> QED
  BY <1>1, <1>2, <1>3 DEF TypeOK

\* Tallying one request of j: its count goes up, and it goes on or leaves.
LEMMA TalliedStep ==
    ASSUME NEW j, Tallied(j)
    PROVE  /\ done' = [done EXCEPT ![j] = @ + 1]
           /\ \/ /\ done[j] + 1 < Len(work[j])
                 /\ stage' = [stage EXCEPT ![j] = "ready"] /\ permits' = permits
              \/ /\ ~(done[j] + 1 < Len(work[j]))
                 /\ stage' = [stage EXCEPT ![j] = "over"] /\ permits' = permits + 1
           /\ work' = work /\ time' = time /\ phase' = phase /\ begun' = begun /\ sent' = sent
BY DEF Tallied, Leave

LEMMA NextTypeOK == TypeOK /\ [Next]_vars => TypeOK'
<1> SUFFICES ASSUME TypeOK, [Next]_vars
             PROVE  TypeOK'
  OBVIOUS
<1> USE DEF Job
<1>1. CASE Tick
  BY <1>1, TimesAreNat, SMTT(30) DEF TypeOK, Tick
<1>2. CASE Gather \/ Return \/ Raise
  BY <1>2 DEF TypeOK, Gather, Return, Raise
<1>3. ASSUME NEW j \in Job, Dispatch(j)
      PROVE  TypeOK'
  BY <1>3 DEF TypeOK, Dispatch, CanDispatch, Free, Stage, Running
<1>4. ASSUME NEW j \in Job, Begin(j)
      PROVE  TypeOK'
  BY <1>4 DEF TypeOK, Begin, CanBegin, Free, Stage, Running
<1>5. ASSUME NEW j \in Job, Post(j)
      PROVE  TypeOK'
  <2>1. sent' \in [Job -> Seq(0..MaxTime)]
    <3>1. Append(sent[j], time) \in Seq(0..MaxTime)
      BY DEF TypeOK
    <3> QED
      BY <1>5, <3>1 DEF TypeOK, Post
  <2> QED
    BY <1>5, <2>1 DEF TypeOK, Post, Stage, Running
<1>6. ASSUME NEW j \in Job, FirstChunk(j)
      PROVE  TypeOK'
  BY <1>6, SMTT(30) DEF TypeOK, FirstChunk, Counter, Stage, Running
<1>7. ASSUME NEW j \in Job, Refuse(j) \/ ErrorChunk(j) \/ Finish(j) \/ Break(j)
      PROVE  TypeOK'
  <2>1. Tallied(j)
    BY <1>7 DEF Refuse, ErrorChunk, Finish, Break
  <2>2. result' \in [Counter -> Nat]
    <3> result \in [Counter -> Nat]
      BY DEF TypeOK
    <3>1. CASE result' = [result EXCEPT !["errors"] = @ + 1]
      BY <3>1 DEF Counter
    <3>2. CASE result' = [result EXCEPT !["e2e"] = @ + 1, !["successes"] = @ + 1]
      BY <3>2 DEF Counter
    <3> QED
      BY <1>7, <3>1, <3>2 DEF Refuse, ErrorChunk, Finish, Break
  <2>3. done' \in [Job -> Nat] /\ stage' \in [Job -> Stage] /\ permits' \in Nat
    <3> done \in [Job -> Nat] /\ stage \in [Job -> Stage] /\ permits \in Nat
      BY DEF TypeOK
    <3> QED
      BY <2>1, TalliedStep DEF Stage, Running
  <2> QED
    BY <2>1, <2>2, <2>3, TalliedStep DEF TypeOK
<1>8. ASSUME NEW j \in Job, Fail(j)
      PROVE  TypeOK'
  BY <1>8 DEF TypeOK, Fail, Leave, Stage, Running
<1>9. CASE UNCHANGED vars
  BY <1>9 DEF TypeOK, vars
<1> QED
  BY <1>1, <1>2, <1>3, <1>4, <1>5, <1>6, <1>7, <1>8, <1>9 DEF Next, End

\* No step takes a permit that is not there, and every count is one.
THEOREM TypeCorrect == Spec => []TypeOK
BY InitTypeOK, NextTypeOK, PTL DEF Spec

-----------------------------------------------------------------------------
(* How far each job has come *)

\* The posted requests of a job are its ended ones and, while one is in flight or has raised,
\* that one.
StageMatches(j) ==
    /\ stage[j] = "new" => done[j] = 0
    /\ stage[j] \in Running \cup {"failed"} => done[j] < Len(work[j])
    /\ stage[j] = "over" => done[j] = Len(work[j])
    /\ stage[j] \in {"posted", "streaming", "failed"} => Len(sent[j]) = done[j] + 1
    /\ stage[j] \in {"new", "ready", "over"} => Len(sent[j]) = done[j]

StagesMatch ==
    /\ \A j \in Job : StageMatches(j)
    /\ phase = "returned" => \A j \in Job : stage[j] = "over"

\* A job has at least one request, and its counts are numbers.
LEMMA JobTypes ==
    ASSUME TypeOK, NEW j \in Job
    PROVE  /\ work[j] \in Seq(Nat) /\ Len(work[j]) \in Nat \ {0}
           /\ DOMAIN work[j] = 1..Len(work[j])
           /\ done[j] \in Nat /\ begun[j] \in Int /\ stage[j] \in Stage
           /\ sent[j] \in Seq(0..MaxTime) /\ Len(sent[j]) \in Nat
           /\ DOMAIN sent[j] = 1..Len(sent[j])
<1>1. work[j] \in Seq(Nat) \ {<<>>}
  BY DEF TypeOK, Job
<1>2. Len(work[j]) \in Nat \ {0}
  BY <1>1, EmptySeq
<1>3. begun[j] \in Int
  BY TimesAreNat DEF TypeOK
<1> QED
  BY <1>1, <1>2, <1>3 DEF TypeOK

\* A step of the loop alone moves no job; any other one moves one job of an active run.
LEMMA LoopStep ==
    ASSUME Tick \/ Gather \/ Return \/ Raise \/ UNCHANGED vars
    PROVE  /\ work' = work /\ permits' = permits /\ stage' = stage /\ begun' = begun
           /\ done' = done /\ result' = result /\ sent' = sent
           /\ phase' = "returned" /\ phase # "returned" => \A j \in Job : stage[j] = "over"
BY DEF Tick, Gather, Return, CanReturn, Raise, vars

LEMMA OneJobSteps ==
    ASSUME TypeOK,
           NEW j \in Job, Dispatch(j) \/ Begin(j) \/ Post(j) \/ FirstChunk(j) \/ End(j)
    PROVE  /\ work' = work /\ time' = time /\ phase' = phase /\ phase # "returned"
           /\ \A i \in Job \ {j} :
                 /\ stage'[i] = stage[i] /\ begun'[i] = begun[i]
                 /\ done'[i] = done[i] /\ sent'[i] = sent[i]
<1>1. CASE Dispatch(j) \/ Begin(j) \/ Post(j) \/ FirstChunk(j) \/ Fail(j)
  BY <1>1 DEF TypeOK, Dispatch, CanDispatch, Begin, CanBegin, Post, CanPost, FirstChunk, Fail,
              InFlight, Active, Leave
<1>2. CASE Refuse(j) \/ ErrorChunk(j) \/ Finish(j) \/ Break(j)
  <2>1. Tallied(j) /\ Active
    BY <1>2 DEF Refuse, ErrorChunk, Finish, Break, InFlight
  <2>2. /\ done' = [done EXCEPT ![j] = @ + 1]
        /\ \/ stage' = [stage EXCEPT ![j] = "ready"]
           \/ stage' = [stage EXCEPT ![j] = "over"]
        /\ work' = work /\ time' = time /\ phase' = phase /\ begun' = begun /\ sent' = sent
    BY <2>1, TalliedStep, Zenon
  <2>3. phase # "returned"
    BY <2>1 DEF Active
  <2>4. ASSUME NEW i \in Job \ {j}
        PROVE  stage'[i] = stage[i] /\ done'[i] = done[i]
    BY <2>2 DEF TypeOK
  <2> QED
    BY <2>2, <2>3, <2>4
<1> QED
  BY <1>1, <1>2 DEF End

LEMMA InitStagesMatch == Init => StagesMatch
BY DEF Init, StagesMatch, StageMatches, Running

LEMMA NextStagesMatch == TypeOK /\ StagesMatch /\ [Next]_vars => StagesMatch'
<1> SUFFICES ASSUME TypeOK, StagesMatch, [Next]_vars
             PROVE  StagesMatch'
  OBVIOUS
<1>1. CASE Tick \/ Gather \/ Return \/ Raise \/ UNCHANGED vars
  <2>1. phase' = "returned" /\ phase # "returned" => \A j \in Job : stage[j] = "over"
    BY <1>1, LoopStep
  <2> QED
    BY <1>1, <2>1, LoopStep DEF StagesMatch, StageMatches, Job
<1>2. ASSUME NEW j \in Job, Dispatch(j) \/ Begin(j) \/ Post(j) \/ FirstChunk(j) \/ End(j)
      PROVE  StagesMatch'
  <2>1. StageMatches(j)'
    <3> /\ StageMatches(j) /\ stage \in [Job -> Stage] /\ done \in [Job -> Nat]
        /\ sent \in [Job -> Seq(0..MaxTime)] /\ time \in 0..MaxTime
        /\ Len(work[j]) \in Nat \ {0}
      BY JobTypes DEF TypeOK, StagesMatch
    <3>1. CASE Dispatch(j) \/ Begin(j)
      BY <3>1 DEF StageMatches, Dispatch, CanDispatch, Begin, CanBegin, NextNew, Running
    <3>2. CASE Post(j)
      BY <3>2 DEF StageMatches, Post, CanPost, Running
    <3>3. CASE FirstChunk(j)
      BY <3>3 DEF StageMatches, FirstChunk, Running
    <3>4. CASE Refuse(j) \/ ErrorChunk(j) \/ Finish(j) \/ Break(j)
      <4>1. Tallied(j) /\ stage[j] \in {"posted", "streaming"}
        BY <3>4 DEF Refuse, ErrorChunk, Finish, Break, InFlight
      <4> QED
        BY <4>1, TalliedStep DEF StageMatches, Running
    <3>5. CASE Fail(j)
      BY <3>5 DEF StageMatches, Fail, InFlight, Leave, Running
    <3> QED
      BY <1>2, <3>1, <3>2, <3>3, <3>4, <3>5 DEF End
  <2> QED
    BY <1>2, <2>1, OneJobSteps DEF StagesMatch, StageMatches, Job
<1> QED
  BY <1>1, <1>2 DEF Next

\* How the stages and counts of the jobs fit together.
LEMMA AlwaysStagesMatch == Spec => [](TypeOK /\ StagesMatch)
BY InitTypeOK, NextTypeOK, InitStagesMatch, NextStagesMatch, PTL DEF Spec

-----------------------------------------------------------------------------
(* No request goes out early *)

LEMMA NextSentEarly ==
    TypeOK /\ StagesMatch /\ NeverSentEarly /\ [Next]_vars => NeverSentEarly'
<1> SUFFICES ASSUME TypeOK, StagesMatch, NeverSentEarly, [Next]_vars
             PROVE  NeverSentEarly'
  OBVIOUS
<1> DEFINE InTime(j) == \A k \in DOMAIN sent[j] :
                            sent[j][k] >= begun[j] + work[j][k] \/ sent[j][k] = MaxTime
<1>1. CASE Tick \/ Gather \/ Return \/ Raise \/ UNCHANGED vars
  BY <1>1, LoopStep DEF NeverSentEarly, Job
<1>2. ASSUME NEW j \in Job, Dispatch(j) \/ Begin(j) \/ Post(j) \/ FirstChunk(j) \/ End(j)
      PROVE  NeverSentEarly'
  <2>1. InTime(j)'
    <3>1. InTime(j)
      BY DEF NeverSentEarly
    <3>2. CASE Begin(j)
      <4>1. sent'[j] = sent[j] /\ stage[j] = "new"
        BY <3>2 DEF Begin, CanBegin, NextNew
      <4>2. DOMAIN sent[j] = {}
        BY <4>1, JobTypes DEF StagesMatch, StageMatches
      <4> QED
        BY <4>1, <4>2
    <3>3. CASE Post(j)
      <4>1. /\ sent'[j] = Append(sent[j], time) /\ begun' = begun /\ work' = work
            /\ IsDue(j) /\ stage[j] = "ready"
        BY <3>3 DEF Post, CanPost, TypeOK
      <4>2. Len(sent[j]) = done[j]
        BY <4>1 DEF StagesMatch, StageMatches
      <4>3. time >= begun[j] + work[j][Len(sent[j]) + 1] \/ time = MaxTime
        BY <4>1, <4>2 DEF IsDue, Due
      <4>4. DOMAIN sent'[j] = 1..(Len(sent[j]) + 1)
        BY <4>1, JobTypes DEF TypeOK
      <4>5. ASSUME NEW k \in 1..(Len(sent[j]) + 1)
            PROVE  sent'[j][k] = IF k = Len(sent[j]) + 1 THEN time ELSE sent[j][k]
        BY <4>1, JobTypes DEF TypeOK
      <4>6. \A k \in 1..(Len(sent[j]) + 1) : k # Len(sent[j]) + 1 => k \in DOMAIN sent[j]
        BY JobTypes
      <4> QED
        BY <3>1, <4>1, <4>3, <4>4, <4>5, <4>6
    <3>4. CASE Dispatch(j) \/ FirstChunk(j) \/ End(j)
      <4>1. sent' = sent /\ begun' = begun /\ work' = work
        BY <3>4, TalliedStep DEF Dispatch, FirstChunk, End, Refuse, ErrorChunk, Finish, Break, Fail
      <4> QED
        BY <3>1, <4>1
    <3> QED
      BY <1>2, <3>2, <3>3, <3>4
  <2>2. ASSUME NEW i \in Job \ {j}
        PROVE  InTime(i)'
    <3>1. InTime(i)
      BY DEF NeverSentEarly
    <3> QED
      BY <1>2, <3>1, OneJobSteps
  <2>3. work' = work
    BY <1>2, OneJobSteps
  <2> QED
    BY <2>1, <2>2, <2>3 DEF NeverSentEarly, Job
<1> QED
  BY <1>1, <1>2 DEF Next

\* Open-loop pacing: whatever the answers take, no request is posted before its time.
THEOREM PacingHolds == Spec => []NeverSentEarly
<1>1. Init => NeverSentEarly
  BY DEF Init, NeverSentEarly
<1> QED
  BY <1>1, AlwaysStagesMatch, NextSentEarly, PTL DEF Spec

-----------------------------------------------------------------------------
(* Permits *)

Busy == {j \in Job : stage[j] \in Running}

LEMMA BusyIsFinite == TypeOK => IsFiniteSet(Busy)
<1> SUFFICES ASSUME TypeOK
             PROVE  IsFiniteSet(Busy)
  OBVIOUS
<1>1. Len(work) \in Nat /\ Job = 1..Len(work)
  BY DEF TypeOK, Job
<1>2. IsFiniteSet(Job)
  BY <1>1, FS_Interval
<1> QED
  BY <1>2, FS_Subset DEF Busy

LEMMA NextPermits == TypeOK /\ PermitsAreKept /\ [Next]_vars => PermitsAreKept'
<1> SUFFICES ASSUME TypeOK, PermitsAreKept, [Next]_vars
             PROVE  PermitsAreKept'
  OBVIOUS
<1>1. /\ Cardinality(Busy) + permits = Concurrency /\ permits \in Nat
      /\ Cardinality(Busy) \in Nat /\ IsFiniteSet(Busy)
  BY BusyIsFinite, FS_CardinalityType DEF PermitsAreKept, Busy, TypeOK
<1>2. /\ work' = work /\ permits' \in Nat /\ stage \in [Job -> Stage]
      /\ Job' = Job /\ stage' \in [Job -> Stage]
  <2>1. work' = work
    BY LoopStep, OneJobSteps DEF Next
  <2>2. TypeOK'
    BY NextTypeOK
  <2> QED
    BY <2>1, <2>2 DEF TypeOK, Job
<1>3. SUFFICES Cardinality(Busy') + permits' = Concurrency
  BY <1>2 DEF PermitsAreKept, Busy
<1>4. CASE Busy' = Busy /\ permits' = permits
  BY <1>1, <1>4
<1>5. ASSUME NEW j \in Job, Busy' = Busy \cup {j}, j \notin Busy, permits' = permits - 1
      PROVE  Cardinality(Busy') + permits' = Concurrency
  <2>1. Cardinality(Busy \cup {j}) = Cardinality(Busy) + 1
    BY <1>1, <1>5, FS_AddElement
  <2> QED
    BY <1>1, <1>5, <2>1
<1>6. ASSUME NEW j \in Job, Busy' = Busy \ {j}, j \in Busy, permits' = permits + 1
      PROVE  Cardinality(Busy') + permits' = Concurrency
  BY <1>1, <1>6, FS_RemoveElement
<1>7. CASE Tick \/ Gather \/ Return \/ Raise \/ UNCHANGED vars
  BY <1>4, <1>7, LoopStep DEF Busy, Job
<1>8. ASSUME NEW j \in Job, Dispatch(j) \/ Begin(j)
      PROVE  Cardinality(Busy') + permits' = Concurrency
  <2>1. /\ stage[j] = "new" /\ stage' = [stage EXCEPT ![j] = "ready"]
        /\ permits' = permits - 1
    BY <1>8 DEF Dispatch, CanDispatch, Begin, CanBegin, NextNew
  <2>2. Busy' = Busy \cup {j} /\ j \notin Busy
    BY <1>2, <2>1 DEF Busy, Running
  <2> QED
    BY <1>5, <2>1, <2>2
<1>9. ASSUME NEW j \in Job, Post(j) \/ FirstChunk(j)
      PROVE  Cardinality(Busy') + permits' = Concurrency
  <2>1. /\ stage[j] \in Running /\ permits' = permits
        /\ \E s \in Running : stage' = [stage EXCEPT ![j] = s]
    BY <1>9 DEF Post, CanPost, FirstChunk, Running
  <2> QED
    BY <1>2, <1>4, <2>1 DEF Busy
<1>10. ASSUME NEW j \in Job, NEW s \in {"over", "failed"}, stage[j] \in Running, Leave(j, s)
       PROVE  Cardinality(Busy') + permits' = Concurrency
  <2>1. Busy' = Busy \ {j} /\ j \in Busy /\ permits' = permits + 1
    BY <1>2, <1>10 DEF Busy, Leave, Running
  <2> QED
    BY <1>6, <2>1
<1>11. ASSUME NEW j \in Job, stage[j] \in Running, Tallied(j)
       PROVE  Cardinality(Busy') + permits' = Concurrency
  <2>1. CASE stage' = [stage EXCEPT ![j] = "ready"] /\ permits' = permits
    BY <1>2, <1>4, <1>11, <2>1 DEF Busy, Running
  <2>2. CASE Leave(j, "over")
    BY <1>10, <1>11, <2>2
  <2> QED
    BY <1>11, <2>1, <2>2 DEF Tallied
<1>12. ASSUME NEW j \in Job, End(j)
       PROVE  Cardinality(Busy') + permits' = Concurrency
  <2>1. /\ stage[j] \in Running
        /\ Tallied(j) \/ Leave(j, "failed")
    BY <1>12 DEF End, Refuse, ErrorChunk, Finish, Break, Fail, InFlight, Running
  <2> QED
    BY <1>10, <1>11, <2>1
<1> QED
  BY <1>7, <1>8, <1>9, <1>12 DEF Next

\* The semaphore: never more than Concurrency jobs at once, and every permit is held by one or
\* free, however the jobs ended.
THEOREM PermitsAccounted == Spec => []PermitsAreKept
<1>1. Init => PermitsAreKept
  <2> SUFFICES ASSUME Init
               PROVE  PermitsAreKept
    OBVIOUS
  <2>1. {j \in Job : stage[j] \in Running} = {}
    BY DEF Init, Running
  <2>2. Cardinality({j \in Job : stage[j] \in Running}) = 0
    BY <2>1, FS_EmptySet, Zenon
  <2>3. permits = Concurrency /\ permits \in Nat
    BY ConcurrencyIsPositive DEF Init
  <2> QED
    BY <2>2, <2>3 DEF PermitsAreKept
<1> QED
  BY <1>1, TypeCorrect, NextPermits, PTL DEF Spec

-----------------------------------------------------------------------------
(* Every request is tallied once *)

\* The requests that still wait for their response to begin.
Awaiting == {<<j, done[j] + 1>> : j \in {i \in Job : stage[i] = "posted"}}

TalliesAgree ==
    /\ IsFiniteSet(Posted) /\ IsFiniteSet(Ended)
    /\ result["successes"] + result["errors"] = Cardinality(Ended)
    /\ result["e2e"] = result["successes"]
    /\ result["ttfts"] <= Cardinality(Posted \ Awaiting)

\* Membership in the sets of requests.
LEMMA EndedPairs == \A p : p \in Ended <=> \E j \in Job : \E k \in 1..done[j] : p = <<j, k>>
BY DEF Ended

LEMMA PostedPairs == \A p : p \in Posted <=> \E j \in Job : \E k \in DOMAIN sent[j] : p = <<j, k>>
BY DEF Posted

\* Posting, and the end of a request, each add one.
LEMMA PostAdds ==
    ASSUME TypeOK, StagesMatch, NEW j \in Job, Post(j)
    PROVE  /\ Posted' = Posted \cup {<<j, done[j] + 1>>} /\ <<j, done[j] + 1>> \notin Posted
           /\ Awaiting' = Awaiting \cup {<<j, done[j] + 1>>}
<1> DEFINE e == <<j, done[j] + 1>>
<1>1. /\ sent' = [sent EXCEPT ![j] = Append(@, time)] /\ stage' = [stage EXCEPT ![j] = "posted"]
      /\ work' = work /\ done' = done /\ stage[j] = "ready"
  BY DEF Post, CanPost
<1>2. Len(sent[j]) = done[j] /\ Job' = Job
  BY <1>1 DEF StagesMatch, StageMatches, Job
<1>3. DOMAIN sent'[j] = DOMAIN sent[j] \cup {done[j] + 1} /\ done[j] + 1 \notin DOMAIN sent[j]
  BY <1>1, <1>2, JobTypes DEF TypeOK
<1>4. \A i \in Job \ {j} : sent'[i] = sent[i] /\ stage'[i] = stage[i]
  BY <1>1 DEF TypeOK
<1>5. e \notin Posted
  BY <1>3, PostedPairs
<1>6. ASSUME NEW p
      PROVE  p \in Posted' <=> p \in Posted \/ p = e
  <2>1. p \in Posted' <=> \E i \in Job : \E k \in DOMAIN sent'[i] : p = <<i, k>>
    BY <1>2 DEF Posted
  <2> QED
    BY <1>3, <1>4, <2>1, PostedPairs
<1>7. stage'[j] = "posted"
  BY <1>1 DEF TypeOK
<1>8. {i \in Job : stage'[i] = "posted"} = {i \in Job : stage[i] = "posted"} \cup {j}
  BY <1>4, <1>7
<1>9. Awaiting' = Awaiting \cup {e}
  BY <1>1, <1>2, <1>8 DEF Awaiting
<1> QED
  BY <1>5, <1>6, <1>9

LEMMA TallyAdds ==
    ASSUME TypeOK, StagesMatch, NEW j \in Job, stage[j] \in {"posted", "streaming"}, Tallied(j)
    PROVE  /\ Ended' = Ended \cup {<<j, done[j] + 1>>} /\ <<j, done[j] + 1>> \notin Ended
           /\ Posted' = Posted /\ Awaiting' \subseteq Awaiting
<1> DEFINE e == <<j, done[j] + 1>>
<1>1. /\ done' = [done EXCEPT ![j] = @ + 1] /\ work' = work /\ sent' = sent /\ Job' = Job
      /\ \E s \in {"ready", "over"} : stage' = [stage EXCEPT ![j] = s]
  BY TalliedStep DEF Job
<1>2. \A i \in Job \ {j} : done'[i] = done[i] /\ stage'[i] = stage[i]
  BY <1>1 DEF TypeOK
<1>3. done[j] \in Nat /\ done'[j] = done[j] + 1 /\ stage'[j] # "posted"
  BY <1>1 DEF TypeOK
<1>4. e \notin Ended
  BY <1>3, EndedPairs
<1>5. 1..done'[j] = (1..done[j]) \cup {done[j] + 1}
  BY <1>3
<1>6. ASSUME NEW p
      PROVE  p \in Ended' <=> p \in Ended \/ p = e
  <2>1. p \in Ended' <=> \E i \in Job : \E k \in 1..done'[i] : p = <<i, k>>
    BY <1>1 DEF Ended
  <2> QED
    BY <1>2, <1>5, <2>1, EndedPairs
<1>7. Posted' = Posted
  BY <1>1 DEF Posted
<1>8. Awaiting' \subseteq Awaiting
  BY <1>1, <1>2, <1>3 DEF Awaiting
<1> QED
  BY <1>4, <1>6, <1>7, <1>8

\* A first chunk ends the wait of a posted request.
LEMMA ChunkAnswers ==
    ASSUME TypeOK, StagesMatch, NEW j \in Job, FirstChunk(j)
    PROVE  /\ Posted' = Posted /\ Ended' = Ended
           /\ <<j, done[j] + 1>> \in Posted \cap Awaiting
           /\ Awaiting' = Awaiting \ {<<j, done[j] + 1>>}
<1>1. /\ stage[j] = "posted" /\ stage' = [stage EXCEPT ![j] = "streaming"]
      /\ work' = work /\ sent' = sent /\ done' = done /\ Job' = Job
  BY DEF FirstChunk, Job
<1>2. Posted' = Posted /\ Ended' = Ended
  BY <1>1 DEF Posted, Ended
<1>3. Len(sent[j]) = done[j] + 1
  BY <1>1 DEF StagesMatch, StageMatches
<1>4. done[j] + 1 \in DOMAIN sent[j]
  BY <1>3, JobTypes
<1>5. <<j, done[j] + 1>> \in Posted
  BY <1>4, PostedPairs
<1>6. {i \in Job : stage'[i] = "posted"} = {i \in Job : stage[i] = "posted"} \ {j}
  BY <1>1 DEF TypeOK
<1> QED
  BY <1>1, <1>2, <1>5, <1>6 DEF Awaiting

LEMMA InitTallies == Init => TalliesAgree
<1> SUFFICES ASSUME Init
             PROVE  TalliesAgree
  OBVIOUS
<1>1. Posted = {} /\ Ended = {}
  <2>1. \A j \in Job : DOMAIN sent[j] = {} /\ 1..done[j] = {}
    BY DEF Init
  <2> QED
    BY <2>1 DEF Posted, Ended
<1>2. Posted \ Awaiting = {}
  BY <1>1
<1>3. /\ IsFiniteSet(Posted) /\ IsFiniteSet(Ended)
      /\ Cardinality(Ended) = 0 /\ Cardinality(Posted \ Awaiting) = 0
  BY <1>1, <1>2, FS_EmptySet, Zenon
<1>4. \A c \in Counter : result[c] = 0
  BY DEF Init
<1> QED
  BY <1>3, <1>4 DEF TalliesAgree, Counter

LEMMA NextTallies == TypeOK /\ StagesMatch /\ TalliesAgree /\ [Next]_vars => TalliesAgree'
<1> SUFFICES ASSUME TypeOK, StagesMatch, TalliesAgree, [Next]_vars
             PROVE  TalliesAgree'
  OBVIOUS
<1>1. /\ IsFiniteSet(Posted) /\ IsFiniteSet(Ended) /\ IsFiniteSet(Posted \ Awaiting)
      /\ Cardinality(Ended) \in Nat /\ Cardinality(Posted \ Awaiting) \in Nat
      /\ result \in [Counter -> Nat]
  BY FS_Subset, FS_CardinalityType DEF TalliesAgree, TypeOK
<1>2. ASSUME result' = result, Ended' = Ended, Posted' = Posted, Awaiting' \subseteq Awaiting
      PROVE  TalliesAgree'
  <2>1. /\ Posted \ Awaiting \subseteq Posted' \ Awaiting'
        /\ IsFiniteSet(Posted' \ Awaiting')
    BY <1>1, <1>2, FS_Subset
  <2>2. /\ Cardinality(Posted \ Awaiting) <= Cardinality(Posted' \ Awaiting')
        /\ Cardinality(Posted' \ Awaiting') \in Nat
    BY <2>1, FS_Subset, FS_CardinalityType
  <2> QED
    BY <1>1, <1>2, <2>2 DEF TalliesAgree, Counter
<1>3. CASE Tick \/ Gather \/ Return \/ Raise \/ UNCHANGED vars
  BY <1>2, <1>3, LoopStep DEF Ended, Posted, Awaiting, Job
<1>4. ASSUME NEW j \in Job, Dispatch(j) \/ Begin(j) \/ Fail(j)
      PROVE  TalliesAgree'
  <2>1. /\ work' = work /\ sent' = sent /\ done' = done /\ result' = result /\ Job' = Job
        /\ \E s \in {"ready", "failed"} : stage' = [stage EXCEPT ![j] = s]
    BY <1>4 DEF Dispatch, Begin, Fail, Leave, Job
  <2>2. {i \in Job : stage'[i] = "posted"} \subseteq {i \in Job : stage[i] = "posted"}
    BY <2>1 DEF TypeOK
  <2>3. Ended' = Ended /\ Posted' = Posted /\ Awaiting' \subseteq Awaiting
    BY <2>1, <2>2 DEF Ended, Posted, Awaiting
  <2> QED
    BY <1>2, <2>1, <2>3
<1>5. ASSUME NEW j \in Job, Post(j)
      PROVE  TalliesAgree'
  <2> DEFINE e == <<j, done[j] + 1>>
  <2>1. /\ Posted' = Posted \cup {e} /\ Awaiting' = Awaiting \cup {e} /\ e \notin Posted
        /\ result' = result /\ Ended' = Ended
    BY <1>5, PostAdds DEF Post, Ended, Job
  <2>2. Posted' \ Awaiting' = Posted \ Awaiting /\ IsFiniteSet(Posted')
    <3>1. IsFiniteSet(Posted \cup {e})
      BY <1>1, FS_AddElement
    <3>2. Posted' \ Awaiting' = Posted \ Awaiting
      BY <2>1
    <3> QED
      BY <2>1, <3>1, <3>2, Zenon
  <2> QED
    BY <1>1, <2>1, <2>2, Zenon DEF TalliesAgree
<1>6. ASSUME NEW j \in Job, FirstChunk(j)
      PROVE  TalliesAgree'
  <2> DEFINE e == <<j, done[j] + 1>>
  <2>1. /\ Posted' = Posted /\ Ended' = Ended /\ e \in Posted \cap Awaiting
        /\ Awaiting' = Awaiting \ {e} /\ result' = [result EXCEPT !["ttfts"] = @ + 1]
    BY <1>6, ChunkAnswers DEF FirstChunk
  <2>2. Posted' \ Awaiting' = (Posted \ Awaiting) \cup {e} /\ e \notin Posted \ Awaiting
    BY <2>1
  <2>3. Cardinality(Posted' \ Awaiting') = Cardinality(Posted \ Awaiting) + 1
    <3> DEFINE A == Posted \ Awaiting
    <3>1. Cardinality(A \cup {e}) = Cardinality(A) + 1
      <4> HIDE DEF e
      <4> QED
        BY <1>1, <2>2, FS_AddElement
    <3> QED
      BY <2>2, <3>1, Zenon
  <2> QED
    BY <1>1, <2>1, <2>3 DEF TalliesAgree, Counter
<1>7. ASSUME NEW j \in Job, Refuse(j) \/ ErrorChunk(j) \/ Finish(j) \/ Break(j)
      PROVE  TalliesAgree'
  <2> DEFINE e == <<j, done[j] + 1>>
  <2>1. stage[j] \in {"posted", "streaming"} /\ Tallied(j)
    BY <1>7 DEF Refuse, ErrorChunk, Finish, Break, InFlight
  <2>2. /\ Ended' = Ended \cup {e} /\ e \notin Ended
        /\ Posted' = Posted /\ Awaiting' \subseteq Awaiting
    BY <2>1, TallyAdds
  <2>3. Cardinality(Ended') = Cardinality(Ended) + 1 /\ IsFiniteSet(Ended')
    BY <1>1, <2>2, FS_AddElement
  <2>4. /\ Posted \ Awaiting \subseteq Posted' \ Awaiting'
        /\ IsFiniteSet(Posted' \ Awaiting')
    BY <1>1, <2>2, FS_Subset
  <2>5. /\ Cardinality(Posted \ Awaiting) <= Cardinality(Posted' \ Awaiting')
        /\ Cardinality(Posted' \ Awaiting') \in Nat
    BY <2>4, FS_Subset, FS_CardinalityType
  <2>6. \/ result' = [result EXCEPT !["errors"] = @ + 1]
        \/ result' = [result EXCEPT !["e2e"] = @ + 1, !["successes"] = @ + 1]
    BY <1>7 DEF Refuse, ErrorChunk, Finish, Break
  <2>7. /\ result'["successes"] + result'["errors"] = result["successes"] + result["errors"] + 1
        /\ result'["ttfts"] = result["ttfts"] /\ result["ttfts"] \in Nat
        /\ result'["e2e"] = result'["successes"]
    BY <1>1, <2>6 DEF Counter, TalliesAgree
  <2> QED
    BY <1>1, <2>2, <2>3, <2>5, <2>7 DEF TalliesAgree
<1> QED
  BY <1>3, <1>4, <1>5, <1>6, <1>7 DEF Next, End

\* Each request that ended is one success or one error, whichever way its response went, and
\* those of a run that returns are all its requests.
THEOREM TalliedOnce == Spec => []EachIsTalliedOnce
<1>1. TypeOK /\ StagesMatch /\ TalliesAgree => EachIsTalliedOnce
  <2> SUFFICES ASSUME TypeOK, StagesMatch, TalliesAgree
               PROVE  EachIsTalliedOnce
    OBVIOUS
  <2>1. phase = "returned" => Ended = Requests
    <3> SUFFICES ASSUME phase = "returned"
                 PROVE  Ended = Requests
      OBVIOUS
    <3>1. \A j \in Job : done[j] = Len(work[j]) /\ 1..done[j] = DOMAIN work[j]
      BY JobTypes DEF StagesMatch, StageMatches
    <3> QED
      BY <3>1 DEF Ended, Requests
  <2>2. Posted \ Awaiting \subseteq Posted /\ IsFiniteSet(Posted)
    BY DEF TalliesAgree
  <2>3. /\ Cardinality(Posted \ Awaiting) <= Cardinality(Posted)
        /\ Cardinality(Posted \ Awaiting) \in Nat /\ Cardinality(Posted) \in Nat
    BY <2>2, FS_Subset, FS_CardinalityType
  <2>4. result["ttfts"] \in Nat
    BY DEF TypeOK, Counter
  <2> QED
    BY <2>1, <2>3, <2>4 DEF TalliesAgree, EachIsTalliedOnce
<1> QED
  BY <1>1, AlwaysStagesMatch, InitTallies, NextTallies, PTL DEF Spec
=============================================================================
