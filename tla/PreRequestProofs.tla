-------------------------- MODULE PreRequestProofs --------------------------
(***************************************************************************)
(* What holds of the kv-cache-priority plugin for every number of          *)
(* goroutines, every set of requests, every capacity of its tables and     *)
(* every weight of its averages, in whatever order the goroutines run.     *)
(***************************************************************************)
EXTENDS PreRequest, OperatorLemmas

-----------------------------------------------------------------------------
(* Types *)

Typed ==
    /\ TypeOK
    /\ overlapped \subseteq Scopes
    /\ anchor \in [Scopes -> Int]
    /\ learned \in [Scopes -> Int]
    /\ gaps \in [Tools -> SUBSET Int]
    /\ \A p \in Proc : pc[p] = "record" => ToolOf(p) \in Tools

\* What goroutine p works on.
LEMMA Subjects ==
    ASSUME Typed, NEW p \in Proc
    PROVE  /\ req[p] \in InferenceRequest /\ clock[p] \in 0..time /\ gap[p] \in -MaxTime..MaxTime
           /\ ScopeOf(p) \in Scopes \cup {NoScope} /\ NoScope \notin Scopes
           /\ ToolOf(p) \in Tools \cup {NoTool} /\ NoTool \notin Tools
           /\ time \in Nat /\ time <= MaxTime /\ MaxTime \in Nat
<1>1. req[p] \in InferenceRequest /\ clock[p] \in 0..time /\ gap[p] \in -MaxTime..MaxTime
  BY DEF Typed, TypeOK
<1>2. time \in Nat /\ time <= MaxTime /\ MaxTime \in Nat
  BY BoundsAreNat DEF Typed, TypeOK
<1> QED
  BY <1>1, <1>2 DEF Scopes, Tools, ScopeOf, ToolOf

LEMMA InitTyped == Init => Typed
<1> SUFFICES ASSUME Init
             PROVE  Typed
  OBVIOUS
<1>1. /\ IsTable(tracker, TrackerCapacity) /\ DOMAIN tracker.val = {}
      /\ IsTable(index, IndexCapacity) /\ DOMAIN index.val = {}
  BY EmptyIsTable, CapacitiesArePositive DEF Init
<1>2. req \in [Proc -> InferenceRequest]
  BY RequestsAreTyped DEF Init
<1> QED
  BY <1>1, <1>2, BoundsAreNat DEF Init, Typed, TypeOK

\* What an observation does, when there is a conversation key and when there is none.
LEMMA ObserveStep ==
    ASSUME Typed, NEW p \in Proc, ObserveGap(p)
    PROVE  LET s == ScopeOf(p)
               learn == Has(tracker, s) /\ ToolOf(p) # NoTool
           IN  \/ /\ s = NoScope /\ tracker' = tracker
                  /\ gap' = [gap EXCEPT ![p] = 0] /\ pc' = [pc EXCEPT ![p] = "predict"]
                  /\ learned' = learned /\ anchor' = anchor
               \/ /\ s \in Scopes /\ ~learn
                  /\ tracker' = Put(tracker, s, clock[p], TrackerCapacity)
                  /\ gap' = [gap EXCEPT ![p] = 0] /\ pc' = [pc EXCEPT ![p] = "predict"]
                  /\ learned' = [learned EXCEPT ![s] = 0]
                  /\ anchor' = [anchor EXCEPT ![s] = clock[p]]
               \/ /\ s \in Scopes /\ learn /\ ToolOf(p) \in Tools
                  /\ tracker' = Put(tracker, s, clock[p], TrackerCapacity)
                  /\ gap' = [gap EXCEPT ![p] = clock[p] - tracker.val[s]]
                  /\ pc' = [pc EXCEPT ![p] = "record"]
                  /\ learned' = [learned EXCEPT ![s] = @ + (clock[p] - tracker.val[s])]
                  /\ anchor' = anchor
<1> DEFINE s == ScopeOf(p)
           learn == Has(tracker, s) /\ ToolOf(p) # NoTool
           seen == Observed(tracker, s, ToolOf(p), clock[p])
<1>1. /\ tracker' = seen.tracker /\ gap' = [gap EXCEPT ![p] = seen.gap]
      /\ pc' = [pc EXCEPT ![p] = IF seen.learn THEN "record" ELSE "predict"]
      /\ Turn(s, clock[p], seen)
  BY DEF ObserveGap
<1>2. s \in Scopes \cup {NoScope} /\ NoScope \notin Scopes
      /\ ToolOf(p) \in Tools \cup {NoTool}
  BY Subjects
<1>3. CASE s = NoScope
  <2>1. seen = [tracker |-> tracker, learn |-> FALSE, gap |-> 0]
    BY <1>3 DEF Observed
  <2> HIDE DEF seen
  <2>2. seen.tracker = tracker /\ seen.gap = 0 /\ seen.learn = FALSE
    BY <2>1
  <2> QED
    BY <1>1, <1>3, <2>2 DEF Turn
<1>4. CASE s # NoScope /\ learn
  <2>1. seen = [tracker |-> Put(tracker, s, clock[p], TrackerCapacity), learn |-> learn,
                gap |-> clock[p] - tracker.val[s]]
    BY <1>4 DEF Observed
  <2>2. /\ seen.tracker = Put(tracker, s, clock[p], TrackerCapacity)
        /\ seen.gap = clock[p] - tracker.val[s] /\ seen.learn = learn
    BY <2>1
  <2> HIDE DEF seen
  <2> QED
    BY <1>1, <1>2, <1>4, <2>2 DEF Turn
<1>5. CASE s # NoScope /\ ~learn
  <2>1. seen = [tracker |-> Put(tracker, s, clock[p], TrackerCapacity), learn |-> learn,
                gap |-> 0]
    BY <1>5 DEF Observed
  <2>2. /\ seen.tracker = Put(tracker, s, clock[p], TrackerCapacity)
        /\ seen.gap = 0 /\ seen.learn = learn
    BY <2>1
  <2> HIDE DEF seen
  <2> QED
    BY <1>1, <1>2, <1>5, <2>2 DEF Turn
<1> QED
  BY <1>3, <1>4, <1>5

\* What recording a gap does to the index: the tool has its estimate, the others that stay
\* keep theirs.
LEMMA RecordStep ==
    ASSUME Typed, NEW p \in Proc, Record(p)
    PROVE  LET t == ToolOf(p)
           IN  /\ t \in Tools /\ gap[p] \in Int
               /\ IsTable(index', IndexCapacity)
               /\ t \in DOMAIN index'.val /\ DOMAIN index'.val \subseteq DOMAIN index.val \cup {t}
               /\ index'.val[t] = Folded(IF Has(index, t) THEN index.val[t] ELSE NoStat, gap[p])
               /\ \A k \in DOMAIN index'.val \ {t} : index'.val[k] = index.val[k]
<1> DEFINE t == ToolOf(p)
           st == Folded(IF Has(index, t) THEN index.val[t] ELSE NoStat, gap[p])
<1>1. t \in Tools /\ gap[p] \in Int
  BY Subjects DEF Record, Typed
<1>2. index' = Put(index, t, st, IndexCapacity)
  BY DEF Record, Recorded
<1>3. IsTable(index, IndexCapacity)
  BY DEF Typed, TypeOK
<1> HIDE DEF t, st
<1>4. /\ IsTable(index', IndexCapacity)
      /\ t \in DOMAIN index'.val /\ index'.val[t] = st
      /\ DOMAIN index'.val \subseteq DOMAIN index.val \cup {t}
      /\ \A k \in DOMAIN index'.val \ {t} : index'.val[k] = index.val[k]
  BY <1>2, <1>3, PutFits, CapacitiesArePositive
<1> QED
  BY <1>1, <1>4 DEF t, st

LEMMA NextTyped == Typed /\ [Next]_vars => Typed'
<1> SUFFICES ASSUME Typed, [Next]_vars
             PROVE  Typed'
  OBVIOUS
<1> USE DEF Typed, TypeOK
<1>1. CASE Tick
  BY <1>1, BoundsAreNat DEF Tick, history, ToolOf
<1>2. ASSUME NEW p \in Proc, NEW r \in InferenceRequest, Arrive(p, r)
      PROVE  Typed'
  <2>1. \A q \in Proc : pc'[q] = "record" => pc[q] = "record" /\ req'[q] = req[q]
    BY <1>2 DEF Arrive
  <2>2. Overlapping(p, r) \subseteq Scopes
    BY DEF Overlapping
  <2>3. pc' \in [Proc -> {"idle", "clock", "observe", "record", "predict", "done"}]
    BY <1>2 DEF Arrive
  <2> QED
    BY <1>2, <2>1, <2>2, <2>3, BoundsAreNat DEF Arrive, ToolOf
<1>3. ASSUME NEW p \in Proc, ReadClock(p)
      PROVE  Typed'
  BY <1>3, BoundsAreNat DEF ReadClock, ToolOf, history
<1>4. ASSUME NEW p \in Proc, ObserveGap(p)
      PROVE  Typed'
  <2> DEFINE s == ScopeOf(p)
  <2>1. /\ time' = time /\ index' = index /\ arrived' = arrived /\ req' = req
        /\ clock' = clock /\ overlapped' = overlapped /\ gaps' = gaps
    BY <1>4 DEF ObserveGap
  <2>2. \/ tracker' = tracker
        \/ s \in Scopes /\ tracker' = Put(tracker, s, clock[p], TrackerCapacity)
    BY <1>4, ObserveStep
  <2>3. /\ IsTable(tracker', TrackerCapacity) /\ DOMAIN tracker'.val \subseteq Scopes
        /\ \A k \in DOMAIN tracker'.val : tracker'.val[k] \in 0..time
    <3>1. CASE tracker' = tracker
      BY <3>1
    <3>2. CASE s \in Scopes /\ tracker' = Put(tracker, s, clock[p], TrackerCapacity)
      <4> HIDE DEF s
      <4>1. /\ IsTable(tracker', TrackerCapacity)
            /\ s \in DOMAIN tracker'.val /\ tracker'.val[s] = clock[p]
            /\ DOMAIN tracker'.val \subseteq DOMAIN tracker.val \cup {s}
            /\ \A k \in DOMAIN tracker'.val \ {s} : tracker'.val[k] = tracker.val[k]
        BY <3>2, PutFits, CapacitiesArePositive
      <4>2. clock[p] \in 0..time
        OBVIOUS
      <4> QED
        BY <3>2, <4>1, <4>2
    <3> QED
      BY <2>2, <3>1, <3>2
  <2>4. /\ pc' \in [Proc -> {"idle", "clock", "observe", "record", "predict", "done"}]
        /\ \A q \in Proc : pc'[q] = "record" => ToolOf(q) \in Tools
        /\ gap' \in [Proc -> -MaxTime..MaxTime]
        /\ learned' \in [Scopes -> Int] /\ anchor' \in [Scopes -> Int]
    <3>1. /\ clock[p] \in 0..time /\ time \in 0..MaxTime /\ MaxTime \in Nat
          /\ 0 \in -MaxTime..MaxTime
      BY BoundsAreNat
    <3>2. CASE /\ s = NoScope \/ s \in Scopes
               /\ gap' = [gap EXCEPT ![p] = 0] /\ pc' = [pc EXCEPT ![p] = "predict"]
               /\ learned' = learned \/ learned' = [learned EXCEPT ![s] = 0]
               /\ anchor' = anchor \/ anchor' = [anchor EXCEPT ![s] = clock[p]]
      <4> HIDE DEF s
      <4> QED
        BY <3>1, <3>2
    <3>3. CASE /\ s \in Scopes /\ Has(tracker, s) /\ ToolOf(p) \in Tools
               /\ gap' = [gap EXCEPT ![p] = clock[p] - tracker.val[s]]
               /\ pc' = [pc EXCEPT ![p] = "record"]
               /\ learned' = [learned EXCEPT ![s] = @ + (clock[p] - tracker.val[s])]
               /\ anchor' = anchor
      <4>1. tracker.val[s] \in 0..time
        BY <3>3 DEF Has
      <4> HIDE DEF s
      <4>2. clock[p] - tracker.val[s] \in -MaxTime..MaxTime
        BY <3>1, <4>1
      <4> QED
        BY <3>1, <3>3, <4>2
    <3> QED
      BY <1>4, <3>2, <3>3, ObserveStep
  <2> QED
    BY <2>1, <2>3, <2>4 DEF ToolOf
<1>5. ASSUME NEW p \in Proc, Record(p)
      PROVE  Typed'
  <2> DEFINE t == ToolOf(p)
  <2>1. /\ time' = time /\ tracker' = tracker /\ arrived' = arrived /\ req' = req /\ clock' = clock
        /\ gap' = gap /\ overlapped' = overlapped /\ anchor' = anchor /\ learned' = learned
        /\ pc' = [pc EXCEPT ![p] = "predict"]
        /\ gaps' = [gaps EXCEPT ![t] = (IF Has(index, t) THEN @ ELSE {}) \cup {gap[p]}]
    BY <1>5 DEF Record
  <2>2. /\ t \in Tools /\ gap[p] \in Int
        /\ IsTable(index', IndexCapacity)
        /\ t \in DOMAIN index'.val /\ DOMAIN index'.val \subseteq DOMAIN index.val \cup {t}
        /\ index'.val[t] = Folded(IF Has(index, t) THEN index.val[t] ELSE NoStat, gap[p])
        /\ \A k \in DOMAIN index'.val \ {t} : index'.val[k] = index.val[k]
    BY <1>5, RecordStep
  <2>3. index'.val[t] \in Stat
    <3>1. CASE Has(index, t)
      <4>1. index.val[t] \in Stat
        BY <3>1 DEF Has, Stat
      <4> QED
        BY <2>2, <3>1, <4>1, FoldedKnown
    <3>2. CASE ~Has(index, t)
      BY <2>2, <3>2, FoldedFirst
    <3> QED
      BY <3>1, <3>2
  <2> HIDE DEF t
  <2>4. \A k \in DOMAIN index'.val : index'.val[k] \in [count : Nat \ {0}, mean : Int, var : Nat]
    BY <2>2, <2>3 DEF Stat
  <2>5. gaps' \in [Tools -> SUBSET Int]
    BY <2>1, <2>2
  <2> QED
    BY <2>1, <2>2, <2>4, <2>5 DEF ToolOf
<1>6. ASSUME NEW p \in Proc, Predict(p)
      PROVE  Typed'
  BY <1>6 DEF Predict, ToolOf, history
<1>7. CASE UNCHANGED vars
  BY <1>7 DEF vars, history, ToolOf
<1> QED
  BY <1>1, <1>2, <1>3, <1>4, <1>5, <1>6, <1>7 DEF Next

LEMMA AlwaysTyped == Spec => []Typed
BY InitTyped, NextTyped, PTL DEF Spec

\* Both tables stay within their capacity, and every estimate is one.
THEOREM TypeCorrect == Spec => []TypeOK
<1>1. Typed => TypeOK
  BY DEF Typed
<1> QED
  BY <1>1, AlwaysTyped, PTL

-----------------------------------------------------------------------------
(* Gaps telescope *)

LEMMA NextTelescope == Typed /\ GapsTelescope /\ [Next]_vars => GapsTelescope'
<1> SUFFICES ASSUME Typed, GapsTelescope, [Next]_vars
             PROVE  GapsTelescope'
  OBVIOUS
<1>1. CASE tracker' = tracker /\ learned' = learned /\ anchor' = anchor
  BY <1>1 DEF GapsTelescope
<1>2. ASSUME NEW p \in Proc, ObserveGap(p)
      PROVE  GapsTelescope'
  <2> DEFINE s == ScopeOf(p)
  <2>1. CASE s \in Scopes /\ tracker' = Put(tracker, s, clock[p], TrackerCapacity)
    <3> HIDE DEF s
    <3>1. /\ s \in DOMAIN tracker'.val /\ tracker'.val[s] = clock[p]
          /\ DOMAIN tracker'.val \subseteq DOMAIN tracker.val \cup {s}
          /\ \A k \in DOMAIN tracker'.val \ {s} : tracker'.val[k] = tracker.val[k]
      BY <2>1, PutFits, CapacitiesArePositive DEF Typed, TypeOK
    <3>2. /\ clock[p] \in Int /\ anchor \in [Scopes -> Int] /\ learned \in [Scopes -> Int]
          /\ DOMAIN tracker.val \subseteq Scopes
      BY Subjects DEF Typed, TypeOK
    <3>3. tracker'.val[s] = anchor'[s] + learned'[s]
      <4>1. CASE /\ learned' = [learned EXCEPT ![s] = 0]
                 /\ anchor' = [anchor EXCEPT ![s] = clock[p]]
        BY <2>1, <3>1, <3>2, <4>1
      <4>2. CASE /\ Has(tracker, s)
                 /\ learned' = [learned EXCEPT ![s] = @ + (clock[p] - tracker.val[s])]
                 /\ anchor' = anchor
        <5>1. tracker.val[s] = anchor[s] + learned[s]
          BY <4>2 DEF GapsTelescope, Has
        <5>2. anchor'[s] = anchor[s] /\ learned'[s] = learned[s] + (clock[p] - tracker.val[s])
          BY <2>1, <3>2, <4>2
        <5>3. anchor[s] \in Int /\ learned[s] \in Int
          BY <2>1, <3>2
        <5> QED
          BY <3>1, <3>2, <5>1, <5>2, <5>3
      <4> QED
        BY <1>2, <2>1, <4>1, <4>2, ObserveStep, Subjects DEF s
    <3>4. ASSUME NEW k \in DOMAIN tracker'.val \ {s}
          PROVE  tracker'.val[k] = anchor'[k] + learned'[k]
      <4>1. k \in DOMAIN tracker.val /\ tracker'.val[k] = tracker.val[k] /\ k \in Scopes /\ k # s
        BY <3>1, <3>2
      <4>2. anchor'[k] = anchor[k] /\ learned'[k] = learned[k]
        BY <1>2, <2>1, <3>2, <4>1, ObserveStep, Subjects DEF s
      <4> QED
        BY <4>1, <4>2 DEF GapsTelescope
    <3> QED
      BY <3>3, <3>4 DEF GapsTelescope
  <2> QED
    BY <1>1, <1>2, <2>1, ObserveStep
<1>3. CASE ~ \E p \in Proc : ObserveGap(p)
  BY <1>1, <1>3 DEF Next, Tick, Arrive, ReadClock, Record, Predict, vars, history
<1> QED
  BY <1>2, <1>3

\* No turn is lost: what was learned of a conversation adds up to the time it covered.
THEOREM LearnedGapsTelescope == Spec => []GapsTelescope
<1>1. Init => GapsTelescope
  BY EmptyIsTable, CapacitiesArePositive DEF Init, GapsTelescope
<1> QED
  BY <1>1, AlwaysTyped, NextTelescope, PTL DEF Spec

-----------------------------------------------------------------------------
(* Estimates *)

\* The mean lies between two recorded gaps; a tool with one recorded gap only is unvarying.
EstimatesFit ==
    /\ MeanWithinObserved
    /\ \A t \in DOMAIN index.val : \A g \in gaps[t] : gaps[t] = {g} => index.val[t].var = 0

LEMMA NextEstimates == Typed /\ EstimatesFit /\ [Next]_vars => EstimatesFit'
<1> SUFFICES ASSUME Typed, EstimatesFit, [Next]_vars
             PROVE  EstimatesFit'
  OBVIOUS
<1>1. CASE index' = index /\ gaps' = gaps
  BY <1>1 DEF EstimatesFit, MeanWithinObserved
<1>2. ASSUME NEW p \in Proc, Record(p)
      PROVE  EstimatesFit'
  <2> DEFINE t == ToolOf(p)
             g == gap[p]
             new == Folded(IF Has(index, t) THEN index.val[t] ELSE NoStat, g)
  <2>1. /\ t \in Tools /\ g \in Int
        /\ t \in DOMAIN index'.val /\ DOMAIN index'.val \subseteq DOMAIN index.val \cup {t}
        /\ index'.val[t] = new
        /\ \A k \in DOMAIN index'.val \ {t} : index'.val[k] = index.val[k]
        /\ gaps' = [gaps EXCEPT ![t] = (IF Has(index, t) THEN gaps[t] ELSE {}) \cup {g}]
    BY <1>2, RecordStep DEF Record
  <2>2. DOMAIN index.val \subseteq Tools /\ gaps \in [Tools -> SUBSET Int] /\ Scale \in Nat \ {0}
    BY ScaleIsPositive DEF Typed, TypeOK
  <2>3. gaps'[t] = (IF Has(index, t) THEN gaps[t] ELSE {}) \cup {g}
    BY <2>1, <2>2
  <2>4. /\ \E short, long \in gaps'[t] : short * Scale <= new.mean /\ new.mean <= long * Scale
        /\ \A x \in gaps'[t] : gaps'[t] = {x} => new.var = 0
    <3>1. CASE Has(index, t)
      <4>1. index.val[t] \in Stat /\ index.val[t].mean \in Int
        BY <3>1 DEF Has, Stat, Typed, TypeOK
      <4>2. PICK short \in gaps[t], long \in gaps[t] :
              short * Scale <= index.val[t].mean /\ index.val[t].mean <= long * Scale
        BY <3>1 DEF EstimatesFit, MeanWithinObserved, Has
      <4>3. /\ new \in Stat
            /\ \/ index.val[t].mean <= new.mean /\ new.mean <= g * Scale
               \/ g * Scale <= new.mean /\ new.mean <= index.val[t].mean
            /\ index.val[t].mean = g * Scale /\ index.val[t].var = 0 => new.var = 0
        BY <2>1, <3>1, <4>1, FoldedKnown
      <4> HIDE DEF new
      <4>4. new.mean \in Int /\ short \in Int /\ long \in Int
        BY <2>1, <2>2, <4>3 DEF Stat
      <4>5. short * Scale \in Int /\ long * Scale \in Int /\ g * Scale \in Int
        BY <2>1, <2>2, <4>4
      <4>6. {short, long, g} \subseteq gaps'[t]
        BY <2>3, <3>1
      <4>7. \/ short * Scale <= new.mean /\ new.mean <= g * Scale
            \/ g * Scale <= new.mean /\ new.mean <= long * Scale
        BY <4>1, <4>2, <4>3, <4>4, <4>5
      <4>8. ASSUME NEW x \in gaps'[t], gaps'[t] = {x}
            PROVE  new.var = 0
        <5>1. short = g /\ long = g /\ gaps[t] = {g}
          BY <2>3, <3>1, <4>6, <4>8
        <5>2. index.val[t].mean = g * Scale
          BY <4>1, <4>2, <4>5, <5>1
        <5>3. index.val[t].var = 0
          BY <3>1, <5>1 DEF EstimatesFit, Has
        <5> QED
          BY <4>3, <5>2, <5>3
      <4> QED
        BY <4>6, <4>7, <4>8
    <3>2. CASE ~Has(index, t)
      <4>1. new.mean = g * Scale /\ new.var = 0 /\ g \in gaps'[t]
        BY <2>1, <2>3, <3>2, FoldedFirst
      <4>2. g * Scale \in Int
        BY <2>1, <2>2
      <4> QED
        BY <4>1, <4>2
    <3> QED
      BY <3>1, <3>2
  <2> HIDE DEF t, new
  <2>5. ASSUME NEW k \in DOMAIN index'.val \ {t}
        PROVE  k \in DOMAIN index.val /\ index'.val[k] = index.val[k] /\ gaps'[k] = gaps[k]
    BY <2>1, <2>2
  <2> QED
    BY <2>1, <2>4, <2>5 DEF EstimatesFit, MeanWithinObserved
<1>3. CASE ~ \E p \in Proc : Record(p)
  BY <1>1, <1>3 DEF Next, Tick, Arrive, ReadClock, ObserveGap, Predict, vars, history
<1> QED
  BY <1>2, <1>3

LEMMA AlwaysEstimates == Spec => []EstimatesFit
<1>1. Init => EstimatesFit
  BY EmptyIsTable, CapacitiesArePositive DEF Init, EstimatesFit, MeanWithinObserved
<1> QED
  BY <1>1, AlwaysTyped, NextEstimates, PTL DEF Spec

\* In whatever order gaps are recorded, a tool's mean lies between two of them.
THEOREM MeansWithinObserved == Spec => []MeanWithinObserved
<1>1. EstimatesFit => MeanWithinObserved
  BY DEF EstimatesFit
<1> QED
  BY <1>1, AlwaysEstimates, PTL

-----------------------------------------------------------------------------
(* Gaps go forward unless turns overlap *)

\* Two busy goroutines share a conversation only if that is known to have overlapped.
OverlapsAreKnown ==
    \A p, q \in Proc :
        p # q /\ Busy(p) /\ Busy(q) /\ ScopeOf(p) = ScopeOf(q) /\ ScopeOf(p) \in Scopes
            => ScopeOf(p) \in overlapped

\* The clock that a goroutine has read is not behind the last turn of its conversation.
ClocksAreAhead ==
    \A p \in Proc :
        pc[p] = "observe" /\ ScopeOf(p) \in DOMAIN tracker.val /\ ScopeOf(p) \notin overlapped
            => tracker.val[ScopeOf(p)] <= clock[p]

GapsGoForward == OverlapsAreKnown /\ ClocksAreAhead /\ ForwardUnlessOverlapped

\* A goroutine that only moves on keeps its conversation and stays or ceases to be busy.
LEMMA MovesOn ==
    ASSUME Typed, NEW p \in Proc, Busy(p), req' = req, overlapped' = overlapped,
           NEW st, pc' = [pc EXCEPT ![p] = st], OverlapsAreKnown
    PROVE  OverlapsAreKnown' /\ \A q \in Proc : ScopeOf(q)' = ScopeOf(q)
<1>1. \A q \in Proc : ScopeOf(q)' = ScopeOf(q)
  BY DEF ScopeOf
<1>2. \A q \in Proc : Busy(q)' => Busy(q)
  BY DEF Busy, Typed, TypeOK
<1> QED
  BY <1>1, <1>2 DEF OverlapsAreKnown

LEMMA NextForward == Typed /\ GapsGoForward /\ [Next]_vars => GapsGoForward'
<1> SUFFICES ASSUME Typed, GapsGoForward, [Next]_vars
             PROVE  GapsGoForward'
  OBVIOUS
<1> USE DEF GapsGoForward
<1>1. CASE Tick \/ UNCHANGED vars
  BY <1>1 DEF Tick, vars, history, OverlapsAreKnown, ClocksAreAhead, ForwardUnlessOverlapped,
              Busy, ScopeOf
<1>2. ASSUME NEW p \in Proc, NEW r \in InferenceRequest, Arrive(p, r)
      PROVE  GapsGoForward'
  <2> DEFINE s == ConversationKey(r.session, r.body)
  <2>1. /\ ~Busy(p) /\ req' = [req EXCEPT ![p] = r] /\ pc'[p] \in {"clock", "done"}
        /\ \A q \in Proc \ {p} : pc'[q] = pc[q]
        /\ overlapped' = overlapped \cup Overlapping(p, r)
        /\ tracker' = tracker /\ clock' = clock /\ gap' = gap
    BY <1>2 DEF Arrive, Typed, TypeOK
  <2>2. /\ ScopeOf(p)' = s
        /\ \A q \in Proc \ {p} : ScopeOf(q)' = ScopeOf(q) /\ (Busy(q)' <=> Busy(q))
    BY <2>1 DEF ScopeOf, Busy, Typed, TypeOK
  <2> HIDE DEF s
  <2>3. \A q \in Proc \ {p} : Busy(q) /\ ScopeOf(q) = s /\ s \in Scopes => s \in overlapped'
    BY <2>1 DEF Overlapping, s
  <2>4. OverlapsAreKnown'
    BY <2>1, <2>2, <2>3 DEF OverlapsAreKnown, Scopes
  <2>5. ClocksAreAhead' /\ ForwardUnlessOverlapped'
    BY <2>1, <2>2 DEF ClocksAreAhead, ForwardUnlessOverlapped
  <2> QED
    BY <2>4, <2>5
<1>3. ASSUME NEW p \in Proc, ReadClock(p)
      PROVE  GapsGoForward'
  <2>1. /\ Busy(p) /\ req' = req /\ overlapped' = overlapped /\ tracker' = tracker /\ gap' = gap
        /\ pc' = [pc EXCEPT ![p] = "observe"] /\ clock' = [clock EXCEPT ![p] = time]
    BY <1>3 DEF ReadClock, Busy, history
  <2>2. OverlapsAreKnown' /\ \A q \in Proc : ScopeOf(q)' = ScopeOf(q)
    BY <2>1, MovesOn
  <2>3. \A k \in DOMAIN tracker.val : tracker.val[k] <= time
    BY BoundsAreNat DEF Typed, TypeOK
  <2>4. ClocksAreAhead'
    BY <2>1, <2>2, <2>3 DEF ClocksAreAhead, Typed, TypeOK
  <2>5. ForwardUnlessOverlapped'
    BY <2>1, <2>2 DEF ForwardUnlessOverlapped, Typed, TypeOK
  <2> QED
    BY <2>2, <2>4, <2>5
<1>4. ASSUME NEW p \in Proc, ObserveGap(p)
      PROVE  GapsGoForward'
  <2> DEFINE s == ScopeOf(p)
  <2>1. /\ Busy(p) /\ pc[p] = "observe" /\ req' = req /\ overlapped' = overlapped /\ clock' = clock
        /\ \E st : pc' = [pc EXCEPT ![p] = st]
        /\ \A q \in Proc \ {p} : pc'[q] = pc[q] /\ gap'[q] = gap[q]
    BY <1>4, ObserveStep DEF ObserveGap, Busy, Typed, TypeOK
  <2>2. OverlapsAreKnown' /\ \A q \in Proc : ScopeOf(q)' = ScopeOf(q)
    BY <2>1, MovesOn
  <2>3. ForwardUnlessOverlapped'
    <3>1. ASSUME pc'[p] = "record", s \notin overlapped
          PROVE  gap'[p] >= 0
      <4>1. /\ Has(tracker, s) /\ gap' = [gap EXCEPT ![p] = clock[p] - tracker.val[s]]
        BY <1>4, <3>1, ObserveStep DEF Typed, TypeOK
      <4>2. tracker.val[s] <= clock[p]
        BY <2>1, <3>1, <4>1 DEF Has, ClocksAreAhead
      <4>3. tracker.val[s] \in Int /\ clock[p] \in Int /\ gap'[p] = clock[p] - tracker.val[s]
        BY <4>1, Subjects DEF Has, Typed, TypeOK
      <4> QED
        BY <4>2, <4>3
    <3> QED
      BY <2>1, <2>2, <3>1 DEF ForwardUnlessOverlapped
  <2>4. ClocksAreAhead'
    <3> SUFFICES ASSUME NEW q \in Proc, pc'[q] = "observe", ScopeOf(q) \in DOMAIN tracker'.val,
                        ScopeOf(q) \notin overlapped
                 PROVE  tracker'.val[ScopeOf(q)] <= clock[q]
      BY <2>1, <2>2 DEF ClocksAreAhead
    <3>1. q # p
      BY <1>4, ObserveStep DEF Typed, TypeOK
    <3>2. pc[q] = "observe" /\ Busy(q)
      BY <2>1, <3>1 DEF Busy
    <3>3. CASE tracker' = tracker
      BY <3>2, <3>3 DEF ClocksAreAhead
    <3>4. CASE s \in Scopes /\ tracker' = Put(tracker, s, clock[p], TrackerCapacity)
      <4>1. ScopeOf(q) # s
        BY <2>1, <3>1, <3>2, <3>4 DEF OverlapsAreKnown
      <4> HIDE DEF s
      <4>2. /\ DOMAIN tracker'.val \subseteq DOMAIN tracker.val \cup {s}
            /\ \A k \in DOMAIN tracker'.val \ {s} : tracker'.val[k] = tracker.val[k]
        BY <3>4, PutFits, CapacitiesArePositive DEF Typed, TypeOK
      <4> QED
        BY <3>2, <4>1, <4>2 DEF ClocksAreAhead
    <3> QED
      BY <1>4, <3>3, <3>4, ObserveStep
  <2> QED
    BY <2>2, <2>3, <2>4
<1>5. ASSUME NEW p \in Proc, Record(p) \/ Predict(p)
      PROVE  GapsGoForward'
  <2>1. /\ Busy(p) /\ req' = req /\ overlapped' = overlapped /\ tracker' = tracker /\ gap' = gap
        /\ clock' = clock /\ \E st \in {"predict", "done"} : pc' = [pc EXCEPT ![p] = st]
    BY <1>5 DEF Record, Predict, Busy, history
  <2>2. OverlapsAreKnown' /\ \A q \in Proc : ScopeOf(q)' = ScopeOf(q)
    BY <2>1, MovesOn
  <2>3. ClocksAreAhead' /\ ForwardUnlessOverlapped'
    BY <2>1, <2>2 DEF ClocksAreAhead, ForwardUnlessOverlapped, Typed, TypeOK
  <2> QED
    BY <2>2, <2>3
<1> QED
  BY <1>1, <1>2, <1>3, <1>4, <1>5 DEF Next

\* Although the clock is read outside the lock, a gap is only ever negative in a conversation
\* of which two turns were in progress at once.
THEOREM NegativeOnlyIfOverlapped == Spec => []ForwardUnlessOverlapped
<1>1. Init => GapsGoForward
  BY DEF Init, GapsGoForward, OverlapsAreKnown, ClocksAreAhead, ForwardUnlessOverlapped, Busy
<1>2. GapsGoForward => ForwardUnlessOverlapped
  BY DEF GapsGoForward
<1> QED
  BY <1>1, <1>2, AlwaysTyped, NextForward, PTL DEF Spec

-----------------------------------------------------------------------------
(* What is forwarded to the backend *)

\* From its arrival on, a request never carries more than the client asked for.
NeverAskedMore ==
    \A p \in Proc :
        pc[p] # "idle" /\ req[p].header.kind = "directive"
            => /\ header[p].kind = "directive"
               /\ header[p].prio \in Int /\ header[p].prio <= req[p].header.prio

\* A merged directive asks for no more than what it was merged into.
LEMMA MergedAsksLess ==
    ASSUME NEW asked, asked.kind = "directive", asked.prio \in Int, NEW prio \in Int, NEW ttl
    PROVE  LET merged == Merged(asked, Asks(prio, ttl))
           IN  merged.kind = "directive" /\ merged.prio \in Int /\ merged.prio <= asked.prio
<1>1. Asks(prio, ttl).kind = "directive" /\ Asks(prio, ttl).prio = prio
  BY DEF Asks
<1>2. CASE asked.prio <= prio
  BY <1>1, <1>2 DEF Merged
<1>3. CASE ~(asked.prio <= prio)
  BY <1>1, <1>3 DEF Merged
<1> QED
  BY <1>2, <1>3

\* Headers of the goroutines, one per goroutine.
HeadersTyped == DOMAIN header = Proc /\ header = [p \in Proc |-> header[p]]

LEMMA NextNeverMore ==
    Typed /\ HeadersTyped /\ NeverAskedMore /\ [Next]_vars => HeadersTyped' /\ NeverAskedMore'
<1> SUFFICES ASSUME Typed, HeadersTyped, NeverAskedMore, [Next]_vars
             PROVE  HeadersTyped' /\ NeverAskedMore'
  OBVIOUS
<1>1. CASE header' = header /\ req' = req /\ \A p \in Proc : pc'[p] # "idle" => pc[p] # "idle"
  BY <1>1 DEF HeadersTyped, NeverAskedMore
<1>2. ASSUME NEW p \in Proc, NEW r \in InferenceRequest, Arrive(p, r)
      PROVE  HeadersTyped' /\ NeverAskedMore'
  <2> DEFINE h == IF Classify(r.body) = "oneshot" THEN Merged(r.header, Asks(EvictFirstPriority, 0))
                                                 ELSE r.header
  <2>1. /\ req' = [req EXCEPT ![p] = r] /\ header' = [header EXCEPT ![p] = h]
        /\ \A q \in Proc \ {p} : pc'[q] = pc[q]
    BY <1>2 DEF Arrive, Typed, TypeOK
  <2>2. ASSUME r.header.kind = "directive"
        PROVE  h.kind = "directive" /\ h.prio \in Int /\ h.prio <= r.header.prio
    <3>1. r.header.prio \in Int /\ EvictFirstPriority \in Int
      BY <2>2, RequestsAreTyped DEF EvictFirstPriority
    <3>2. CASE Classify(r.body) = "oneshot"
      BY <2>2, <3>1, <3>2, MergedAsksLess
    <3>3. CASE Classify(r.body) # "oneshot"
      BY <2>2, <3>1, <3>3
    <3> QED
      BY <3>2, <3>3
  <2> HIDE DEF h
  <2>3. /\ header'[p] = h /\ req'[p] = r
        /\ \A q \in Proc \ {p} : header'[q] = header[q] /\ req'[q] = req[q]
    BY <2>1 DEF HeadersTyped, Typed, TypeOK
  <2>4. HeadersTyped'
    BY <2>1 DEF HeadersTyped
  <2> QED
    BY <2>1, <2>2, <2>3, <2>4 DEF NeverAskedMore
<1>3. ASSUME NEW p \in Proc, Predict(p)
      PROVE  HeadersTyped' /\ NeverAskedMore'
  <2> DEFINE ttl == LeaseWindow(Estimate(index, ToolOf(p)))
  <2>1. /\ req' = req /\ pc[p] # "idle" /\ \A q \in Proc \ {p} : pc'[q] = pc[q]
        /\ \/ header' = header
           \/ header' = [header EXCEPT ![p] = Merged(header[p], Asks(HighPriority, ttl))]
    BY <1>3 DEF Predict, HeadersTyped, Typed, TypeOK
  <2>2. CASE header' = header
    BY <2>1, <2>2 DEF HeadersTyped, NeverAskedMore
  <2>3. CASE header' = [header EXCEPT ![p] = Merged(header[p], Asks(HighPriority, ttl))]
    <3> HIDE DEF ttl
    <3>1. /\ header'[p] = Merged(header[p], Asks(HighPriority, ttl))
          /\ \A q \in Proc \ {p} : header'[q] = header[q]
      BY <2>3 DEF HeadersTyped
    <3>2. ASSUME req[p].header.kind = "directive"
          PROVE  /\ header'[p].kind = "directive" /\ header'[p].prio \in Int
                 /\ header'[p].prio <= req[p].header.prio
      <4>1. /\ header[p].kind = "directive" /\ header[p].prio \in Int
            /\ header[p].prio <= req[p].header.prio
        BY <2>1, <3>2 DEF NeverAskedMore
      <4>2. HighPriority \in Int /\ req[p].header.prio \in Int
        BY <3>2, Subjects, RequestsAreTyped DEF HighPriority
      <4>3. header'[p].kind = "directive" /\ header'[p].prio \in Int
            /\ header'[p].prio <= header[p].prio
        BY <3>1, <4>1, <4>2, MergedAsksLess
      <4> QED
        BY <4>1, <4>2, <4>3
    <3>3. HeadersTyped'
      BY <2>3 DEF HeadersTyped
    <3> QED
      BY <2>1, <3>1, <3>2, <3>3 DEF NeverAskedMore
  <2> QED
    BY <2>1, <2>2, <2>3
<1>4. ASSUME NEW p \in Proc, ReadClock(p) \/ ObserveGap(p) \/ Record(p)
      PROVE  HeadersTyped' /\ NeverAskedMore'
  <2>1. /\ header' = header /\ req' = req /\ pc[p] # "idle"
        /\ \A q \in Proc \ {p} : pc'[q] = pc[q]
    BY <1>4, ObserveStep DEF ReadClock, ObserveGap, Record, Typed, TypeOK
  <2> QED
    BY <1>1, <2>1
<1>5. CASE Tick \/ UNCHANGED vars
  BY <1>1, <1>5 DEF Tick, vars
<1> QED
  BY <1>2, <1>3, <1>4, <1>5 DEF Next

\* The router only ever lowers what a client asked for.
THEOREM ClientsAreNeverRaised == Spec => []NeverRaisesClient
<1>1. Init => HeadersTyped /\ NeverAskedMore
  BY DEF Init, HeadersTyped, NeverAskedMore
<1>2. NeverAskedMore => NeverRaisesClient
  BY DEF NeverAskedMore, NeverRaisesClient
<1> QED
  BY <1>1, <1>2, AlwaysTyped, NextNeverMore, PTL DEF Spec

-----------------------------------------------------------------------------
(* Pins *)

LEMMA OnlyPredictAnswers ==
    ASSUME Typed, [Next]_vars, NEW p \in Proc, pc[p] = "predict", pc'[p] = "done"
    PROVE  Predict(p)
<1>1. CASE Tick \/ UNCHANGED vars
  BY <1>1 DEF Tick, vars
<1>2. ASSUME NEW q \in Proc, NEW r \in InferenceRequest, Arrive(q, r)
      PROVE  FALSE
  BY <1>2 DEF Arrive, Busy, Typed, TypeOK
<1>3. ASSUME NEW q \in Proc, ReadClock(q) \/ ObserveGap(q) \/ Record(q)
      PROVE  FALSE
  BY <1>3, ObserveStep DEF ReadClock, ObserveGap, Record, Typed, TypeOK
<1>4. ASSUME NEW q \in Proc, Predict(q)
      PROVE  q = p
  BY <1>4 DEF Predict, Typed, TypeOK
<1> QED
  BY <1>1, <1>2, <1>3, <1>4 DEF Next

\* A pin names a tool that has been seen to return within the short gap.
THEOREM PinsFollowReturns == Spec => PinsFollowShortReturns
<1>1. ASSUME Typed, EstimatesFit, [Next]_vars, NEW p \in Proc, PinnedBy(p)
      PROVE  /\ ToolOf(p) \in DOMAIN index.val
             /\ \E g \in gaps[ToolOf(p)] : g <= ShortGap
  <2> DEFINE t == ToolOf(p)
             est == Estimate(index, t)
  <2>1. Predict(p)
    BY <1>1, OnlyPredictAnswers DEF PinnedBy
  <2>2. WorthPinning(est)
    <3>1. ~WorthPinning(est) => header' = [header EXCEPT ![p] = header[p]]
      BY <2>1 DEF Predict
    <3>2. [header EXCEPT ![p] = header[p]][p] = header[p] \/ p \notin DOMAIN header
      OBVIOUS
    <3>3. header' = [header EXCEPT ![p] = header[p]] => header'[p] = header[p]
      OBVIOUS
    <3> QED
      BY <1>1, <3>1, <3>3 DEF PinnedBy
  <2>3. t \in DOMAIN index.val /\ index.val[t].mean <= ShortGap * Scale
    BY <2>2, UnseenIsUnsure DEF Has
  <2> HIDE DEF t
  <2>4. PICK short \in gaps[t] : short * Scale <= index.val[t].mean
    BY <1>1, <2>3 DEF EstimatesFit, MeanWithinObserved
  <2>5. index.val[t].mean \in Int /\ short \in Int /\ ShortGap \in Int
    BY <1>1, <2>3, <2>4, EstimatesAreNat DEF Typed, TypeOK
  <2>6. short * Scale \in Int /\ ShortGap * Scale \in Int
    BY <2>5, ScaleIsPositive
  <2>7. short * Scale <= ShortGap * Scale
    BY <2>3, <2>4, <2>5, <2>6
  <2>8. short <= ShortGap
    BY <2>5, <2>7, ScaleIsPositive, ProductMonotone
  <2> QED
    BY <2>3, <2>4, <2>8 DEF t
<1>2. Typed /\ EstimatesFit /\ [Next]_vars
        => [\A p \in Proc : PinnedBy(p)
              => /\ ToolOf(p) \in DOMAIN index.val
                 /\ \E g \in gaps[ToolOf(p)] : g <= ShortGap]_vars
  BY <1>1
<1> QED
  BY <1>2, AlwaysTyped, AlwaysEstimates, PTL DEF Spec, PinsFollowShortReturns

\* The lease of an unvarying tool is its gap with the margin, and it is worth a pin.
LEMMA SteadyLease ==
    ASSUME NEW g \in 0..ShortGap
    PROVE  LET est == [mean |-> g * Scale, var |-> 0]
           IN  WorthPinning(est) /\ LeaseWindow(est) = (g * Scale * MarginNum) \div MarginDen
<1> DEFINE m == g * Scale
           est == [mean |-> m, var |-> 0]
<1>1. g \in Nat /\ g <= ShortGap /\ ShortGap \in Nat /\ Scale \in Nat \ {0}
  BY EstimatesAreNat, ScaleIsPositive
<1>2. m \in Nat /\ m <= ShortGap * Scale
  BY <1>1, NatProduct, ProductMonotone
<1> HIDE DEF m
<1>3. est.mean = m /\ est.var = 0
  OBVIOUS
<1>4. Confident(est)
  <2>1. ConfDen - ConfNum \in Nat /\ m * m \in Nat /\ ConfNum * 0 = 0
    BY <1>2, ThresholdIsWeight, Square
  <2>2. (ConfDen - ConfNum) * (m * m) \in Nat
    BY <2>1, NatProduct
  <2>3. (ConfDen - ConfNum) * m * m = (ConfDen - ConfNum) * (m * m)
    BY <1>2, <2>1
  <2> QED
    BY <1>3, <2>1, <2>2, <2>3 DEF Confident
<1>5. WorthPinning(est)
  BY <1>2, <1>3, <1>4 DEF WorthPinning
<1>6. (m * MarginNum) \div MarginDen \in Int /\ m <= (m * MarginNum) \div MarginDen
  BY <1>2, MarginIsMore
<1>7. est.mean + Sqrt(est.var) = m
  <2>1. Sqrt(0) \in Nat /\ Sqrt(0) * Sqrt(0) <= 0
    BY SqrtIsRoot
  <2>2. Sqrt(0) = 0
    BY <2>1
  <2> QED
    BY <1>2, <1>3, <2>2
<1>8. LeaseWindow(est) = (m * MarginNum) \div MarginDen
  BY <1>3, <1>6, <1>7 DEF LeaseWindow
<1> QED
  BY <1>5, <1>8 DEF m

\* A tool that always returned after the same short gap is pinned for that gap with the margin.
THEOREM SteadyToolsArePinned == Spec => SteadyToolIsPinned
<1>1. ASSUME Typed, EstimatesFit, HeadersTyped, [Next]_vars, NEW p \in Proc, NEW g \in 0..ShortGap,
             pc[p] = "predict", pc'[p] = "done", header[p] = NoHeader,
             ToolOf(p) \in DOMAIN index.val, gaps[ToolOf(p)] = {g}
      PROVE  header'[p] = Asks(HighPriority, (g * Scale * MarginNum) \div MarginDen)
  <2> DEFINE t == ToolOf(p)
             est == Estimate(index, t)
  <2>1. Predict(p)
    BY <1>1, OnlyPredictAnswers
  <2>2. index.val[t].mean = g * Scale /\ index.val[t].var = 0
    <3>1. index.val[t].mean \in Int /\ g \in Int /\ g * Scale \in Int
      BY <1>1, ScaleIsPositive, EstimatesAreNat DEF Typed, TypeOK
    <3> HIDE DEF t
    <3>2. g * Scale <= index.val[t].mean /\ index.val[t].mean <= g * Scale
      BY <1>1 DEF EstimatesFit, MeanWithinObserved, t
    <3>3. index.val[t].var = 0
      BY <1>1 DEF EstimatesFit, t
    <3> QED
      BY <3>1, <3>2, <3>3
  <2>3. est = [mean |-> g * Scale, var |-> 0]
    BY <1>1, <2>2 DEF Estimate, Has
  <2> HIDE DEF est
  <2>4. WorthPinning(est) /\ LeaseWindow(est) = (g * Scale * MarginNum) \div MarginDen
    BY <2>3, SteadyLease
  <2>5. header' = [header EXCEPT ![p] = Merged(header[p], Asks(HighPriority, LeaseWindow(est)))]
    BY <2>1, <2>4 DEF Predict, est
  <2>6. header'[p] = Merged(header[p], Asks(HighPriority, LeaseWindow(est)))
    BY <1>1, <2>5 DEF HeadersTyped
  <2>7. header[p].kind # "directive"
    BY <1>1 DEF NoHeader
  <2> QED
    BY <2>4, <2>6, <2>7 DEF Merged
<1>2. Typed /\ EstimatesFit /\ HeadersTyped /\ [Next]_vars
        => [\A p \in Proc, g \in 0..ShortGap :
              /\ pc[p] = "predict" /\ pc'[p] = "done" /\ header[p] = NoHeader
              /\ ToolOf(p) \in DOMAIN index.val /\ gaps[ToolOf(p)] = {g}
              => header'[p] = Asks(HighPriority, (g * Scale * MarginNum) \div MarginDen)]_vars
  BY <1>1
<1>3. Init => HeadersTyped /\ NeverAskedMore
  BY DEF Init, HeadersTyped, NeverAskedMore
<1> QED
  BY <1>2, <1>3, AlwaysTyped, AlwaysEstimates, NextNeverMore, PTL DEF Spec, SteadyToolIsPinned
=============================================================================
