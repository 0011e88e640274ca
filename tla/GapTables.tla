----------------------------- MODULE GapTables -----------------------------
(***************************************************************************)
(* The two bounded tables re-arrival gaps are learned from, and what is    *)
(* read off them: session.go and toolgap.go of the gateway plugin, and     *)
(* observe_gap, ToolGapIndex and gap_confidence of bench/sim/policies.py,  *)
(* which they mirror line by line.                                         *)
(*                                                                         *)
(* A table is [order, val]: its keys in LRU order and their values.        *)
(* Times and gaps are integers; an estimate keeps its mean in 1/Scale and  *)
(* its variance in 1/Scale^2 of a time unit.  The arithmetic is exact as   *)
(* long as AlphaDen^(n-1) divides Scale, n being the gaps folded into one  *)
(* estimate.                                                               *)
(***************************************************************************)
EXTENDS Classify, LRUOrder

CONSTANTS
    IndexCapacity,         \* of the per-tool table
    TrackerCapacity,       \* of the last-seen table
    AlphaNum, AlphaDen,    \* the EWMA weight, AlphaNum / AlphaDen
    Scale,
    PriorMean, PriorVar,   \* the estimate of a tool not in the table, in time units
    ConfNum, ConfDen,      \* the confidence threshold
    ShortGap,              \* in time units
    MarginNum, MarginDen   \* the retain margin

ASSUME CapacitiesArePositive == IndexCapacity \in Nat \ {0} /\ TrackerCapacity \in Nat \ {0}
ASSUME AlphaIsWeight == AlphaNum \in Nat /\ AlphaDen \in Nat \ {0} /\ AlphaNum <= AlphaDen
ASSUME ScaleIsPositive == Scale \in Nat \ {0}
\* A confidence lies in [0, 1] (toolgap.go), and so does the threshold (0.5 as deployed).
ASSUME ThresholdIsWeight == ConfNum \in Nat /\ ConfDen \in Nat \ {0} /\ ConfNum <= ConfDen
\* "Keep the prefix warm at least mean * margin" (prerequest.go; 1.5 as deployed).
ASSUME MarginExtends == MarginNum \in Nat /\ MarginDen \in Nat \ {0} /\ MarginDen <= MarginNum
ASSUME EstimatesAreNat == PriorMean \in Nat /\ PriorVar \in Nat /\ ShortGap \in Nat

EmptyTable == [order |-> NoBlocks, val |-> [key \in {} |-> 0]]

Has(table, key) == key \in DOMAIN table.val

\* Its keys are in order, and no more than its capacity.
IsTable(table, capacity) ==
    /\ IsOrder(table.order) /\ IsFiniteSet(DOMAIN table.order)
    /\ DOMAIN table.val = DOMAIN table.order
    /\ Cardinality(DOMAIN table.val) <= capacity

\* A faulty Put: nothing is ever dropped.
PutUnbounded(table, key, value, capacity) ==
    LET order == Touched(table.order, <<key>>)
    IN  [order |-> order, val |-> [k \in DOMAIN order |-> IF k = key THEN value ELSE table.val[k]]]

\* Store value under key, as the most recently used, and drop the oldest beyond capacity.
Put(table, key, value, capacity) ==
    LET order == Touched(table.order, <<key>>)
        kept  == MostRecent(order, capacity)
    IN  [order |-> Kept(order, kept),
         val   |-> [k \in kept |-> IF k = key THEN value ELSE table.val[k]]]

-----------------------------------------------------------------------------
(* The estimate of a tool's gap *)

NoStat == [count |-> 0, mean |-> 0, var |-> 0]

\* A faulty Folded: the first gap is averaged with the initial zero mean.
FoldedFromZero(stat, gap) ==
    LET delta == gap * Scale - stat.mean
    IN  [count |-> stat.count + 1,
         mean  |-> stat.mean + (AlphaNum * delta) \div AlphaDen,
         var   |-> ((AlphaDen - AlphaNum) * (AlphaDen * stat.var + AlphaNum * delta * delta))
                     \div (AlphaDen * AlphaDen)]

\* A faulty Folded: the mean moves by the gap instead of its distance from the mean.
FoldedWithoutDelta(stat, gap) ==
    IF stat.count = 0
    THEN [count |-> 1, mean |-> gap * Scale, var |-> 0]
    ELSE [count |-> stat.count + 1,
          mean  |-> stat.mean + (AlphaNum * gap * Scale) \div AlphaDen,
          var   |-> stat.var]

\* One more observed gap; the deviation is taken from the mean before it moves.
Folded(stat, gap) ==
    IF stat.count = 0
    THEN [count |-> 1, mean |-> gap * Scale, var |-> 0]
    ELSE LET delta == gap * Scale - stat.mean
         IN  [count |-> stat.count + 1,
              mean  |-> stat.mean + (AlphaNum * delta) \div AlphaDen,
              var   |-> ((AlphaDen - AlphaNum) * (AlphaDen * stat.var + AlphaNum * delta * delta))
                          \div (AlphaDen * AlphaDen)]

Recorded(index, tool, gap) ==
    Put(index, tool, Folded(IF Has(index, tool) THEN index.val[tool] ELSE NoStat, gap), IndexCapacity)

\* predict: NoTool is never a key of the index; the priors map is empty as deployed.
Estimate(index, tool) ==
    IF Has(index, tool) THEN [mean |-> index.val[tool].mean, var |-> index.val[tool].var]
    ELSE [mean |-> PriorMean * Scale, var |-> PriorVar * Scale * Scale]

\* 1 / (1 + var / mean^2) >= ConfNum / ConfDen.  The 1e-9 that stands for a zero mean^2 is
\* below the resolution: then only a zero variance passes, here as in the code.
Confident(est) == (ConfDen - ConfNum) * est.mean * est.mean >= ConfNum * est.var

\* The integer square root, for the standard deviation in 1/Scale.
Sqrt(v) == CHOOSE r \in 0..v : r * r <= v /\ v < (r + 1) * (r + 1)

\* How long a pin is asked for, in 1/Scale: max(mean * margin, mean + sqrt(var)).
LeaseWindow(est) ==
    LET scaled == (est.mean * MarginNum) \div MarginDen
        spread == est.mean + Sqrt(est.var)
    IN  IF scaled >= spread THEN scaled ELSE spread

\* A faulty WorthPinning: the length of the gap is not looked at.
WorthPinningIfSure(est) == Confident(est)

WorthPinning(est) == Confident(est) /\ est.mean <= ShortGap * Scale

\* "High variance relative to the mean -> low confidence, so an unseen tool does not trigger
\* retention until it has actually been observed" (toolgap.go): 2 and 16 as deployed give 0.2.
ASSUME PriorIsUnsure == ~Confident(Estimate(EmptyTable, NoTool))

-----------------------------------------------------------------------------
(* The last-seen table *)

\* A faulty Observed: a turn that teaches nothing does not update the table.
ObservedIfLearnable(tracker, scope, tool, now) ==
    IF scope = NoScope \/ tool = NoTool THEN [tracker |-> tracker, learn |-> FALSE, gap |-> 0]
    ELSE [tracker |-> Put(tracker, scope, now, TrackerCapacity),
          learn   |-> Has(tracker, scope),
          gap     |-> IF Has(tracker, scope) THEN now - tracker.val[scope] ELSE 0]

\* A faulty Observed: the gap is measured the wrong way round.
ObservedBackwards(tracker, scope, tool, now) ==
    IF scope = NoScope THEN [tracker |-> tracker, learn |-> FALSE, gap |-> 0]
    ELSE LET learn == Has(tracker, scope) /\ tool # NoTool
         IN  [tracker |-> Put(tracker, scope, now, TrackerCapacity),
              learn   |-> learn,
              gap     |-> IF learn THEN tracker.val[scope] - now ELSE 0]

\* ObserveGap: the table after it, and the gap when there is one to learn.
Observed(tracker, scope, tool, now) ==
    IF scope = NoScope THEN [tracker |-> tracker, learn |-> FALSE, gap |-> 0]
    ELSE LET learn == Has(tracker, scope) /\ tool # NoTool
         IN  [tracker |-> Put(tracker, scope, now, TrackerCapacity),
              learn   |-> learn,
              gap     |-> IF learn THEN now - tracker.val[scope] ELSE 0]
=============================================================================
