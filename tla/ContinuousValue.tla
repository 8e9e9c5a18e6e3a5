--------------------------- MODULE ContinuousValue ---------------------------
(***************************************************************************)
(* The arithmetic of statistics/continuous_statistic.py: a value that      *)
(* decays lazily towards a convergence value, and the number of time       *)
(* units until it will meet a threshold.                                   *)
(*                                                                         *)
(* A statistic is a record with (at least) the fields                      *)
(*    value        _value                                                  *)
(*    lag          now - _last_update, in time units                       *)
(*    decay        _decay_enabled                                          *)
(*    convergence  _convergence_value                                      *)
(* Values and time units are integers and DecayRate is the change per      *)
(* unit: the code's floats and minutes, scaled until they are whole.       *)
(* _statistic_modifier is never anything but 0 in the code (it is only     *)
(* assigned 0), so the value changes by decay and by assignment alone.     *)
(***************************************************************************)
EXTENDS Integers

CONSTANTS
    MinValue, MaxValue,     \* min_value, max_value
    DecayRate               \* base_decay_rate, per time unit

ASSUME ValueAssumption ==
    /\ MinValue \in Int /\ MaxValue \in Int /\ MinValue <= MaxValue
    /\ DecayRate \in Nat \ {0}

Value == MinValue .. MaxValue

\* The comparisons of the operator module that thresholds are made with.
Comparison == {"ge", "gt", "le", "lt", "eq"}
Threshold(values) == [cmp : Comparison, val : values]

\* sims4.math.Threshold.compare
Compare(threshold, v) ==
    \/ threshold.cmp = "ge" /\ v >= threshold.val
    \/ threshold.cmp = "gt" /\ v > threshold.val
    \/ threshold.cmp = "le" /\ v <= threshold.val
    \/ threshold.cmp = "lt" /\ v < threshold.val
    \/ threshold.cmp = "eq" /\ v = threshold.val

Clamp(v) == IF v < MinValue THEN MinValue ELSE IF v > MaxValue THEN MaxValue ELSE v

Distance(a, b) == IF a > b THEN a - b ELSE b - a

\* get_decay_rate: towards the convergence value, at the decay rate.
Rate(stat) ==
    IF ~stat.decay \/ stat.value = stat.convergence THEN 0
    ELSE IF stat.value > stat.convergence THEN -DecayRate ELSE DecayRate

\* Mutant: the decay does not stop at the convergence value.
Mutant_RunsThrough(stat) == stat.value + stat.lag * Rate(stat)

\* The value the elapsed time has brought the statistic to.
DecayedValue(stat) ==
    IF Rate(stat) # 0 /\ stat.lag * DecayRate > Distance(stat.value, stat.convergence)
    THEN Clamp(stat.convergence)
    ELSE Clamp(stat.value + stat.lag * Rate(stat))

\* _update_value
UpdateValue(stat) ==
    IF stat.lag <= 0 THEN stat
    ELSE [stat EXCEPT !.lag = 0, !.value = DecayedValue(stat)]

\* A point strictly beyond every whole value, where the code adds or takes
\* EPSILON for a strict comparison; measured in half values.
HalfTarget(threshold) ==
    2 * threshold.val + (IF threshold.cmp = "gt" THEN 1
                         ELSE IF threshold.cmp = "lt" THEN -1 ELSE 0)

\* No time: the value is not on its way to the threshold. Later than every
\* time at which a value can meet one.
Never == MaxValue - MinValue + 2

CeilDiv(a, b) == (a + b - 1) \div b

\* _calculate_minutes_until_value_is_reached_through_decay, rounded up to
\* whole time units by TimeSpan (date_and_time.py).
UnitsUntil(stat, threshold) ==
    LET target == HalfTarget(threshold)
        current == 2 * stat.value
        limit == 2 * stat.convergence
        rate == Rate(stat)
    IN  IF Compare(threshold, stat.value) \/ current = target THEN 0
        ELSE IF \/ rate = 0
                \/ rate < 0 /\ target > current
                \/ rate > 0 /\ target < current
                \/ current < limit /\ limit < target
                \/ current > limit /\ limit > target
             THEN Never
             ELSE CeilDiv(Distance(target, current), 2 * DecayRate)

\* _ContinuousStatisticCallbackData.reset_trigger_time: no trigger time (None)
\* for a threshold that is met already or is not going to be met.
TriggerTime(stat, threshold) ==
    LET units == UnitsUntil(stat, threshold)
    IN  IF units > 0 THEN units ELSE Never
==============================================================================
