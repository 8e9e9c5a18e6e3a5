--------------------------- MODULE CommodityProofs ---------------------------
(***************************************************************************)
(* That the state, the distress and the callbacks of a commodity are those *)
(* its value asks for, for any range, rate, states, thresholds and         *)
(* assignments.                                                            *)
(*                                                                         *)
(* The first part is about a continuous statistic alone: reading a value   *)
(* does not change its course, and a threshold is met from its trigger     *)
(* time on and not before. The second is about the queue of callbacks. The *)
(* third shows what each method keeps, from the inside out: until a        *)
(* handler overtakes an alarm nothing is overdue, so                       *)
(* _update_active_callback calls nothing, and a callback may call          *)
(* callbacks to a bounded depth. The fourth is what every method keeps     *)
(* also afterwards. The last is the invariant.                             *)
(***************************************************************************)
EXTENDS Commodity, SequenceTheorems, WellFoundedInduction, TLAPS

\* A statistic: a record that has at least the fields the arithmetic reads.
Field == {"value", "convergence", "lag", "decay"}
IsStat(s) ==
    /\ Field \subseteq DOMAIN s /\ s = [f \in DOMAIN s |-> s[f]]
    /\ s.value \in Value /\ s.convergence \in Value
    /\ s.lag \in Nat /\ s.decay \in BOOLEAN

\* The statistic s once lag units have passed since it was updated.
After(s, lag) == [s EXCEPT !.lag = lag]

-----------------------------------------------------------------------------

\* Products are ordered as their factors.
LEMMA ProductMonotone ==
    ASSUME NEW a \in Nat, NEW b \in Nat, NEW d \in Nat, a <= b
    PROVE  a * d \in Nat /\ b * d \in Nat /\ a * d <= b * d
<1>1. PICK c \in Nat : b = a + c
  BY b - a \in Nat
<1>2. (a + c) * d = a * d + c * d
  BY SMT
<1>3. a * d \in Nat /\ c * d \in Nat
  BY SMT
<1> QED
  BY <1>1, <1>2, <1>3

\* CeilDiv rounds up: n reaches the quotient when n times b reaches a.
LEMMA CeilDivRoundsUp ==
    ASSUME NEW a \in Nat, NEW b \in Nat \ {0}, NEW n \in Nat
    PROVE  /\ CeilDiv(a, b) \in Nat
           /\ CeilDiv(a, b) <= n <=> a <= n * b
<1> DEFINE q == (a + b - 1) \div b
<1>1. q \in Nat /\ b * q <= a + b - 1 /\ a + b - 1 < b * q + b
  BY SMT
<1> QED
  BY <1>1, SMT DEF CeilDiv

\* The course of a value: at the decay rate towards the convergence value,
\* where it stays.
LEMMA DecayedValueIs ==
    ASSUME NEW s, IsStat(s)
    PROVE  /\ s.lag * DecayRate \in Nat
           /\ Rate(s) = 0 => DecayedValue(s) = s.value
           /\ Rate(s) < 0 =>
                 /\ s.decay /\ s.value > s.convergence
                 /\ DecayedValue(s) = IF s.lag * DecayRate > s.value - s.convergence
                                      THEN s.convergence ELSE s.value - s.lag * DecayRate
           /\ Rate(s) > 0 =>
                 /\ s.decay /\ s.value < s.convergence
                 /\ DecayedValue(s) = IF s.lag * DecayRate > s.convergence - s.value
                                      THEN s.convergence ELSE s.value + s.lag * DecayRate
           /\ Rate(s) \in {-DecayRate, 0, DecayRate}
<1>1. s.value \in Int /\ s.convergence \in Int /\ s.lag \in Nat /\ DecayRate \in Nat \ {0}
  BY ValueAssumption DEF IsStat, Value
<1>2. s.lag * DecayRate \in Nat /\ s.lag * 0 = 0 /\ s.lag * (-DecayRate) = -(s.lag * DecayRate)
  BY <1>1, SMT
<1>3. Rate(s) \in {-DecayRate, 0, DecayRate}
  BY DEF Rate
<1>4. \A v \in Value : Clamp(v) = v
  BY ValueAssumption DEF Clamp, Value
<1>5. CASE Rate(s) = 0
  BY <1>1, <1>2, <1>4, <1>5, ValueAssumption DEF DecayedValue, IsStat
<1>6. CASE Rate(s) < 0
  <2>1. Rate(s) = -DecayRate /\ s.decay /\ s.value > s.convergence
    BY <1>1, <1>6 DEF Rate
  <2>2. Distance(s.value, s.convergence) = s.value - s.convergence
    BY <2>1 DEF Distance
  <2>3. s.lag * DecayRate <= s.value - s.convergence => s.value - s.lag * DecayRate \in Value
    BY <1>1, <1>2, ValueAssumption DEF Value, IsStat
  <2>4. s.value + s.lag * Rate(s) = s.value - s.lag * DecayRate
    BY <1>1, <1>2, <2>1
  <2> QED
    BY <1>1, <1>2, <1>3, <1>4, <1>6, <2>1, <2>2, <2>3, <2>4 DEF DecayedValue, IsStat
<1>7. CASE Rate(s) > 0
  <2>1. Rate(s) = DecayRate /\ s.decay /\ s.value < s.convergence
    BY <1>1, <1>7 DEF Rate
  <2>2. Distance(s.value, s.convergence) = s.convergence - s.value
    BY <1>1, <2>1 DEF Distance
  <2>3. s.lag * DecayRate <= s.convergence - s.value => s.value + s.lag * DecayRate \in Value
    BY <1>1, <1>2, ValueAssumption DEF Value, IsStat
  <2> QED
    BY <1>1, <1>2, <1>3, <1>4, <1>7, <2>1, <2>2, <2>3 DEF DecayedValue, IsStat
<1> QED
  BY <1>1, <1>2, <1>3, <1>5, <1>6, <1>7

-----------------------------------------------------------------------------

\* _update_value never takes a value out of its range, nor past the value it
\* converges to: decay cannot overshoot, however long nobody has looked.
THEOREM DecayStaysInRange ==
    ASSUME NEW s, IsStat(s)
    PROVE  /\ DecayedValue(s) \in Value
           /\ \/ s.value <= DecayedValue(s) /\ DecayedValue(s) <= s.convergence
              \/ s.convergence <= DecayedValue(s) /\ DecayedValue(s) <= s.value
              \/ DecayedValue(s) = s.value
BY DecayedValueIs, ValueAssumption DEF IsStat, Value

\* get_value and every other caller of _update_value: to bring the value up to
\* date at one moment does not change what it is at any later one.
THEOREM ReadingChangesNothing ==
    ASSUME NEW s, IsStat(s), NEW n \in Nat
    PROVE  DecayedValue(After(UpdateValue(s), n)) = DecayedValue(After(s, s.lag + n))
<1> DEFINE read == After(UpdateValue(s), n)
           unread == After(s, s.lag + n)
<1>1. /\ IsStat(unread) /\ unread.lag = s.lag + n /\ unread.value = s.value
      /\ unread.convergence = s.convergence /\ unread.decay = s.decay
  BY DEF IsStat, After, Field
<1>2. CASE s.lag = 0
  BY <1>2 DEF UpdateValue, After, IsStat
<1>3. CASE s.lag > 0
  <2>1. /\ IsStat(read) /\ read.lag = n /\ read.value = DecayedValue(s)
        /\ read.convergence = s.convergence /\ read.decay = s.decay
    BY <1>3, DecayStaysInRange DEF IsStat, After, UpdateValue, Field
  <2>2. /\ s.value \in Int /\ s.convergence \in Int /\ DecayRate \in Nat \ {0}
        /\ s.lag * DecayRate \in Nat /\ n * DecayRate \in Nat
        /\ (s.lag + n) * DecayRate = s.lag * DecayRate + n * DecayRate
    BY ValueAssumption, SMT DEF IsStat, Value
  <2>3. /\ unread.lag * DecayRate = s.lag * DecayRate + n * DecayRate
        /\ read.lag * DecayRate = n * DecayRate
    BY <1>1, <2>1, <2>2
  <2>4. Rate(unread) = Rate(s)
    BY <1>1 DEF Rate
  <2>5. CASE Rate(s) = 0
    <3>1. read.value = s.value
      BY <2>1, <2>5, DecayedValueIs
    <3>2. Rate(read) = 0
      BY <2>1, <2>5, <3>1 DEF Rate
    <3> QED
      BY <1>1, <2>1, <2>4, <2>5, <3>1, <3>2, DecayedValueIs
  <2>6. CASE Rate(s) < 0
    <3>1. CASE s.lag * DecayRate >= s.value - s.convergence
      <4>1. read.value = s.convergence
        BY <2>1, <2>2, <2>6, <3>1, DecayedValueIs
      <4>2. DecayedValue(read) = s.convergence
        BY <2>1, <4>1, DecayedValueIs DEF Rate
      <4>3. DecayedValue(unread) = s.convergence
        BY <1>1, <2>2, <2>3, <2>4, <2>6, <3>1, DecayedValueIs
      <4> QED
        BY <4>2, <4>3
    <3>2. CASE s.lag * DecayRate < s.value - s.convergence
      <4>1. read.value = s.value - s.lag * DecayRate /\ s.decay
        BY <2>1, <2>2, <2>6, <3>2, DecayedValueIs
      <4>2. Rate(read) < 0
        BY <2>1, <2>2, <3>2, <4>1 DEF Rate
      <4> QED
        BY <1>1, <2>1, <2>2, <2>3, <2>4, <2>6, <3>2, <4>1, <4>2, DecayedValueIs
    <3> QED
      BY <2>2, <3>1, <3>2
  <2>7. CASE Rate(s) > 0
    <3>1. CASE s.lag * DecayRate >= s.convergence - s.value
      <4>1. read.value = s.convergence
        BY <2>1, <2>2, <2>7, <3>1, DecayedValueIs
      <4>2. DecayedValue(read) = s.convergence
        BY <2>1, <4>1, DecayedValueIs DEF Rate
      <4>3. DecayedValue(unread) = s.convergence
        BY <1>1, <2>2, <2>3, <2>4, <2>7, <3>1, DecayedValueIs
      <4> QED
        BY <4>2, <4>3
    <3>2. CASE s.lag * DecayRate < s.convergence - s.value
      <4>1. read.value = s.value + s.lag * DecayRate /\ s.decay
        BY <2>1, <2>2, <2>7, <3>2, DecayedValueIs
      <4>2. Rate(read) > 0
        BY <2>1, <2>2, <3>2, <4>1 DEF Rate
      <4> QED
        BY <1>1, <2>1, <2>2, <2>3, <2>4, <2>7, <3>2, <4>1, <4>2, DecayedValueIs
    <3> QED
      BY <2>2, <3>1, <3>2
  <2> QED
    BY <2>2, <2>5, <2>6, <2>7, DecayedValueIs
<1> QED
  BY <1>2, <1>3 DEF IsStat

-----------------------------------------------------------------------------

\* A threshold is the half value it aims at, seen from the side it is met from.
LEMMA HalfTargetIs ==
    ASSUME NEW th \in Threshold(Value), NEW v \in Value
    PROVE  /\ HalfTarget(th) \in Int
           /\ th.cmp \in {"ge", "gt"} => (Compare(th, v) <=> 2 * v >= HalfTarget(th))
           /\ th.cmp \in {"le", "lt"} => (Compare(th, v) <=> 2 * v <= HalfTarget(th))
           /\ th.cmp = "eq" => (Compare(th, v) <=> v = th.val) /\ HalfTarget(th) = 2 * th.val
           /\ th.cmp \in Comparison /\ th.val \in Value
           /\ 2 * MinValue - 1 <= HalfTarget(th) /\ HalfTarget(th) <= 2 * MaxValue + 1
BY ValueAssumption DEF Threshold, Comparison, HalfTarget, Compare, Value

\* The value is on its way to the threshold: the half target lies between it
\* and the value it converges to.
OnItsWay(s, th) ==
    \/ Rate(s) < 0 /\ HalfTarget(th) < 2 * s.value /\ 2 * s.convergence <= HalfTarget(th)
    \/ Rate(s) > 0 /\ 2 * s.value < HalfTarget(th) /\ HalfTarget(th) <= 2 * s.convergence

\* The trigger time of a threshold not met yet: the time the rate takes over
\* the distance, rounded up, or none.
LEMMA TriggerTimeIs ==
    ASSUME NEW s, IsStat(s), NEW th \in Threshold(Value), ~Compare(th, s.value)
    PROVE  /\ OnItsWay(s, th) =>
                 /\ TriggerTime(s, th) # Never
                 /\ TriggerTime(s, th) =
                      CeilDiv(Distance(HalfTarget(th), 2 * s.value), 2 * DecayRate)
           /\ ~OnItsWay(s, th) => TriggerTime(s, th) = Never
           /\ TriggerTime(s, th) \in 1 .. Never
<1> DEFINE target == HalfTarget(th)
           distance == Distance(target, 2 * s.value)
           units == CeilDiv(distance, 2 * DecayRate)
<1>1. /\ s.value \in Value /\ s.convergence \in Value /\ target \in Int
      /\ s.value \in Int /\ s.convergence \in Int /\ DecayRate \in Nat \ {0}
      /\ MinValue \in Int /\ MaxValue \in Int
      /\ Never > 0
  BY SMTT(60), HalfTargetIs, ValueAssumption DEF IsStat, Value, Never
<1>2. 2 * s.value # target
  <2>1. /\ th.cmp \in {"ge", "gt"} => ~(2 * s.value >= target)
        /\ th.cmp \in {"le", "lt"} => ~(2 * s.value <= target)
        /\ th.cmp = "eq" => s.value # th.val /\ target = 2 * th.val
        /\ th.cmp \in Comparison /\ th.val \in Int
    BY <1>1, HalfTargetIs, ValueAssumption DEF Value
  <2> QED
    BY <1>1, <2>1, SMTT(30) DEF Comparison
<1>3. distance \in Nat \ {0} /\ distance <= 2 * (MaxValue - MinValue) + 1
  <2>1. 2 * MinValue - 1 <= target /\ target <= 2 * MaxValue + 1
    BY <1>1, HalfTargetIs
  <2>2. MinValue <= s.value /\ s.value <= MaxValue
    BY <1>1 DEF Value
  <2> QED
    BY <1>1, <1>2, <2>1, <2>2 DEF Distance
<1>4. units \in Nat \ {0} /\ units < Never /\ Never \in Nat
  <2>1. 2 * DecayRate \in Nat \ {0} /\ 0 * (2 * DecayRate) = 0
    BY <1>1
  <2>2. units \in Nat /\ ~(units <= 0)
    BY <1>3, <2>1, CeilDivRoundsUp
  <2>3. MaxValue - MinValue + 1 \in Nat
    BY ValueAssumption
  <2>4. distance <= (MaxValue - MinValue + 1) * (2 * DecayRate)
    <3>1. (MaxValue - MinValue + 1) * 2 <= (MaxValue - MinValue + 1) * (2 * DecayRate)
      BY <1>1, <2>1, <2>3, SMT
    <3> QED
      BY <1>1, <1>3, <2>1, <2>3, <3>1
  <2>5. units <= MaxValue - MinValue + 1
    BY <1>3, <2>1, <2>3, <2>4, CeilDivRoundsUp
  <2> QED
    BY <1>1, <2>2, <2>5, ValueAssumption DEF Never
<1>5. OnItsWay(s, th) => UnitsUntil(s, th) = units
  <2>1. Rate(s) \in Int
    BY <1>1 DEF Rate
  <2> QED
    BY <1>1, <1>2, <2>1 DEF OnItsWay, UnitsUntil
<1>6. ~OnItsWay(s, th) => UnitsUntil(s, th) = Never
  <2>1. Rate(s) \in {-DecayRate, 0, DecayRate}
    BY DEF Rate
  <2>2. Rate(s) < 0 => 2 * s.convergence < 2 * s.value
    BY <1>1 DEF Rate
  <2>3. Rate(s) > 0 => 2 * s.value < 2 * s.convergence
    BY <1>1 DEF Rate
  <2> QED
    BY <1>1, <1>2, <2>1, <2>2, <2>3 DEF OnItsWay, UnitsUntil
<1> QED
  BY <1>1, <1>4, <1>5, <1>6 DEF TriggerTime

\* reset_trigger_time: a threshold that is not met is met from its trigger time
\* on and not a unit before, and never when it has none. A callback called at
\* its trigger time finds its threshold met, and none is due earlier. An
\* equality is asked for only at the value that the statistic converges to.
THEOREM MetFromTriggerTimeOn ==
    ASSUME NEW s, IsStat(s), NEW th \in Threshold(Value), ~Compare(th, s.value),
           th.cmp = "eq" => th.val = s.convergence,
           NEW n \in Nat
    PROVE  Compare(th, DecayedValue(After(s, n)))
             <=> TriggerTime(s, th) # Never /\ TriggerTime(s, th) <= n
<1> DEFINE target == HalfTarget(th)
           later == After(s, n)
           moved == n * DecayRate
<1>1. /\ IsStat(later) /\ later.lag = n /\ later.value = s.value
      /\ later.convergence = s.convergence /\ later.decay = s.decay
  BY DEF IsStat, After, Field
<1>2. /\ s.value \in Int /\ s.convergence \in Int /\ DecayRate \in Nat \ {0}
      /\ target \in Int /\ moved \in Nat /\ n * (2 * DecayRate) = 2 * moved
      /\ DecayedValue(later) \in Value /\ DecayedValue(later) \in Int
      /\ Rate(s) \in Int
  <2>1. s.value \in Value /\ s.value \in Int /\ s.convergence \in Int
    BY ValueAssumption DEF IsStat, Value
  <2>2. target \in Int
    BY <2>1, HalfTargetIs
  <2>3. DecayRate \in Nat \ {0} /\ moved \in Nat /\ n * (2 * DecayRate) = 2 * moved
    BY ValueAssumption, SMT
  <2>4. DecayedValue(later) \in Value /\ DecayedValue(later) \in Int
    BY <1>1, DecayStaysInRange, ValueAssumption DEF Value
  <2>5. Rate(s) \in Int
    BY <2>3 DEF Rate
  <2> QED
    BY <2>1, <2>2, <2>3, <2>4, <2>5
<1>3. Rate(later) = Rate(s)
  BY <1>1 DEF Rate
<1>4. /\ Rate(s) = 0 => DecayedValue(later) = s.value
      /\ Rate(s) < 0 => DecayedValue(later) =
             IF moved > s.value - s.convergence THEN s.convergence ELSE s.value - moved
      /\ Rate(s) > 0 => DecayedValue(later) =
             IF moved > s.convergence - s.value THEN s.convergence ELSE s.value + moved
  BY <1>1, <1>3, DecayedValueIs
<1>5. CASE OnItsWay(s, th)
  <2>1. TriggerTime(s, th) # Never /\ (TriggerTime(s, th) <= n
             <=> Distance(target, 2 * s.value) <= 2 * moved)
    <3>1. Distance(target, 2 * s.value) \in Nat /\ 2 * DecayRate \in Nat \ {0}
      BY <1>2 DEF Distance
    <3> QED
      BY <1>2, <1>5, <3>1, TriggerTimeIs, CeilDivRoundsUp
  <2>2. CASE Rate(s) < 0
    <3>1. target < 2 * s.value /\ 2 * s.convergence <= target
      BY <1>2, <1>5, <2>2 DEF OnItsWay
    <3>2. Distance(target, 2 * s.value) = 2 * s.value - target
      BY <1>2, <3>1 DEF Distance
    <3>3. 2 * DecayedValue(later) <= target <=> 2 * s.value - target <= 2 * moved
      BY <1>2, <1>4, <2>2, <3>1
    <3>4. Compare(th, DecayedValue(later)) <=> 2 * DecayedValue(later) <= target
      <4>1. CASE th.cmp \in {"le", "lt"}
        BY <1>2, <4>1, HalfTargetIs
      <4>2. CASE th.cmp \in {"ge", "gt"}
        BY <1>2, <3>1, <4>2, HalfTargetIs DEF IsStat
      <4>3. CASE th.cmp = "eq"
        BY <1>2, <1>4, <2>2, <3>1, <4>3, HalfTargetIs
      <4> QED
        BY <4>1, <4>2, <4>3, HalfTargetIs, <1>2 DEF Comparison
    <3> QED
      BY <2>1, <3>2, <3>3, <3>4
  <2>3. CASE Rate(s) > 0
    <3>1. target > 2 * s.value /\ 2 * s.convergence >= target
      BY <1>2, <1>5, <2>3 DEF OnItsWay
    <3>2. Distance(target, 2 * s.value) = target - 2 * s.value
      BY <1>2, <3>1 DEF Distance
    <3>3. 2 * DecayedValue(later) >= target <=> target - 2 * s.value <= 2 * moved
      BY <1>2, <1>4, <2>3, <3>1
    <3>4. Compare(th, DecayedValue(later)) <=> 2 * DecayedValue(later) >= target
      <4>1. CASE th.cmp \in {"ge", "gt"}
        BY <1>2, <4>1, HalfTargetIs
      <4>2. CASE th.cmp \in {"le", "lt"}
        BY <1>2, <3>1, <4>2, HalfTargetIs DEF IsStat
      <4>3. CASE th.cmp = "eq"
        BY <1>2, <1>4, <2>3, <3>1, <4>3, HalfTargetIs
      <4> QED
        BY <4>1, <4>2, <4>3, HalfTargetIs, <1>2 DEF Comparison
    <3> QED
      BY <2>1, <3>2, <3>3, <3>4
  <2> QED
    BY <1>5, <2>2, <2>3 DEF OnItsWay
<1>6. CASE ~OnItsWay(s, th)
  <2>1. TriggerTime(s, th) = Never
    BY <1>6, TriggerTimeIs
  <2>2. ~Compare(th, DecayedValue(later))
    <3>1. th.cmp \in Comparison /\ s.value \in Value
      BY HalfTargetIs, <1>2 DEF IsStat
    <3>2. Rate(s) \in {-DecayRate, 0, DecayRate}
      BY DEF Rate
    <3>3. CASE Rate(s) = 0
      BY <1>4, <3>3
    <3>4. CASE Rate(s) < 0
      <4>1. s.convergence <= DecayedValue(later) /\ DecayedValue(later) <= s.value
        BY <1>2, <1>4, <3>4, DecayedValueIs
      <4> QED
        BY <1>2, <1>6, <3>1, <3>4, <4>1, HalfTargetIs DEF OnItsWay, Comparison
    <3>5. CASE Rate(s) > 0
      <4>1. s.value <= DecayedValue(later) /\ DecayedValue(later) <= s.convergence
        BY <1>2, <1>4, <3>5, DecayedValueIs
      <4> QED
        BY <1>2, <1>6, <3>1, <3>5, <4>1, HalfTargetIs DEF OnItsWay, Comparison
    <3> QED
      BY <1>2, <3>2, <3>3, <3>4, <3>5
  <2> QED
    BY <2>1, <2>2
<1> QED
  BY <1>5, <1>6

\* A trigger time is later than now, and finite ones are earlier than Never.
LEMMA TriggerTimeRange ==
    ASSUME NEW s, IsStat(s), NEW th \in Threshold(Value)
    PROVE  TriggerTime(s, th) \in 1 .. Never
<1>1. CASE Compare(th, s.value)
  <2>1. UnitsUntil(s, th) = 0
    BY <1>1 DEF UnitsUntil
  <2>2. Never \in Nat /\ Never >= 1
    BY ValueAssumption DEF Never
  <2> QED
    BY <2>1, <2>2 DEF TriggerTime
<1>2. CASE ~Compare(th, s.value)
  BY <1>2, TriggerTimeIs
<1> QED
  BY <1>1, <1>2

\* get_value between two updates of the trigger times: what is left of a trigger
\* time is the trigger time of the value that was read.
THEOREM ReadingKeepsTriggerTimes ==
    ASSUME NEW s, IsStat(s), NEW th \in Threshold(Value),
           TriggerTime(s, th) = Never \/ s.lag < TriggerTime(s, th)
    PROVE  TriggerTime(UpdateValue(s), th) =
             IF TriggerTime(s, th) = Never THEN Never ELSE TriggerTime(s, th) - s.lag
<1> DEFINE T == TriggerTime(s, th)
           u == UpdateValue(s)
           target == HalfTarget(th)
           moved == s.lag * DecayRate
<1>1. T \in 1 .. Never /\ T \in Nat /\ s.lag \in Nat
  BY TriggerTimeRange DEF IsStat
<1>2. CASE s.lag = 0
  BY <1>1, <1>2 DEF UpdateValue
<1>3. CASE s.lag > 0
  <2>1. /\ IsStat(u) /\ u.lag = 0 /\ u.value = DecayedValue(s)
        /\ u.convergence = s.convergence /\ u.decay = s.decay
    <3> HIDE DEF T, target, moved
    <3>1. DecayedValue(s) \in Value
      BY DecayStaysInRange
    <3>2. u = [s EXCEPT !.lag = 0, !.value = DecayedValue(s)]
      BY <1>1, <1>3 DEF UpdateValue
    <3> HIDE DEF u
    <3>3. /\ DOMAIN u = DOMAIN s /\ u = [f \in DOMAIN u |-> u[f]]
          /\ u.lag = 0 /\ u.value = DecayedValue(s)
          /\ u.convergence = s.convergence /\ u.decay = s.decay
      BY <3>2 DEF IsStat, Field
    <3> QED
      BY <3>1, <3>3 DEF IsStat
  <2>2. /\ s.value \in Int /\ s.convergence \in Int /\ u.value \in Int /\ s.value \in Value
        /\ u.value \in Value /\ DecayRate \in Nat \ {0}
        /\ moved \in Nat /\ target \in Int /\ s.lag * (2 * DecayRate) = 2 * moved
    <3>1. s.value \in Int /\ s.convergence \in Int /\ u.value \in Int /\ s.value \in Value
          /\ u.value \in Value /\ DecayRate \in Nat \ {0}
      BY <2>1, ValueAssumption DEF IsStat, Value
    <3>2. moved \in Nat /\ s.lag * (2 * DecayRate) = 2 * moved
      BY <1>1, <3>1, SMT
    <3> QED
      BY <3>1, <3>2, HalfTargetIs
  <2>3. /\ Rate(s) = 0 => u.value = s.value
        /\ Rate(s) < 0 => /\ s.decay /\ s.value > s.convergence
                          /\ u.value = IF moved > s.value - s.convergence
                                       THEN s.convergence ELSE s.value - moved
        /\ Rate(s) > 0 => /\ s.decay /\ s.value < s.convergence
                          /\ u.value = IF moved > s.convergence - s.value
                                       THEN s.convergence ELSE s.value + moved
        /\ Rate(s) \in {-DecayRate, 0, DecayRate}
    BY <2>1, DecayedValueIs
  <2>4. /\ Rate(u) = 0 <=> ~u.decay \/ u.value = u.convergence
        /\ Rate(u) < 0 <=> u.decay /\ u.value > u.convergence
        /\ Rate(u) > 0 <=> u.decay /\ u.value < u.convergence
    BY <2>1, <2>2 DEF Rate
  <2>a. Rate(s) \in Int /\ Rate(u) \in Int
    BY <2>2 DEF Rate
  <2>b. \/ Rate(s) = 0 /\ u.value = s.value
        \/ Rate(s) < 0 /\ s.decay /\ u.value <= s.value
        \/ Rate(s) > 0 /\ s.decay /\ s.value <= u.value
    BY <2>2, <2>3, <2>a
  <2>c. /\ Rate(s) = 0 <=> ~s.decay \/ s.value = s.convergence
        /\ Rate(s) < 0 <=> s.decay /\ s.value > s.convergence
        /\ Rate(s) > 0 <=> s.decay /\ s.value < s.convergence
    BY <2>2 DEF Rate
  <2> HIDE DEF u, moved, target, T
  <2>5. ASSUME T = Never PROVE TriggerTime(u, th) = Never
    <3>1. CASE Compare(th, u.value)
      <4>1. UnitsUntil(u, th) = 0
        BY <3>1 DEF UnitsUntil
      <4> QED
        BY <4>1 DEF TriggerTime
    <3>2. CASE ~Compare(th, u.value)
      <4>1. ASSUME OnItsWay(u, th) PROVE FALSE
        <5>1. \/ Rate(u) < 0 /\ target < 2 * u.value /\ 2 * s.convergence <= target
              \/ Rate(u) > 0 /\ 2 * u.value < target /\ target <= 2 * s.convergence
          BY <2>1, <4>1 DEF OnItsWay, target
        <5>2. CASE Rate(u) < 0 /\ target < 2 * u.value /\ 2 * s.convergence <= target
          <6>1. Rate(s) < 0 /\ u.value <= s.value
            <7>1. u.decay /\ u.value > u.convergence
              BY <2>4, <5>2
            <7>2. Rate(s) < 0
              BY <2>1, <2>2, <2>3, <2>a, <2>b, <2>c, <7>1
            <7> QED BY <2>a, <2>b, <7>2
          <6>2. target < 2 * s.value
            BY <2>2, <5>2, <6>1
          <6>3. OnItsWay(s, th)
            BY <5>2, <6>1, <6>2 DEF OnItsWay, target
          <6>4. Compare(th, s.value)
            BY <2>5, <6>3, TriggerTimeIs DEF T
          <6> QED
            BY <2>2, <3>2, <5>2, <6>2, <6>4, HalfTargetIs DEF Comparison, target
        <5>3. CASE Rate(u) > 0 /\ 2 * u.value < target /\ target <= 2 * s.convergence
          <6>1. Rate(s) > 0 /\ s.value <= u.value
            <7>1. u.decay /\ u.value < u.convergence
              BY <2>4, <5>3
            <7>2. Rate(s) > 0
              BY <2>1, <2>2, <2>3, <2>a, <2>b, <2>c, <7>1
            <7> QED BY <2>a, <2>b, <7>2
          <6>2. 2 * s.value < target
            BY <2>2, <5>3, <6>1
          <6>3. OnItsWay(s, th)
            BY <5>3, <6>1, <6>2 DEF OnItsWay, target
          <6>4. Compare(th, s.value)
            BY <2>5, <6>3, TriggerTimeIs DEF T
          <6> QED
            BY <2>2, <3>2, <5>3, <6>2, <6>4, HalfTargetIs DEF Comparison, target
        <5> QED
          BY <5>1, <5>2, <5>3
      <4> QED
        BY <2>1, <3>2, <4>1, TriggerTimeIs
    <3> QED
      BY <3>1, <3>2
  <2>6. ASSUME T # Never PROVE TriggerTime(u, th) = T - s.lag
    <3> DEFINE d == Distance(target, 2 * s.value)
               e == Distance(target, 2 * u.value)
               R == TriggerTime(u, th)
    <3>1. ~Compare(th, s.value)
      <4>1. Compare(th, s.value) => UnitsUntil(s, th) = 0
        BY DEF UnitsUntil
      <4> QED
        BY <2>6, <4>1 DEF TriggerTime, T
    <3>2. OnItsWay(s, th) /\ T = CeilDiv(d, 2 * DecayRate)
      BY <2>6, <3>1, TriggerTimeIs DEF T, target
    <3>3. d \in Nat /\ 2 * DecayRate \in Nat \ {0}
      BY <2>2 DEF Distance
    <3>4. 2 * moved < d
      <4>1. ~(T <= s.lag)
        BY <1>1, <2>6 DEF T
      <4>2. ~(d <= s.lag * (2 * DecayRate))
        BY <1>1, <3>2, <3>3, <4>1, CeilDivRoundsUp
      <4> QED
        BY <2>2, <3>3, <4>2
    <3>5. OnItsWay(u, th) /\ ~Compare(th, u.value) /\ e = d - 2 * moved
      <4>1. CASE Rate(s) < 0
        <5>1. target < 2 * s.value /\ 2 * s.convergence <= target
          BY <2>2, <2>a, <3>2, <4>1 DEF OnItsWay, target
        <5>2. d = 2 * s.value - target
          BY <2>2, <5>1 DEF Distance
        <5>3. u.value = s.value - moved /\ target < 2 * u.value
          BY <2>2, <2>3, <3>4, <4>1, <5>1, <5>2
        <5>4. Rate(u) < 0
          BY <2>1, <2>2, <2>3, <2>4, <4>1, <5>1, <5>3
        <5>5. OnItsWay(u, th)
          BY <2>1, <5>1, <5>3, <5>4 DEF OnItsWay, target
        <5>6. ~Compare(th, u.value)
          BY <2>2, <3>1, <5>1, <5>3, HalfTargetIs DEF Comparison, target
        <5>7. e = 2 * u.value - target
          BY <2>2, <5>3 DEF Distance
        <5> QED
          BY <2>2, <5>2, <5>3, <5>5, <5>6, <5>7
      <4>2. CASE Rate(s) > 0
        <5>1. 2 * s.value < target /\ target <= 2 * s.convergence
          BY <2>2, <2>a, <3>2, <4>2 DEF OnItsWay, target
        <5>2. d = target - 2 * s.value
          BY <2>2, <5>1 DEF Distance
        <5>3. u.value = s.value + moved /\ 2 * u.value < target
          BY <2>2, <2>3, <3>4, <4>2, <5>1, <5>2
        <5>4. Rate(u) > 0
          BY <2>1, <2>2, <2>3, <2>4, <4>2, <5>1, <5>3
        <5>5. OnItsWay(u, th)
          BY <2>1, <5>1, <5>3, <5>4 DEF OnItsWay, target
        <5>6. ~Compare(th, u.value)
          BY <2>2, <3>1, <5>1, <5>3, HalfTargetIs DEF Comparison, target
        <5>7. e = target - 2 * u.value
          BY <2>2, <5>3 DEF Distance
        <5> QED
          BY <2>2, <5>2, <5>3, <5>5, <5>6, <5>7
      <4> QED
        BY <3>2, <4>1, <4>2 DEF OnItsWay
    <3>6. R = CeilDiv(e, 2 * DecayRate)
      BY <2>1, <3>5, TriggerTimeIs DEF target
    <3>7. e \in Nat
      BY <2>2, <3>3, <3>4, <3>5
    <3> HIDE DEF d, e, R
    <3>8. R \in Nat
      BY <3>3, <3>6, <3>7, CeilDivRoundsUp
    <3>9. ASSUME NEW n \in Nat PROVE R <= n <=> T <= n + s.lag
      <4>1. R <= n <=> e <= n * (2 * DecayRate)
        BY <3>3, <3>6, <3>7, CeilDivRoundsUp
      <4>2. T <= n + s.lag <=> d <= (n + s.lag) * (2 * DecayRate)
        <5>1. n + s.lag \in Nat
          BY <1>1
        <5>2. T = CeilDiv(d, 2 * DecayRate)
          BY <3>2
        <5> QED
          BY <3>3, <5>1, <5>2, CeilDivRoundsUp
      <4>3. (n + s.lag) * (2 * DecayRate) = n * (2 * DecayRate) + 2 * moved
            /\ n * (2 * DecayRate) \in Nat
        <5>1. (n + s.lag) * (2 * DecayRate) = n * (2 * DecayRate) + s.lag * (2 * DecayRate)
              /\ n * (2 * DecayRate) \in Nat
          BY <1>1, <3>3, SMT
        <5> QED
          BY <2>2, <5>1
      <4>4. e = d - 2 * moved
        BY <3>5
      <4> HIDE DEF u
      <4> QED
        BY <2>2, <3>3, <4>1, <4>2, <4>3, <4>4
    <3>10. T - s.lag \in Nat
      BY <1>1, <2>6 DEF T
    <3>11. R <= T - s.lag
      BY <1>1, <3>9, <3>10
    <3>12. T <= R + s.lag
      BY <3>8, <3>9
    <3> QED
      BY <1>1, <3>8, <3>11, <3>12 DEF R
  <2> QED
    BY <2>5, <2>6 DEF T, u
<1> QED
  BY <1>1, <1>2, <1>3

-----------------------------------------------------------------------------
(***************************************************************************)
(* Loops, and the queue.                                                   *)
(***************************************************************************)

\* Induction over the natural numbers, for a set of them.
LEMMA NatInd ==
    ASSUME NEW S, 0 \in S, \A n \in Nat : n \in S => n + 1 \in S
    PROVE  Nat \subseteq S
  <1> SUFFICES ASSUME Nat \ S # {} PROVE FALSE
    OBVIOUS
  <1>1. PICK m \in Nat \ S : \A k \in Nat \ S : ~(k < m)
    <2> DEFINE R == OpToRel(<, Nat)
    <2>1. IsWellFoundedOn(R, Nat)
      BY NatLessThanWellFounded
    <2>2. \E x \in Nat \ S : \A y \in Nat \ S : ~(<<y, x>> \in R)
      BY <2>1, WFMin
    <2> QED BY <2>2 DEF OpToRel
  <1>2. m - 1 \in Nat /\ m - 1 \in S
    BY <1>1
  <1> QED BY <1>1, <1>2

Unrolled(u, f, s, q, N) == u = [n \in 0 .. N |-> IF n = 0 THEN s ELSE f[q[n]][u[n - 1]]]

\* The recursive function of a loop exists.
LEMMA ThroughIs ==
    ASSUME NEW f, NEW s, NEW q, NEW N \in Nat PROVE \E u : Unrolled(u, f, s, q, N)
  <1> DEFINE S == {n \in Nat : \E u : Unrolled(u, f, s, q, n)}
  <1>1. 0 \in S
    <2> DEFINE u == [i \in 0 .. 0 |-> s]
    <2>1. Unrolled(u, f, s, q, 0)
      BY DEF Unrolled
    <2> QED BY <2>1
  <1>2. ASSUME NEW n \in Nat, n \in S PROVE n + 1 \in S
    <2>1. PICK u : Unrolled(u, f, s, q, n)
      BY <1>2
    <2>2. \A i \in 0 .. n : u[i] = IF i = 0 THEN s ELSE f[q[i]][u[i - 1]]
      BY <2>1 DEF Unrolled
    <2> DEFINE w == [i \in 0 .. n + 1 |-> IF i = n + 1 THEN f[q[n + 1]][u[n]] ELSE u[i]]
    <2>3. ASSUME NEW i \in 0 .. n + 1 PROVE w[i] = IF i = 0 THEN s ELSE f[q[i]][w[i - 1]]
      <3>1. CASE i = 0
        BY <2>2, <3>1
      <3>2. CASE i \in 1 .. n
        <4>1. w[i] = u[i] /\ w[i - 1] = u[i - 1]
          BY <3>2
        <4> QED BY <2>2, <3>2, <4>1
      <3>3. CASE i = n + 1
        <4>1. w[i] = f[q[n + 1]][u[n]] /\ w[i - 1] = u[n]
          BY <3>3
        <4> QED BY <3>3, <4>1
      <3>4. i = 0 \/ i \in 1 .. n \/ i = n + 1
        OBVIOUS
      <3> HIDE DEF w
      <3> QED BY <3>1, <3>2, <3>3, <3>4
    <2>4. Unrolled(w, f, s, q, n + 1)
      BY <2>3 DEF Unrolled
    <2> QED BY <2>4
  <1> HIDE DEF S
  <1>3. N \in S
    BY <1>1, <1>2, NatInd
  <1> QED BY <1>3 DEF S

\* A loop keeps what each of its steps keeps.
LEMMA ThroughKeeps ==
    ASSUME NEW f, NEW q, Len(q) \in Nat, NEW D, NEW s \in D[0],
           \A n \in 1 .. Len(q) : \A t \in D[n - 1] : f[q[n]][t] \in D[n]
    PROVE  Through(f, s, q) \in D[Len(q)]
  <1> DEFINE N == Len(q)
             after == CHOOSE u : Unrolled(u, f, s, q, N)
  <1>1. Through(f, s, q) = after[N]
    BY DEF Through, Unrolled
  <1>2. Unrolled(after, f, s, q, N)
    BY ThroughIs
  <1> HIDE DEF after
  <1>a. \A n \in 0 .. N : after[n] = IF n = 0 THEN s ELSE f[q[n]][after[n - 1]]
    BY <1>2 DEF Unrolled
  <1>3. after[0] = s /\ \A n \in 1 .. N : after[n] = f[q[n]][after[n - 1]]
    BY <1>a
  <1> DEFINE S == {n \in Nat : n <= N => after[n] \in D[n]}
  <1>4. 0 \in S
    BY <1>3
  <1>5. ASSUME NEW n \in Nat, n \in S PROVE n + 1 \in S
    <2> SUFFICES ASSUME n + 1 <= N PROVE after[n + 1] \in D[n + 1]
      OBVIOUS
    <2>1. after[n] \in D[n]
      BY <1>5
    <2>2. after[n + 1] = f[q[n + 1]][after[n]]
      BY <1>3
    <2> QED BY <2>1, <2>2
  <1> HIDE DEF S
  <1>6. N \in S
    BY <1>4, <1>5, NatInd
  <1> QED BY <1>1, <1>6 DEF S

Sorting(q, trig) ==
    \A i, j \in 1 .. Len(q) : i < j => trig[q[i]] <= trig[q[j]]

\* No callback is twice in a queue.
Once(q) == \A i, j \in 1 .. Len(q) : q[i] = q[j] => i = j

\* r is what Selected has chosen of the first n members of q.
Chosen(r, q, kinds, n) ==
    \A k \in Kind : (\E i \in 1 .. Len(r) : r[i] = k) <=> (\E i \in 1 .. n : q[i] = k) /\ k \in kinds

\* What Selected has chosen, one member later.
LEMMA ChosenNext ==
    ASSUME NEW q \in Seq(Kind), NEW kinds, NEW n \in 1 .. Len(q), NEW r \in Seq(Kind),
           Chosen(r, q, kinds, n - 1)
    PROVE  /\ q[n] \in kinds => Chosen(Append(r, q[n]), q, kinds, n)
           /\ q[n] \notin kinds => Chosen(r, q, kinds, n)
  <1>1. \A k \in Kind : (\E i \in 1 .. n : q[i] = k) <=> (\E i \in 1 .. n - 1 : q[i] = k) \/ q[n] = k
    OBVIOUS
  <1> DEFINE w == Append(r, q[n])
  <1>2. /\ Len(w) = Len(r) + 1 /\ Len(r) \in Nat /\ q[n] \in Kind
        /\ w[Len(r) + 1] = q[n] /\ \A i \in 1 .. Len(r) : w[i] = r[i]
    OBVIOUS
  <1> HIDE DEF w
  <1>3. \A k \in Kind : (\E i \in 1 .. Len(w) : w[i] = k) <=> (\E i \in 1 .. Len(r) : r[i] = k) \/ q[n] = k
    BY <1>2
  <1>4. CASE q[n] \in kinds
    BY <1>1, <1>3, <1>4 DEF Chosen, w
  <1>5. CASE q[n] \notin kinds
    BY <1>1, <1>5 DEF Chosen
  <1> QED BY <1>4, <1>5

\* ... it is in order if the queue is,
LEMMA ChosenSorting ==
    ASSUME NEW q \in Seq(Kind), NEW kinds, NEW n \in 1 .. Len(q), NEW r \in Seq(Kind),
           Chosen(r, q, kinds, n - 1), NEW trig \in [Kind -> Int],
           Sorting(q, trig), Sorting(r, trig)
    PROVE  Sorting(Append(r, q[n]), trig)
  <1> DEFINE w == Append(r, q[n])
             m == Len(r)
  <1>1. /\ Len(w) = m + 1 /\ m \in Nat /\ q[n] \in Kind
        /\ w[m + 1] = q[n] /\ \A i \in 1 .. m : w[i] = r[i] /\ r[i] \in Kind
    OBVIOUS
  <1>2. ASSUME NEW i \in 1 .. m PROVE trig[r[i]] <= trig[q[n]]
    <2>1. PICK l \in 1 .. n - 1 : q[l] = r[i]
      BY <1>1 DEF Chosen
    <2>2. l \in 1 .. Len(q) /\ n \in 1 .. Len(q) /\ l < n
      OBVIOUS
    <2> QED BY <2>1, <2>2 DEF Sorting
  <1>3. \A i, j \in 1 .. m : i < j => trig[r[i]] <= trig[r[j]]
    BY DEF Sorting
  <1> HIDE DEF w, m
  <1>4. \A i, j \in 1 .. m + 1 : i < j => trig[w[i]] <= trig[w[j]]
    <2> SUFFICES ASSUME NEW i \in 1 .. m + 1, NEW j \in 1 .. m + 1, i < j
                 PROVE  trig[w[i]] <= trig[w[j]]
      OBVIOUS
    <2>1. i \in 1 .. m /\ (j \in 1 .. m \/ j = m + 1)
      BY <1>1
    <2> QED BY <1>1, <1>2, <1>3, <2>1
  <1> QED BY <1>1, <1>4 DEF Sorting, w

\* ... and has nothing twice if the queue has not.
LEMMA ChosenOnce ==
    ASSUME NEW q \in Seq(Kind), NEW kinds, NEW n \in 1 .. Len(q), NEW r \in Seq(Kind),
           Chosen(r, q, kinds, n - 1), Once(q), Once(r)
    PROVE  Once(Append(r, q[n]))
  <1> DEFINE w == Append(r, q[n])
             m == Len(r)
  <1>1. /\ Len(w) = m + 1 /\ m \in Nat /\ q[n] \in Kind
        /\ w[m + 1] = q[n] /\ \A i \in 1 .. m : w[i] = r[i] /\ r[i] \in Kind
    OBVIOUS
  <1>2. ASSUME NEW i \in 1 .. m PROVE r[i] # q[n]
    <2>1. PICK l \in 1 .. n - 1 : q[l] = r[i]
      BY <1>1 DEF Chosen
    <2>2. l \in 1 .. Len(q) /\ n \in 1 .. Len(q) /\ l # n
      OBVIOUS
    <2> QED BY <2>1, <2>2 DEF Once
  <1>3. \A i, j \in 1 .. m : r[i] = r[j] => i = j
    BY DEF Once
  <1> HIDE DEF w, m
  <1>4. \A i, j \in 1 .. m + 1 : w[i] = w[j] => i = j
    <2> SUFFICES ASSUME NEW i \in 1 .. m + 1, NEW j \in 1 .. m + 1, w[i] = w[j]
                 PROVE  i = j
      OBVIOUS
    <2>1. (i \in 1 .. m \/ i = m + 1) /\ (j \in 1 .. m \/ j = m + 1)
      BY <1>1
    <2> QED BY <1>1, <1>2, <1>3, <2>1
  <1> QED BY <1>1, <1>4 DEF Once, w

SelectedSoFar(q, kinds, trig, n) ==
    {r \in Seq(Kind) : /\ Chosen(r, q, kinds, n)
                       /\ Once(q) => Once(r)
                       /\ Sorting(q, trig) => Sorting(r, trig)
                       /\ n > 0 /\ q[1] \in kinds => Len(r) > 0 /\ r[1] = q[1]}
Select(kinds) == [k \in Kind |-> [chosen \in Seq(Kind) |->
                     IF k \in kinds THEN Append(chosen, k) ELSE chosen]]

\* What Selected chooses.
LEMMA SelectedIs ==
    ASSUME NEW q \in Seq(Kind), NEW kinds, NEW trig \in [Kind -> Int]
    PROVE  /\ Selected(q, kinds) \in Seq(Kind)
           /\ \A k \in Kind : Contains(Selected(q, kinds), k) <=> Contains(q, k) /\ k \in kinds
           /\ Sorting(q, trig) => Sorting(Selected(q, kinds), trig)
           /\ Once(q) => Once(Selected(q, kinds))
           /\ Len(q) > 0 /\ q[1] \in kinds =>
                 Len(Selected(q, kinds)) > 0 /\ Selected(q, kinds)[1] = q[1]
  <1> DEFINE N == Len(q)
             D == [n \in 0 .. N |-> SelectedSoFar(q, kinds, trig, n)]
             f == Select(kinds)
  <1>0. N \in Nat /\ \A i \in 1 .. N : q[i] \in Kind
    OBVIOUS
  <1>1. <<>> \in SelectedSoFar(q, kinds, trig, 0)
    BY DEF SelectedSoFar, Sorting, Chosen, Once
  <1>2. ASSUME NEW n \in 1 .. N, NEW r \in SelectedSoFar(q, kinds, trig, n - 1)
        PROVE  f[q[n]][r] \in SelectedSoFar(q, kinds, trig, n)
    <2>1. /\ r \in Seq(Kind) /\ Chosen(r, q, kinds, n - 1) /\ q[n] \in Kind
          /\ Sorting(q, trig) => Sorting(r, trig)
          /\ Once(q) => Once(r)
          /\ n - 1 > 0 /\ q[1] \in kinds => Len(r) > 0 /\ r[1] = q[1]
      BY <1>0, <1>2 DEF SelectedSoFar
    <2>2. f[q[n]][r] = IF q[n] \in kinds THEN Append(r, q[n]) ELSE r
      BY <2>1 DEF Select
    <2> HIDE DEF f, D, N
    <2>3. CASE q[n] \notin kinds
      <3>1. Chosen(r, q, kinds, n)
        BY <2>1, <2>3, ChosenNext DEF N
      <3> QED BY <2>1, <2>2, <2>3, <3>1 DEF SelectedSoFar
    <2>4. CASE q[n] \in kinds
      <3> DEFINE w == Append(r, q[n])
      <3>1. w \in Seq(Kind) /\ Chosen(w, q, kinds, n)
        BY <2>1, <2>4, ChosenNext DEF N
      <3>2. Sorting(q, trig) => Sorting(w, trig)
        BY <2>1, ChosenSorting DEF N
      <3>4. Once(q) => Once(w)
        BY <2>1, ChosenOnce DEF N
      <3>3. q[1] \in kinds => Len(w) > 0 /\ w[1] = q[1]
        <4>1. CASE n = 1
          <5>1. Len(r) = 0
            <6>1. \A i \in 1 .. Len(r) : r[i] \in Kind /\ Len(r) \in Nat
              BY <2>1
            <6>2. \A k \in Kind : ~ \E i \in 1 .. Len(r) : r[i] = k
              BY <2>1, <4>1 DEF Chosen
            <6> QED BY <2>1, <6>1, <6>2
          <5> QED BY <2>1, <4>1, <5>1
        <4>2. CASE n > 1
          BY <2>1, <4>2
        <4> QED BY <4>1, <4>2
      <3> QED BY <2>2, <2>4, <3>1, <3>2, <3>3, <3>4 DEF SelectedSoFar
    <2> QED BY <2>3, <2>4
  <1>a. \A n \in 0 .. N : D[n] = SelectedSoFar(q, kinds, trig, n)
    OBVIOUS
  <1>b. \A n \in 1 .. N : n \in 0 .. N /\ n - 1 \in 0 .. N
    OBVIOUS
  <1> HIDE DEF f, D
  <1>3. \A n \in 1 .. N : \A t \in D[n - 1] : f[q[n]][t] \in D[n]
    BY <1>a, <1>b, <1>2
  <1>4. Through(f, <<>>, q) \in D[N]
    <2>1. <<>> \in D[0]
      BY <1>0, <1>1, <1>a
    <2> QED BY <2>1, <1>0, <1>3, ThroughKeeps
  <1>5. Selected(q, kinds) \in SelectedSoFar(q, kinds, trig, N)
    BY <1>0, <1>4, <1>a DEF Selected, f, Select
  <1>6. N > 0 \/ N = 0
    BY <1>0
  <1> QED BY <1>0, <1>5, <1>6 DEF Contains, SelectedSoFar, Chosen

-----------------------------------------------------------------------------

\* What a queue is with k put in.
LEMMA InsertAtIs ==
    ASSUME NEW q \in Seq(Kind), NEW p \in 0 .. Len(q), NEW k \in Kind
    PROVE  /\ InsertAt(q, p + 1, k) \in Seq(Kind)
           /\ Len(InsertAt(q, p + 1, k)) = Len(q) + 1
           /\ \A i \in 1 .. Len(q) + 1 : InsertAt(q, p + 1, k)[i] =
                 IF i <= p THEN q[i] ELSE IF i = p + 1 THEN k ELSE q[i - 1]
           /\ \A j \in Kind : Contains(InsertAt(q, p + 1, k), j) <=> Contains(q, j) \/ j = k
  <1> DEFINE a == SubSeq(q, 1, p)
             b == SubSeq(q, p + 1, Len(q))
             w == a \o <<k>> \o b
             m == Len(q)
  <1>0. m \in Nat /\ p \in 0 .. m /\ \A i \in 1 .. m : q[i] \in Kind
    OBVIOUS
  <1>1. a \in Seq(Kind) /\ Len(a) = p /\ \A i \in 1 .. p : a[i] = q[i]
    OBVIOUS
  <1>2. b \in Seq(Kind) /\ Len(b) = m - p /\ \A i \in 1 .. m - p : b[i] = q[p + i]
    OBVIOUS
  <1>3. InsertAt(q, p + 1, k) = w
    <2>1. (p + 1) - 1 = p
      OBVIOUS
    <2> QED BY <2>1 DEF InsertAt
  <1> HIDE DEF a, b, m
  <1> DEFINE c == a \o <<k>>
  <1>4. /\ c \in Seq(Kind) /\ Len(c) = p + 1 /\ c[p + 1] = k
        /\ \A i \in 1 .. p : c[i] = q[i]
    BY <1>0, <1>1
  <1> HIDE DEF c
  <1>5. w = c \o b
    BY DEF c
  <1>6. /\ w \in Seq(Kind) /\ Len(w) = m + 1
        /\ \A i \in 1 .. p + 1 : w[i] = c[i]
        /\ \A i \in p + 2 .. m + 1 : w[i] = b[i - (p + 1)]
    <2> HIDE DEF w
    <2>1. w \in Seq(Kind) /\ Len(w) = Len(c) + Len(b)
      BY <1>2, <1>4, <1>5, ConcatProperties
    <2>2. \A i \in 1 .. Len(c) + Len(b) :
            w[i] = IF i <= Len(c) THEN c[i] ELSE b[i - Len(c)]
      BY <1>2, <1>4, <1>5
    <2>3. Len(c) = p + 1 /\ Len(b) = m - p
      BY <1>2, <1>4
    <2> QED BY <1>0, <2>1, <2>2, <2>3
  <1> HIDE DEF w
  <1>7. \A i \in 1 .. m + 1 : w[i] = IF i <= p THEN q[i] ELSE IF i = p + 1 THEN k ELSE q[i - 1]
    <2> SUFFICES ASSUME NEW i \in 1 .. m + 1
                 PROVE  w[i] = IF i <= p THEN q[i] ELSE IF i = p + 1 THEN k ELSE q[i - 1]
      OBVIOUS
    <2>1. CASE i <= p
      BY <1>0, <1>4, <1>6, <2>1
    <2>2. CASE i = p + 1
      BY <1>0, <1>4, <1>6, <2>2
    <2>3. CASE i >= p + 2
      <3>1. i - (p + 1) \in 1 .. m - p /\ p + (i - (p + 1)) = i - 1
        BY <1>0, <2>3
      <3> QED BY <1>0, <1>2, <1>6, <2>3, <3>1
    <2> QED BY <1>0, <2>1, <2>2, <2>3
  <1>8. ASSUME NEW j \in Kind
        PROVE  (\E i \in 1 .. m + 1 : w[i] = j) <=> (\E i \in 1 .. m : q[i] = j) \/ j = k
    <2>1. ASSUME NEW i \in 1 .. m + 1, w[i] = j PROVE (\E l \in 1 .. m : q[l] = j) \/ j = k
      BY <1>0, <1>7, <2>1
    <2>2. ASSUME NEW i \in 1 .. m, q[i] = j PROVE \E l \in 1 .. m + 1 : w[l] = j
      <3>1. CASE i <= p
        BY <1>0, <1>7, <2>2, <3>1
      <3>2. CASE i > p
        <4>1. i + 1 \in 1 .. m + 1 /\ w[i + 1] = q[i]
          BY <1>0, <1>7, <2>2, <3>2
        <4> QED BY <2>2, <4>1
      <3> QED BY <1>0, <3>1, <3>2
    <2>3. w[p + 1] = k /\ p + 1 \in 1 .. m + 1
      BY <1>0, <1>7
    <2> QED BY <2>1, <2>2, <2>3
  <1> QED BY <1>3, <1>6, <1>7, <1>8 DEF Contains, m

\* A datum that is put where none before it is later and none behind it is earlier.
Fits(q, trig, t, p) ==
    /\ \A i \in 1 .. p : trig[q[i]] <= t
    /\ \A i \in p + 1 .. Len(q) : t <= trig[q[i]]

\* r is c with k put in at the index p.
IsInserted(r, c, p, k) ==
    /\ r \in Seq(Kind) /\ Len(r) = Len(c) + 1
    /\ \A i \in 1 .. Len(c) + 1 : r[i] = IF i <= p THEN c[i] ELSE IF i = p + 1 THEN k ELSE c[i - 1]
    /\ \A j \in Kind : Contains(r, j) <=> Contains(c, j) \/ j = k

\* The same, as a relation.
LEMMA InsertedIs ==
    ASSUME NEW c, c \in Seq(Kind), NEW p, p \in 0 .. Len(c), NEW k \in Kind
    PROVE  IsInserted(InsertAt(c, p + 1, k), c, p, k)
<1>1. /\ InsertAt(c, p + 1, k) \in Seq(Kind) /\ Len(InsertAt(c, p + 1, k)) = Len(c) + 1
      /\ \A j \in Kind : Contains(InsertAt(c, p + 1, k), j) <=> Contains(c, j) \/ j = k
  BY InsertAtIs
<1>2. \A i \in 1 .. Len(c) + 1 : InsertAt(c, p + 1, k)[i] =
          IF i <= p THEN c[i] ELSE IF i = p + 1 THEN k ELSE c[i - 1]
  BY InsertAtIs, SMTT(60)
<1> QED
  BY <1>1, <1>2 DEF IsInserted

\* A new member is in the queue once.
LEMMA InsertedOnce ==
    ASSUME NEW c \in Seq(Kind), NEW p \in 0 .. Len(c), NEW k \in Kind, NEW r,
           IsInserted(r, c, p, k), Once(c), ~Contains(c, k)
    PROVE  Once(r)
<1> DEFINE m == Len(c)
<1>1. /\ m \in Nat /\ p \in 0 .. m /\ Len(r) = m + 1
      /\ \A i \in 1 .. m + 1 : r[i] = IF i <= p THEN c[i] ELSE IF i = p + 1 THEN k ELSE c[i - 1]
      /\ \A i, j \in 1 .. m : c[i] = c[j] => i = j
      /\ \A i \in 1 .. m : c[i] # k
  <2>1. m \in Nat /\ p \in 0 .. m /\ Len(r) = m + 1
    BY DEF IsInserted
  <2>2. \A i \in 1 .. m + 1 : r[i] = IF i <= p THEN c[i] ELSE IF i = p + 1 THEN k ELSE c[i - 1]
    BY Zenon DEF IsInserted
  <2>3. \A i, j \in 1 .. m : c[i] = c[j] => i = j
    BY DEF Once
  <2>4. \A i \in 1 .. m : c[i] # k
    BY DEF Contains
  <2> QED
    BY <2>1, <2>2, <2>3, <2>4, Zenon
<1> HIDE DEF m
<1> SUFFICES ASSUME NEW i \in 1 .. m + 1, NEW j \in 1 .. m + 1, r[i] = r[j] PROVE i = j
  BY <1>1 DEF Once
<1>2. \/ i <= p /\ i \in 1 .. m /\ r[i] = c[i]
      \/ i = p + 1 /\ r[i] = k
      \/ i > p + 1 /\ i - 1 \in 1 .. m /\ r[i] = c[i - 1]
  BY <1>1
<1>3. \/ j <= p /\ j \in 1 .. m /\ r[j] = c[j]
      \/ j = p + 1 /\ r[j] = k
      \/ j > p + 1 /\ j - 1 \in 1 .. m /\ r[j] = c[j - 1]
  BY <1>1
<1> QED
  BY <1>1, <1>2, <1>3

\* A member put in where it fits keeps a queue in order.
LEMMA InsertKeepsSorting ==
    ASSUME NEW q \in Seq(Kind), NEW p \in 0 .. Len(q), NEW k \in Kind,
           NEW trig \in [Kind -> Int], Sorting(q, trig), Fits(q, trig, trig[k], p)
    PROVE  Sorting(InsertAt(q, p + 1, k), trig)
  <1> DEFINE m == Len(q)
             w == InsertAt(q, p + 1, k)
  <1>1. m \in Nat /\ p \in 0 .. m /\ \A i \in 1 .. m : trig[q[i]] \in Int
    OBVIOUS
  <1>2. /\ \A i, j \in 1 .. m : i < j => trig[q[i]] <= trig[q[j]]
        /\ \A i \in 1 .. p : trig[q[i]] <= trig[k]
        /\ \A i \in p + 1 .. m : trig[k] <= trig[q[i]]
    BY DEF Sorting, Fits
  <1>3. Len(w) = m + 1 /\ \A i \in 1 .. m + 1 :
            w[i] = IF i <= p THEN q[i] ELSE IF i = p + 1 THEN k ELSE q[i - 1]
    BY InsertAtIs
  <1>4. trig[k] \in Int
    OBVIOUS
  <1> HIDE DEF m, w
  <1>5. \A i, j \in 1 .. m + 1 : i < j => trig[w[i]] <= trig[w[j]]
    <2> SUFFICES ASSUME NEW i \in 1 .. m + 1, NEW j \in 1 .. m + 1, i < j
                 PROVE  trig[w[i]] <= trig[w[j]]
      OBVIOUS
    <2>1. CASE j <= p
      BY <1>1, <1>2, <1>3, <2>1
    <2>2. CASE j = p + 1
      <3>1. w[j] = k /\ w[i] = q[i] /\ i \in 1 .. p
        BY <1>1, <1>3, <2>2
      <3> QED BY <1>2, <3>1
    <2>3. CASE j >= p + 2
      <3>1. w[j] = q[j - 1] /\ j - 1 \in p + 1 .. m /\ j - 1 \in 1 .. m
        BY <1>1, <1>3, <2>3
      <3>2. CASE i <= p
        <4>1. w[i] = q[i] /\ i \in 1 .. m /\ i < j - 1
          BY <1>1, <1>3, <2>3, <3>2
        <4> QED BY <1>2, <3>1, <4>1
      <3>3. CASE i = p + 1
        <4>1. w[i] = k
          BY <1>1, <1>3, <3>3
        <4> QED BY <1>2, <3>1, <4>1
      <3>4. CASE i >= p + 2
        <4>1. ~(i <= p) /\ i # p + 1 /\ i - 1 \in 1 .. m /\ i - 1 < j - 1
          BY <1>1, <2>3, <3>4
        <4>2. w[i] = q[i - 1]
          BY <1>3, <4>1
        <4> QED BY <1>2, <3>1, <4>1, <4>2
      <3> QED BY <1>1, <3>2, <3>3, <3>4
    <2> QED BY <1>1, <2>1, <2>2, <2>3
  <1> QED BY <1>3, <1>5 DEF Sorting, w

Between(u, m, t, a, b) ==
    /\ \A i \in 1 .. a : u[i] <= t
    /\ \A i \in b + 1 .. m : t <= u[i]

\* What a comparison with the member in the middle says of the others.
LEMMA Comparing ==
    ASSUME NEW m \in Nat, NEW u \in [1 .. m -> Int], NEW t \in Int,
           \A i, j \in 1 .. m : i < j => u[i] <= u[j],
           NEW a \in 0 .. m, NEW b \in 0 .. m, Between(u, m, t, a, b),
           NEW c \in a .. b - 1
    PROVE  /\ t > u[c + 1] => Between(u, m, t, c + 1, b)
           /\ t <= u[c + 1] => Between(u, m, t, a, b - 1)
           /\ t <= u[c + 1] /\ c # 0 /\ ~(t < u[c + 1] /\ t < u[c]) => Between(u, m, t, c, c)
  <1>1. c \in Nat /\ c + 1 \in 1 .. m /\ u[c + 1] \in Int /\ c < b /\ b \in 1 .. m
    OBVIOUS
  <1>2. \A i \in 1 .. c + 1 : i \in 1 .. m /\ u[i] \in Int /\ u[i] <= u[c + 1]
    <2> SUFFICES ASSUME NEW i \in 1 .. c + 1
                 PROVE  i \in 1 .. m /\ u[i] \in Int /\ u[i] <= u[c + 1]
      OBVIOUS
    <2>1. i \in 1 .. m /\ (i = c + 1 \/ i < c + 1)
      BY <1>1
    <2> QED BY <1>1, <2>1
  <1>3. \A i \in c + 1 .. m : i \in 1 .. m /\ u[i] \in Int /\ u[c + 1] <= u[i]
    <2> SUFFICES ASSUME NEW i \in c + 1 .. m
                 PROVE  i \in 1 .. m /\ u[i] \in Int /\ u[c + 1] <= u[i]
      OBVIOUS
    <2>1. i \in 1 .. m /\ (i = c + 1 \/ c + 1 < i)
      BY <1>1
    <2> QED BY <1>1, <2>1
  <1>4. ASSUME t > u[c + 1] PROVE Between(u, m, t, c + 1, b)
    BY <1>1, <1>2, <1>4 DEF Between
  <1>5. ASSUME t <= u[c + 1] PROVE Between(u, m, t, a, b - 1)
    <2>1. \A i \in (b - 1) + 1 .. m : i \in c + 1 .. m
      BY <1>1
    <2> QED BY <1>1, <1>3, <1>5, <2>1 DEF Between
  <1>6. ASSUME t <= u[c + 1], c # 0, ~(t < u[c + 1] /\ t < u[c]) PROVE Between(u, m, t, c, c)
    <2>1. c \in 1 .. m /\ u[c] \in Int
      BY <1>1, <1>6
    <2>2. \A i \in 1 .. c : u[i] <= u[c]
      <3> SUFFICES ASSUME NEW i \in 1 .. c PROVE u[i] <= u[c]
        OBVIOUS
      <3>1. i \in 1 .. m /\ (i = c \/ i < c)
        BY <2>1
      <3> QED BY <2>1, <3>1
    <2>3. \A i \in 1 .. c : i \in 1 .. c + 1
      BY <1>1
    <2>4. u[c + 1] = t \/ u[c] <= t
      BY <1>1, <1>6, <2>1
    <2>5. \A i \in 1 .. c : u[i] <= t
      BY <1>1, <1>2, <2>1, <2>2, <2>3, <2>4
    <2>6. \A i \in c + 1 .. m : t <= u[i]
      BY <1>1, <1>3, <1>6
    <2> QED BY <2>5, <2>6 DEF Between
  <1> QED BY <1>4, <1>5, <1>6

\* What is left to search after n calls of _find_insertion_point: what is left out
\* on the left is not later than the datum, what is left out on the right not earlier.
Searched(q, trig, t, n) ==
    {range \in (0 .. Len(q)) \X (0 .. Len(q)) :
        /\ range[1] <= range[2] /\ range[2] - range[1] <= Len(q) - n
        /\ Sorting(q, trig) =>
             Between([i \in 1 .. Len(q) |-> trig[q[i]]], Len(q), t, range[1], range[2])}

\* A call of the binary search keeps the place between its bounds.
LEMMA NarrowedIs ==
    ASSUME NEW s, NEW k \in Kind, s.callbacks \in Seq(Kind), s.trigger \in [Kind -> Int],
           NEW n \in 1 .. Len(s.callbacks),
           NEW range \in Searched(s.callbacks, s.trigger, s.trigger[k], n - 1)
    PROVE  Narrowed(s, k, range) \in Searched(s.callbacks, s.trigger, s.trigger[k], n)
  <1> DEFINE q == s.callbacks
             m == Len(q)
             t == s.trigger[k]
             u == [i \in 1 .. m |-> s.trigger[q[i]]]
             a == range[1]
             b == range[2]
             c == (a + b) \div 2
  <1>1. m \in Nat /\ n \in 1 .. m /\ t \in Int /\ u \in [1 .. m -> Int]
    OBVIOUS
  <1>2. /\ a \in 0 .. m /\ b \in 0 .. m /\ a <= b /\ b - a <= m - (n - 1)
        /\ Sorting(q, s.trigger) => Between(u, m, t, a, b)
        /\ range = <<a, b>>
    BY <1>1 DEF Searched
  <1>3. Sorting(q, s.trigger) => \A i, j \in 1 .. m : i < j => u[i] <= u[j]
    BY DEF Sorting
  <1>4. \A i, j \in 0 .. m :
          /\ i <= j /\ j - i <= m - n
          /\ Sorting(q, s.trigger) => Between(u, m, t, i, j)
          => <<i, j>> \in Searched(q, s.trigger, t, n)
    BY <1>1 DEF Searched
  <1>5. a # b => /\ c \in a .. b - 1 /\ c \in 0 .. m - 1
                 /\ c \in Int /\ a <= c /\ c < b /\ c + 1 \in 1 .. m
                 /\ c # 0 => c \in 1 .. m /\ (c - 1) + 1 = c
    <2> HIDE DEF a, b, m, t, u
    <2>1. a \in Nat /\ b \in Nat /\ b <= m /\ a <= b
      BY <1>1, <1>2
    <2>2. a # b => a <= (a + b) \div 2 /\ (a + b) \div 2 < b /\ (a + b) \div 2 \in Nat
      BY <2>1
    <2> QED BY <1>1, <2>1, <2>2
  <1>d. \A x \in 1 .. m : s.trigger[q[x]] = u[x]
    OBVIOUS
  <1>6. a # b => s.trigger[q[c + 1]] = u[c + 1]
    <2> HIDE DEF c, u, q, m, a, b
    <2> QED BY <1>d, <1>5
  <1>7. a # b /\ c # 0 => s.trigger[q[(c - 1) + 1]] = u[c]
    <2> HIDE DEF c, u, q, m, a, b
    <2> QED BY <1>d, <1>5
  <1>8. Narrowed(s, k, range) =
          IF a = b THEN <<a, b>>
          ELSE IF t > u[c + 1] THEN <<c + 1, b>>
          ELSE IF c = 0 \/ (t < u[c + 1] /\ t < u[c]) THEN <<a, b - 1>>
          ELSE <<c, c>>
    BY <1>2, <1>6, <1>7 DEF Narrowed
  <1>9. Searched(s.callbacks, s.trigger, s.trigger[k], n) = Searched(q, s.trigger, t, n)
    OBVIOUS
  <1> HIDE DEF t, u, a, b, c, m, q
  <1>a. a \in Int /\ b \in Int /\ m \in Int /\ n \in Int /\ 0 <= a /\ b <= m
    BY <1>1, <1>2
  <1>b. a # b => c \in Int /\ a <= c /\ c < b
    BY <1>5
  <1>c. b - a <= m - (n - 1)
    BY <1>2
  <1>10. a # b => u[c + 1] \in Int
    BY <1>1, <1>5
  <1>11. CASE a = b
    <2>1. b - a <= m - n
      BY <1>1, <1>2, <1>11
    <2> QED BY <1>2, <1>4, <1>8, <1>9, <1>11, <2>1
  <1>12. CASE a # b /\ t > u[c + 1]
    <2>1. Sorting(q, s.trigger) => Between(u, m, t, c + 1, b)
      BY <1>1, <1>2, <1>3, <1>5, <1>12, Comparing
    <2>2. c + 1 \in 0 .. m /\ c + 1 <= b /\ b - (c + 1) <= m - n
      <3>1. c \in Int /\ a <= c /\ c < b
        BY <1>b, <1>12
      <3> QED BY <1>a, <1>c, <3>1
    <2> QED BY <1>2, <1>4, <1>8, <1>9, <1>12, <2>1, <2>2
  <1>13. CASE a # b /\ ~(t > u[c + 1]) /\ (c = 0 \/ (t < u[c + 1] /\ t < u[c]))
    <2>1. t <= u[c + 1]
      BY <1>1, <1>10, <1>13
    <2>2. Sorting(q, s.trigger) => Between(u, m, t, a, b - 1)
      BY <1>1, <1>2, <1>3, <1>5, <1>13, <2>1, Comparing
    <2>3. b - 1 \in 0 .. m /\ a <= b - 1 /\ (b - 1) - a <= m - n
      <3>1. c \in Int /\ a <= c /\ c < b
        BY <1>b, <1>13
      <3> QED BY <1>a, <1>c, <3>1
    <2> QED BY <1>2, <1>4, <1>8, <1>9, <1>13, <2>2, <2>3
  <1>14. CASE a # b /\ ~(t > u[c + 1]) /\ ~(c = 0 \/ (t < u[c + 1] /\ t < u[c]))
    <2>1. t <= u[c + 1]
      BY <1>1, <1>10, <1>14
    <2>2. Sorting(q, s.trigger) => Between(u, m, t, c, c)
      BY <1>1, <1>2, <1>3, <1>5, <1>14, <2>1, Comparing
    <2>3. c \in 0 .. m /\ c <= c /\ c - c <= m - n
      <3>1. c \in Int /\ a <= c /\ c < b
        BY <1>b, <1>14
      <3> QED BY <1>1, <1>a, <3>1
    <2> QED BY <1>4, <1>8, <1>9, <1>14, <2>2, <2>3
  <1> QED BY <1>11, <1>12, <1>13, <1>14

\* _find_insertion_point returns a place where the datum fits.
LEMMA InsertionPointIs ==
    ASSUME NEW s, NEW k \in Kind, s.callbacks \in Seq(Kind), s.trigger \in [Kind -> Int]
    PROVE  /\ InsertionPoint(s, k) \in 0 .. Len(s.callbacks)
           /\ Sorting(s.callbacks, s.trigger) =>
                 Fits(s.callbacks, s.trigger, s.trigger[k], InsertionPoint(s, k))
  <1> DEFINE q == s.callbacks
             N == Len(q)
             t == s.trigger[k]
             ranges == (0 .. N) \X (0 .. N)
             call == [range \in ranges |-> Narrowed(s, k, range)]
             f == [i \in 1 .. N |-> call]
             ids == [i \in 1 .. N |-> i]
             D == [n \in 0 .. N |-> Searched(q, s.trigger, t, n)]
             r == Through(f, <<0, N>>, ids)
  <1>1. N \in Nat /\ Len(ids) = N
    OBVIOUS
  <1>2. <<0, N>> \in Searched(q, s.trigger, t, 0)
    BY <1>1 DEF Searched, Between
  <1>3. ASSUME NEW n \in 1 .. N, NEW range \in Searched(q, s.trigger, t, n - 1)
        PROVE  f[ids[n]][range] \in Searched(q, s.trigger, t, n)
    <2>1. range \in ranges
      BY DEF Searched
    <2>2. f[ids[n]][range] = Narrowed(s, k, range)
      BY <2>1
    <2> HIDE DEF f, ids, call, ranges, D, r
    <2>3. Narrowed(s, k, range) \in Searched(q, s.trigger, t, n)
      BY NarrowedIs
    <2> QED BY <2>2, <2>3
  <1>4. InsertionPoint(s, k) = r[1]
    BY DEF InsertionPoint
  <1>5. \A n \in 0 .. N : D[n] = Searched(q, s.trigger, t, n)
    OBVIOUS
  <1>6. \A n \in 1 .. N : n \in 0 .. N /\ n - 1 \in 0 .. N
    OBVIOUS
  <1> HIDE DEF f, D, ids, r
  <1>7. \A n \in 1 .. N : \A range \in D[n - 1] : f[ids[n]][range] \in D[n]
    BY <1>3, <1>5, <1>6
  <1>8. r \in Searched(q, s.trigger, t, N)
    <2>1. <<0, N>> \in D[0] /\ D[N] = Searched(q, s.trigger, t, N)
      BY <1>1, <1>2, <1>5
    <2>2. r \in D[N]
      BY <1>1, <1>7, <2>1, ThroughKeeps DEF r
    <2> QED BY <2>1, <2>2
  <1>9. /\ r[1] \in 0 .. N /\ r[2] \in 0 .. N /\ r[1] <= r[2] /\ r[2] - r[1] <= N - N
        /\ Sorting(q, s.trigger) => Between([i \in 1 .. N |-> s.trigger[q[i]]], N, t, r[1], r[2])
    BY <1>8 DEF Searched
  <1>10. r[2] = r[1]
    BY <1>1, <1>9
  <1>11. Between([i \in 1 .. N |-> s.trigger[q[i]]], N, t, r[1], r[1])
           => Fits(q, s.trigger, t, r[1])
    <2>1. \A i \in 1 .. r[1] : i \in 1 .. N
      BY <1>1, <1>9
    <2>2. \A i \in r[1] + 1 .. N : i \in 1 .. N
      BY <1>1, <1>9
    <2> QED BY <2>1, <2>2 DEF Between, Fits
  <1> QED BY <1>4, <1>9, <1>10, <1>11

\* What is behind the first i of n members of u is later than t.
Parted(u, t, n, i) ==
    /\ \A j \in 1 .. i : u[j] <= t
    /\ \A j \in i + 1 .. n : u[j] > t

\* In a sorted queue there is a place behind all that are not later.
LEMMA BehindIs ==
    ASSUME NEW s, NEW done \in Seq(Kind), NEW k \in Kind, s.trigger \in [Kind -> Int],
           Sorting(done, s.trigger)
    PROVE  /\ Behind(s, done, k) \in 0 .. Len(done)
           /\ Fits(done, s.trigger, s.trigger[k], Behind(s, done, k))
  <1> DEFINE m == Len(done)
             t == s.trigger[k]
             u == [i \in 1 .. m |-> s.trigger[done[i]]]
             S == {n \in Nat : n <= m => \E i \in 0 .. n : Parted(u, t, n, i)}
  <1>1. m \in Nat /\ t \in Int /\ u \in [1 .. m -> Int]
    OBVIOUS
  <1>2. \A i, j \in 1 .. m : i < j => u[i] <= u[j]
    BY DEF Sorting
  <1> HIDE DEF u, m, t
  <1>3. 0 \in S
    <2>1. Parted(u, t, 0, 0) /\ 0 \in 0 .. 0
      BY DEF Parted
    <2> QED BY <2>1
  <1>4. ASSUME NEW n \in Nat, n \in S PROVE n + 1 \in S
    <2> SUFFICES ASSUME n + 1 <= m
                 PROVE  \E i \in 0 .. n + 1 : Parted(u, t, n + 1, i)
      OBVIOUS
    <2>1. n + 1 \in 1 .. m /\ u[n + 1] \in Int
      BY <1>1
    <2>2. CASE u[n + 1] <= t
      <3>1. \A j \in 1 .. n + 1 : u[j] <= t
        <4> SUFFICES ASSUME NEW j \in 1 .. n + 1 PROVE u[j] <= t
          OBVIOUS
        <4>1. j \in 1 .. m /\ u[j] \in Int /\ (j = n + 1 \/ j < n + 1)
          BY <1>1, <2>1
        <4>2. u[j] <= u[n + 1]
          BY <1>2, <2>1, <4>1
        <4> QED BY <1>1, <2>1, <2>2, <4>1, <4>2
      <3>2. \A j \in (n + 1) + 1 .. n + 1 : u[j] > t
        OBVIOUS
      <3>3. Parted(u, t, n + 1, n + 1) /\ n + 1 \in 0 .. n + 1
        BY <3>1, <3>2 DEF Parted
      <3> QED BY <3>3
    <2>3. CASE u[n + 1] > t
      <3>0. PICK i \in 0 .. n : Parted(u, t, n, i)
        <4>1. n <= m
          BY <1>1
        <4> QED BY <1>4, <4>1
      <3>1. (\A j \in 1 .. i : u[j] <= t) /\ \A j \in i + 1 .. n : u[j] > t
        BY <3>0 DEF Parted
      <3>2. \A j \in i + 1 .. n + 1 : j \in i + 1 .. n \/ j = n + 1
        OBVIOUS
      <3>3. \A j \in i + 1 .. n + 1 : u[j] > t
        BY <2>3, <3>1, <3>2
      <3>4. Parted(u, t, n + 1, i) /\ i \in 0 .. n + 1
        BY <3>1, <3>3 DEF Parted
      <3> QED BY <3>4
    <2> QED BY <1>1, <2>1, <2>2, <2>3
  <1> HIDE DEF S
  <1>5. m \in S
    BY <1>1, <1>3, <1>4, NatInd
  <1>6. \E i \in 0 .. m : (\A j \in 1 .. i : u[j] <= t) /\ \A j \in i + 1 .. m : u[j] > t
    BY <1>1, <1>5 DEF S, Parted
  <1> DEFINE b == Behind(s, done, k)
  <1>7. \A i \in 0 .. m : (\A j \in 1 .. i : j \in 1 .. m) /\ \A j \in i + 1 .. m : j \in 1 .. m
    BY <1>1
  <1>8. \E i \in 0 .. Len(done) : /\ \A j \in 1 .. i : s.trigger[done[j]] <= s.trigger[k]
                                  /\ \A j \in i + 1 .. Len(done) : s.trigger[done[j]] > s.trigger[k]
    BY <1>6, <1>7 DEF u, m, t
  <1>9. /\ b \in 0 .. Len(done)
        /\ \A j \in 1 .. b : s.trigger[done[j]] <= s.trigger[k]
        /\ \A j \in b + 1 .. Len(done) : s.trigger[done[j]] > s.trigger[k]
    BY <1>8 DEF Behind
  <1>10. \A j \in b + 1 .. Len(done) : s.trigger[k] <= s.trigger[done[j]]
    <2>1. \A j \in b + 1 .. Len(done) : s.trigger[done[j]] \in Int /\ s.trigger[k] \in Int
      BY <1>9
    <2> QED BY <1>9, <2>1
  <1> QED BY <1>9, <1>10 DEF Fits

SortedSoFar(q, trig, n) ==
    {r \in Seq(Kind) : /\ Sorting(r, trig)
                       /\ Once(q) => Once(r)
                       /\ \A k \in Kind : Contains(r, k) <=> \E i \in 1 .. n : q[i] = k}
InsertBehind(s) ==
    [k \in Kind |-> [done \in Seq(Kind) |-> InsertAt(done, Behind(s, done, k) + 1, k)]]

\* list.sort(): the same callbacks, soonest first.
LEMMA SortedIs ==
    ASSUME NEW s, s.callbacks \in Seq(Kind), s.trigger \in [Kind -> Int]
    PROVE  \E r \in Seq(Kind) : /\ Sorted(s) = [s EXCEPT !.callbacks = r]
                                /\ Sorting(r, s.trigger)
                                /\ Once(s.callbacks) => Once(r)
                                /\ \A k \in Kind : Contains(r, k) <=> Contains(s.callbacks, k)
  <1> DEFINE q == s.callbacks
             N == Len(q)
             D == [n \in 0 .. N |-> SortedSoFar(q, s.trigger, n)]
             f == InsertBehind(s)
             r == Through(f, <<>>, q)
  <1>1. N \in Nat /\ \A i \in 1 .. N : q[i] \in Kind
    OBVIOUS
  <1>2. <<>> \in SortedSoFar(q, s.trigger, 0)
    BY DEF SortedSoFar, Sorting, Contains, Once
  <1>3. ASSUME NEW n \in 1 .. N, NEW done \in SortedSoFar(q, s.trigger, n - 1)
        PROVE  f[q[n]][done] \in SortedSoFar(q, s.trigger, n)
    <2>1. /\ done \in Seq(Kind) /\ q[n] \in Kind /\ Sorting(done, s.trigger)
          /\ Once(q) => Once(done)
          /\ \A k \in Kind : Contains(done, k) <=> \E i \in 1 .. n - 1 : q[i] = k
      BY <1>1 DEF SortedSoFar
    <2> DEFINE w == InsertAt(done, Behind(s, done, q[n]) + 1, q[n])
    <2>2. f[q[n]][done] = w
      BY <2>1 DEF InsertBehind
    <2> HIDE DEF f, D, N, q, r
    <2>3. /\ Behind(s, done, q[n]) \in 0 .. Len(done)
          /\ Fits(done, s.trigger, s.trigger[q[n]], Behind(s, done, q[n]))
      BY <2>1, BehindIs
    <2>4. w \in Seq(Kind) /\ \A j \in Kind : Contains(w, j) <=> Contains(done, j) \/ j = q[n]
      BY <2>1, <2>3, InsertAtIs
    <2>5. Sorting(w, s.trigger)
      BY <2>1, <2>3, InsertKeepsSorting
    <2>6. \A k \in Kind : (\E i \in 1 .. n : q[i] = k) <=> (\E i \in 1 .. n - 1 : q[i] = k) \/ k = q[n]
      BY <1>1
    <2>7. ASSUME Once(q) PROVE Once(w)
      <3>1. ~Contains(done, q[n])
        <4>1. n \in 1 .. Len(q) /\ \A i \in 1 .. n - 1 : i \in 1 .. Len(q) /\ i # n
          BY <1>1 DEF N
        <4>2. ~ \E i \in 1 .. n - 1 : q[i] = q[n]
          BY <2>7, <4>1 DEF Once
        <4> QED BY <2>1, <4>2
      <3>2. IsInserted(w, done, Behind(s, done, q[n]), q[n])
        BY <2>1, <2>3, InsertedIs
      <3> HIDE DEF w
      <3> QED BY <2>1, <2>3, <2>7, <3>1, <3>2, InsertedOnce
    <2> QED BY <2>1, <2>2, <2>4, <2>5, <2>6, <2>7 DEF SortedSoFar
  <1>4. \A n \in 0 .. N : D[n] = SortedSoFar(q, s.trigger, n)
    OBVIOUS
  <1>5. \A n \in 1 .. N : n \in 0 .. N /\ n - 1 \in 0 .. N
    OBVIOUS
  <1>6. Sorted(s) = [s EXCEPT !.callbacks = r]
    BY DEF Sorted, InsertBehind
  <1> HIDE DEF f, D
  <1>7. \A n \in 1 .. N : \A done \in D[n - 1] : f[q[n]][done] \in D[n]
    BY <1>3, <1>4, <1>5
  <1>8. r \in SortedSoFar(q, s.trigger, N)
    <2>1. <<>> \in D[0] /\ D[N] = SortedSoFar(q, s.trigger, N)
      BY <1>1, <1>2, <1>4
    <2>2. r \in D[N]
      BY <1>1, <1>7, <2>1, ThroughKeeps
    <2> QED BY <2>1, <2>2
  <1> QED BY <1>6, <1>8 DEF SortedSoFar, Contains

\* One level of the nested calls, of the level below.
Level(n, below) ==
    [k \in Kind \cup {"overdue"} |-> [s \in StatRecord |->
        IF n = 0 THEN [s EXCEPT !.tooDeep = TRUE] ELSE Handle(below, s, k)]]
Levels(u, N) == u = [n \in 0 .. N |-> Level(n, u[n - 1])]

\* The recursive function of the nested calls exists.
LEMMA LevelsExist ==
    ASSUME NEW N \in Nat PROVE \E u : Levels(u, N)
  <1> DEFINE S == {n \in Nat : \E u : Levels(u, n)}
  <1>0. \A x, y : Level(0, x) = Level(0, y)
    BY DEF Level
  <1>1. 0 \in S
    <2> DEFINE u == [i \in 0 .. 0 |-> Level(0, 0)]
    <2>1. \A i \in 0 .. 0 : Level(i, u[i - 1]) = Level(0, 0)
      BY <1>0
    <2>2. u = [i \in 0 .. 0 |-> Level(i, u[i - 1])]
      BY <2>1
    <2> QED BY <2>2 DEF Levels
  <1>2. ASSUME NEW n \in Nat, n \in S PROVE n + 1 \in S
    <2>1. PICK u : Levels(u, n)
      BY <1>2
    <2>2. \A i \in 0 .. n : u[i] = Level(i, u[i - 1])
      BY <2>1 DEF Levels
    <2> DEFINE w == [i \in 0 .. n + 1 |-> IF i = n + 1 THEN Level(n + 1, u[n]) ELSE u[i]]
    <2>3. ASSUME NEW i \in 0 .. n + 1 PROVE w[i] = Level(i, w[i - 1])
      <3>1. CASE i = 0
        BY <1>0, <2>2, <3>1
      <3>2. CASE i \in 1 .. n
        <4>1. w[i] = u[i] /\ w[i - 1] = u[i - 1]
          BY <3>2
        <4> QED BY <2>2, <3>2, <4>1
      <3>3. CASE i = n + 1
        <4>1. w[i] = Level(n + 1, u[n]) /\ w[i - 1] = u[n]
          BY <3>3
        <4> QED BY <3>3, <4>1
      <3>4. i = 0 \/ i \in 1 .. n \/ i = n + 1
        OBVIOUS
      <3> HIDE DEF w
      <3> QED BY <3>1, <3>2, <3>3, <3>4
    <2>4. Levels(w, n + 1)
      BY <2>3 DEF Levels
    <2> QED BY <2>4
  <1> HIDE DEF S
  <1>3. N \in S
    BY <1>1, <1>2, NatInd
  <1> QED BY <1>3 DEF S

\* The calls of one level may call those of the level below.
LEMMA NestedIs ==
    \A n \in 0 .. MaxNested : Nested[n] = Level(n, Nested[n - 1])
  <1>1. Nested = CHOOSE u : Levels(u, MaxNested)
    BY DEF Nested, Levels, Level
  <1>2. Levels(Nested, MaxNested)
    BY <1>1, LevelsExist, CommodityAssumption
  <1> QED BY <1>2 DEF Levels

-----------------------------------------------------------------------------
(***************************************************************************)
(* What holds of the statistic whenever one of its methods runs.           *)
(***************************************************************************)

\* The data of the callbacks that wait for the bounds of a state and for distress.
UpDatum(i) == [cmp |-> "ge", val |-> StateBounds[i + 1]]
DownDatum(i) == [cmp |-> "lt", val |-> StateBounds[i]]
DistressDatum == [cmp |-> "le", val |-> DistressThreshold]
ExitDatum == [cmp |-> "gt", val |-> DistressThreshold]

\* What the value is by now.
Current(s) == DecayedValue(s)

\* The trigger time of k is what is left of the one of the last update.
Right(s, k) ==
    s.trigger[k] = IF TriggerTime(s, s.data[k]) = Never THEN Never
                   ELSE TriggerTime(s, s.data[k]) - s.lag

\* k is not due yet; nor is it as long as the value only decays.
Calm(s, k) == Registered(s, k) => s.trigger[k] > 0
Exact(s, k) == Registered(s, k) => s.trigger[k] > 0 /\ Right(s, k)

Sound(s) ==
    /\ s \in StatRecord /\ ~s.tooDeep /\ Once(s.callbacks)
    /\ \A k \in Kind : s.trigger[k] <= Never
    /\ \A k \in Kind : Registered(s, k) => s.data[k] # NoData
    /\ Registered(s, "up") \/ Registered(s, "down") => s.state # None
    /\ s.data["exit"] \in {NoData, ExitDatum}
    /\ s.data["distress"] \in {NoData, DistressDatum}
    /\ s.data["offlot"] \in {NoData, OffLotThreshold}

\* Nothing is overdue, unless an alarm is calling what is.
Good(s) == Sound(s) /\ (s.suppress \/ \A k \in Kind : Calm(s, k))

\* The alarm is set for the first of the queue.
Ordered(s) == Sorting(s.callbacks, s.trigger)
AlarmSet(s) ==
    IF s.callbacks = <<>> \/ s.trigger[Head(s.callbacks)] = Never
    THEN s.alarm = Never /\ s.active = "none"
    ELSE s.alarm = s.trigger[Head(s.callbacks)] /\ s.active = Head(s.callbacks)
Tight(s) == Ordered(s) /\ (s.suppress \/ AlarmSet(s))

\* What a method does that may touch the callbacks and fields in touched, and
\* nothing else but the times of the queue.
Kept(s, t, k) == /\ Registered(t, k) <=> Registered(s, k)
                 /\ t.data[k] = s.data[k]
Fresh(s, t, k) == Exact(t, k) \/ (t.data[k] = s.data[k] /\ ~Exact(s, k))
Step(s, t, touched) ==
    /\ Good(t)
    /\ Current(t) = Current(s) /\ (s.lag = 0 => t.lag = 0)
    /\ t.suppress = s.suppress
    /\ "state" \notin touched => t.state = s.state
    /\ "distressBuff" \notin touched => t.distressBuff = s.distressBuff
    /\ "activatable" \notin touched => t.activatable = s.activatable
    /\ "phase" \notin touched => t.phase = s.phase
    /\ "handle" \notin touched => t.buff = s.buff
    /\ "leak" \notin touched => t.leaked = s.leaked
    /\ Tight(s) => Tight(t)
    /\ \A k \in Kind : k \notin touched => Kept(s, t, k)
    /\ \A k \in Kind : Fresh(s, t, k)

\* One step after another is a step.
LEMMA StepTrans ==
    ASSUME NEW s, NEW t, NEW u, NEW m1, NEW m2, NEW m,
           Step(s, t, m1), Step(t, u, m2), m1 \subseteq m, m2 \subseteq m
    PROVE  Step(s, u, m)
<1>1. ASSUME NEW k \in Kind, k \notin m PROVE Kept(s, u, k)
  <2>1. Kept(s, t, k) /\ Kept(t, u, k)
    BY <1>1 DEF Step
  <2> QED
    BY <2>1 DEF Kept
<1>2. ASSUME NEW k \in Kind PROVE Fresh(s, u, k)
  <2>1. Fresh(s, t, k) /\ Fresh(t, u, k)
    BY DEF Step
  <2> QED
    BY <2>1 DEF Fresh
<1> QED
  BY <1>1, <1>2 DEF Step

\* To do nothing is a step.
LEMMA StepRefl ==
    ASSUME NEW s, Good(s), NEW m PROVE Step(s, s, m)
BY DEF Step, Kept, Fresh

\* The fields of a record.
LEMMA Fields ==
    ASSUME NEW s \in StatRecord
    PROVE  /\ s.value \in Value /\ s.lag \in Nat /\ s.decay \in BOOLEAN /\ s.convergence \in Value
           /\ s.data \in [Kind -> {NoData} \cup Threshold(Value)]
           /\ s.callbacks \in Seq(Kind) /\ s.trigger \in [Kind -> Int]
           /\ s.alarm \in Int /\ s.active \in Kind \cup {"none"}
           /\ s.suppress \in BOOLEAN /\ s.state \in {None} \cup States /\ s.buff \in {None} \cup States
           /\ s.distressBuff \in BOOLEAN /\ s.activatable \in BOOLEAN
           /\ s.phase \in {"regular", "stopped", "low", "removed"} /\ s.removes \in BOOLEAN
           /\ s.leaked \in BOOLEAN /\ s.tooDeep \in BOOLEAN
BY DEF StatRecord

\* The record is a statistic, in the sense of its arithmetic.
LEMMA StatRecordIsStat ==
    ASSUME NEW s \in StatRecord PROVE IsStat(s)
<1>1. Field \subseteq DOMAIN s /\ s = [f \in DOMAIN s |-> s[f]]
  BY DEF StatRecord, Field
<1> QED
  BY <1>1, Fields DEF IsStat

\* The trigger time that stands for None is a number.
LEMMA NeverIsLate ==
    Never \in Nat /\ Never >= 2
BY ValueAssumption DEF Never

\* A threshold that is registered: its trigger time is later than now.
LEMMA ResetIsLater ==
    ASSUME NEW s \in StatRecord, NEW k \in Kind, s.data[k] # NoData
    PROVE  TriggerTime(s, s.data[k]) \in Int /\ TriggerTime(s, s.data[k]) > 0
           /\ TriggerTime(s, s.data[k]) <= Never
<1>1. s.data[k] \in Threshold(Value)
  BY Fields
<1>2. TriggerTime(s, s.data[k]) \in 1 .. Never
  BY <1>1, StatRecordIsStat, TriggerTimeRange
<1> QED
  BY <1>2, NeverIsLate

\* A value that was just read is the current one.
LEMMA NoLag ==
    ASSUME NEW s, IsStat(s), s.lag = 0 PROVE DecayedValue(s) = s.value
<1>1. s.lag * DecayRate = 0 /\ DecayRate \in Nat \ {0}
  BY ValueAssumption
<1>2. s.value \in Int /\ s.convergence \in Int
  BY ValueAssumption DEF IsStat, Value
<1>3. Rate(s) \in Int
  BY <1>1 DEF Rate
<1>4. CASE Rate(s) = 0
  BY <1>4, DecayedValueIs
<1>5. CASE Rate(s) < 0
  BY <1>1, <1>2, <1>5, DecayedValueIs
<1>6. CASE Rate(s) > 0
  BY <1>1, <1>2, <1>6, DecayedValueIs
<1> QED
  BY <1>3, <1>4, <1>5, <1>6

\* _update_value
LEMMA Reading ==
    ASSUME NEW s \in StatRecord
    PROVE  /\ UpdateValue(s) \in StatRecord
           /\ UpdateValue(s).lag = 0 /\ UpdateValue(s).value = Current(s)
           /\ Current(UpdateValue(s)) = Current(s) /\ Current(s) \in Value
           /\ s.lag = 0 => UpdateValue(s) = s
           /\ UpdateValue(s) = [s EXCEPT !.lag = 0, !.value = Current(s)]
<1> DEFINE t == [s EXCEPT !.lag = 0, !.value = Current(s)]
<1>1. IsStat(s) /\ Current(s) \in Value /\ s.lag \in Nat
  BY StatRecordIsStat, DecayStaysInRange, Fields DEF Current
<1>2. t \in StatRecord
  BY <1>1 DEF StatRecord
<1>3. s.lag = 0 => Current(s) = s.value
  BY <1>1, NoLag DEF Current
<1>4. s.lag = 0 => t = s
  BY <1>3 DEF StatRecord
<1>5. UpdateValue(s) = t
  BY <1>1, <1>4 DEF UpdateValue, Current
<1>6. Current(t) = Current(s)
  <2>1. t.lag = 0 /\ t.value = Current(s) /\ t.value \in Value /\ IsStat(t)
    BY <1>1, <1>2, StatRecordIsStat DEF StatRecord
  <2> HIDE DEF t
  <2> QED
    BY <2>1, NoLag DEF Current
<1> QED
  BY <1>1, <1>2, <1>4, <1>5, <1>6 DEF StatRecord

\* What two records have in common.
SameValue(s, t) ==
    /\ t.value = s.value /\ t.lag = s.lag /\ t.decay = s.decay /\ t.convergence = s.convergence
SameQueue(s, t) == t.callbacks = s.callbacks /\ t.trigger = s.trigger /\ t.data = s.data
SameAlarm(s, t) == t.alarm = s.alarm /\ t.active = s.active
SameSelf(s, t) ==
    /\ t.suppress = s.suppress /\ t.state = s.state /\ t.distressBuff = s.distressBuff
    /\ t.activatable = s.activatable /\ t.phase = s.phase /\ t.tooDeep = s.tooDeep
    /\ t.buff = s.buff /\ t.leaked = s.leaked

\* The course of a value and its trigger times depend on nothing else.
LEMMA SameCourse ==
    ASSUME NEW s, NEW t, SameValue(s, t)
    PROVE  /\ Current(t) = Current(s)
           /\ \A th : TriggerTime(t, th) = TriggerTime(s, th)
<1>1. Rate(t) = Rate(s)
  BY DEF SameValue, Rate
<1> QED
  BY <1>1 DEF SameValue, Current, DecayedValue, TriggerTime, UnitsUntil

\* A trigger time stays exact while the course of the value is the same.
LEMMA SameExact ==
    ASSUME NEW s, NEW t, NEW k, SameValue(s, t), t.data[k] = s.data[k],
           t.trigger[k] = s.trigger[k], Registered(t, k) => Registered(s, k), Exact(s, k)
    PROVE  Exact(t, k)
BY SameCourse DEF SameValue, Exact, Right

\* Fields that the queue does not know of.
LEMMA FieldStep ==
    ASSUME NEW s, Good(s), NEW t \in StatRecord, ~t.tooDeep, NEW touched,
           SameValue(s, t), SameQueue(s, t), SameAlarm(s, t), t.suppress = s.suppress,
           Registered(s, "up") \/ Registered(s, "down") => t.state # None,
           "state" \notin touched => t.state = s.state,
           "distressBuff" \notin touched => t.distressBuff = s.distressBuff,
           "activatable" \notin touched => t.activatable = s.activatable,
           "phase" \notin touched => t.phase = s.phase,
           "handle" \notin touched => t.buff = s.buff,
           "leak" \notin touched => t.leaked = s.leaked
    PROVE  Step(s, t, touched)
<1>1. \A k : Registered(t, k) <=> Registered(s, k)
  BY DEF SameQueue, Registered
<1>2. Good(t)
  BY <1>1 DEF Good, Sound, Calm, SameQueue
<1>3. \A k \in Kind : Kept(s, t, k)
  BY <1>1 DEF Kept, SameQueue
<1>4. \A k \in Kind : Fresh(s, t, k)
  BY <1>1, SameExact DEF Fresh, SameQueue
<1>5. Tight(s) => Tight(t)
  BY DEF Tight, Ordered, AlarmSet, SameQueue, SameAlarm
<1>6. Current(t) = Current(s) /\ (s.lag = 0 => t.lag = 0)
  BY SameCourse DEF SameValue
<1> QED
  BY <1>2, <1>3, <1>4, <1>5, <1>6 DEF Step

\* A step, by parts.
LEMMA StepSame ==
    ASSUME NEW s, NEW t, NEW touched, Good(t), SameSelf(s, t),
           Current(t) = Current(s), s.lag = 0 => t.lag = 0, Tight(s) => Tight(t),
           \A k \in Kind : k \notin touched => Kept(s, t, k),
           \A k \in Kind : Fresh(s, t, k)
    PROVE  Step(s, t, touched)
BY DEF Step, SameSelf

\* Reading does not change a trigger time that is right.
LEMMA ReadingKeepsExact ==
    ASSUME NEW s, Sound(s), NEW k \in Kind, Exact(s, k) PROVE Exact(UpdateValue(s), k)
<1> DEFINE t == UpdateValue(s)
<1>1. s \in StatRecord
  BY DEF Sound
<1>2. /\ t \in StatRecord /\ t.lag = 0 /\ t = [s EXCEPT !.lag = 0, !.value = Current(s)]
  BY <1>1, Reading
<1> HIDE DEF t
<1>3. SameQueue(s, t)
  BY <1>1, <1>2 DEF StatRecord, SameQueue
<1>4. Registered(t, k) <=> Registered(s, k)
  BY <1>3 DEF SameQueue, Registered
<1>5. CASE ~Registered(s, k)
  BY <1>4, <1>5 DEF Exact, t
<1>6. CASE Registered(s, k)
  <2> DEFINE T == TriggerTime(s, s.data[k])
  <2>1. s.data[k] \in Threshold(Value) /\ s.trigger[k] \in Int /\ s.lag \in Nat
    BY <1>1, <1>6, Fields DEF Sound
  <2>2. s.trigger[k] > 0 /\ s.trigger[k] = IF T = Never THEN Never ELSE T - s.lag
    BY <1>6 DEF Exact, Right
  <2>3. T \in 1 .. Never
    BY <1>1, <2>1, StatRecordIsStat, TriggerTimeRange
  <2>4. T = Never \/ s.lag < T
    BY <2>1, <2>2, <2>3, NeverIsLate
  <2>5. TriggerTime(t, s.data[k]) = IF T = Never THEN Never ELSE T - s.lag
    BY <1>1, <2>1, <2>4, StatRecordIsStat, ReadingKeepsTriggerTimes DEF t
  <2>6. TriggerTime(t, s.data[k]) = s.trigger[k] /\ t.trigger = s.trigger /\ t.data = s.data
    BY <1>3, <2>2, <2>5 DEF SameQueue
  <2>7. Right(t, k)
    BY <1>2, <2>1, <2>6 DEF Right
  <2> QED
    BY <2>2, <2>6, <2>7 DEF Exact, t
<1> QED
  BY <1>5, <1>6

\* get_value and the other callers of _update_value
LEMMA UpdateValueStep ==
    ASSUME NEW s, Good(s)
    PROVE  /\ Step(s, UpdateValue(s), {}) /\ UpdateValue(s).lag = 0
           /\ SameQueue(s, UpdateValue(s)) /\ SameAlarm(s, UpdateValue(s))
           /\ SameSelf(s, UpdateValue(s))
           /\ UpdateValue(s).decay = s.decay /\ UpdateValue(s).convergence = s.convergence
<1> DEFINE t == UpdateValue(s)
<1>1. s \in StatRecord
  BY DEF Good, Sound
<1>2. /\ t \in StatRecord /\ t.lag = 0 /\ t.value = Current(s) /\ Current(t) = Current(s)
      /\ t = [s EXCEPT !.lag = 0, !.value = Current(s)]
  BY <1>1, Reading
<1> HIDE DEF t
<1>3. /\ SameQueue(s, t) /\ SameAlarm(s, t) /\ SameSelf(s, t)
      /\ t.decay = s.decay /\ t.convergence = s.convergence
  BY <1>1, <1>2 DEF StatRecord, SameQueue, SameAlarm, SameSelf
<1>4. \A k : Registered(t, k) <=> Registered(s, k)
  BY <1>3 DEF SameQueue, Registered
<1>5. Good(t)
  BY <1>2, <1>3, <1>4 DEF Good, Sound, Calm, SameQueue, SameSelf
<1>6. \A k \in Kind : Kept(s, t, k)
  BY <1>3, <1>4 DEF Kept, SameQueue
<1>7. \A k \in Kind : Exact(s, k) => Exact(t, k)
  BY ReadingKeepsExact DEF Good, t
<1>8. \A k \in Kind : Fresh(s, t, k)
  BY <1>3, <1>7 DEF Fresh, SameQueue
<1>9. Tight(s) => Tight(t)
  BY <1>3 DEF Tight, Ordered, AlarmSet, SameQueue, SameAlarm, SameSelf
<1>10. Step(s, t, {})
  BY <1>2, <1>3, <1>5, <1>6, <1>8, <1>9, StepSame
<1> QED
  BY <1>2, <1>3, <1>10 DEF t

\* _update_active_callback: nothing is overdue, so the alarm is set and nothing called.
LEMMA UpdateActiveStep ==
    ASSUME NEW s, Good(s), NEW call, NEW touched
    PROVE  /\ Step(s, UpdateActive(call, s), touched)
           /\ Ordered(s) => Tight(UpdateActive(call, s))
           /\ SameValue(s, UpdateActive(call, s)) /\ SameQueue(s, UpdateActive(call, s))
           /\ SameSelf(s, UpdateActive(call, s))
<1> DEFINE t == UpdateActive(call, s)
           k == Head(s.callbacks)
<1>1. s \in StatRecord /\ s.callbacks \in Seq(Kind) /\ s.trigger \in [Kind -> Int]
  BY Fields DEF Good, Sound
<1>2. s.callbacks # <<>> => k \in Kind /\ Registered(s, k)
  BY <1>1 DEF Registered, Contains
<1>3. \/ s.suppress /\ t = s
      \/ /\ ~s.suppress /\ (s.callbacks = <<>> \/ s.trigger[k] = Never)
         /\ t = [s EXCEPT !.alarm = Never, !.active = "none"]
      \/ /\ ~s.suppress /\ ~(s.callbacks = <<>> \/ s.trigger[k] = Never)
         /\ t = [s EXCEPT !.alarm = s.trigger[k], !.active = k]
  <2>1. ~s.suppress /\ s.callbacks # <<>> => s.trigger[k] > 0
    BY <1>2 DEF Good, Calm
  <2>2. s.callbacks # <<>> => ~(s.trigger[k] > 0 /\ s.trigger[k] <= 0)
    BY <1>1, <1>2
  <2> QED
    BY <2>1, <2>2 DEF UpdateActive
<1>4. /\ t \in StatRecord /\ SameValue(s, t) /\ SameQueue(s, t) /\ SameSelf(s, t)
      /\ s.suppress \/ AlarmSet(t)
  <2>1. CASE s.suppress /\ t = s
    BY <1>1, <2>1 DEF SameValue, SameQueue, SameSelf
  <2>2. CASE /\ ~s.suppress /\ (s.callbacks = <<>> \/ s.trigger[k] = Never)
             /\ t = [s EXCEPT !.alarm = Never, !.active = "none"]
    <3> HIDE DEF t
    <3>1. t \in StatRecord /\ SameValue(s, t) /\ SameQueue(s, t) /\ SameSelf(s, t)
          /\ t.alarm = Never /\ t.active = "none"
      <4>1. t = [s EXCEPT !.alarm = Never, !.active = "none"] /\ Never \in Int
        BY <2>2, NeverIsLate
      <4> HIDE DEF k
      <4> QED
        BY <1>1, <4>1 DEF StatRecord, SameValue, SameQueue, SameSelf
    <3> QED
      BY <2>2, <3>1 DEF AlarmSet, SameQueue
  <2>3. CASE /\ ~s.suppress /\ ~(s.callbacks = <<>> \/ s.trigger[k] = Never)
             /\ t = [s EXCEPT !.alarm = s.trigger[k], !.active = k]
    <3> HIDE DEF t
    <3>0. k \in Kind /\ s.trigger[k] \in Int
      BY <1>1, <1>2, <2>3
    <3>1. t \in StatRecord /\ SameValue(s, t) /\ SameQueue(s, t) /\ SameSelf(s, t)
          /\ t.alarm = s.trigger[k] /\ t.active = k
      <4> HIDE DEF k
      <4> QED
        BY <1>1, <2>3, <3>0 DEF StatRecord, SameValue, SameQueue, SameSelf
    <3> QED
      BY <2>3, <3>1 DEF AlarmSet, SameQueue
  <2> QED
    BY <1>3, <2>1, <2>2, <2>3
<1> HIDE DEF t
<1>5. \A j : Registered(t, j) <=> Registered(s, j)
  BY <1>4 DEF SameQueue, Registered
<1>6. Good(t)
  BY <1>4, <1>5 DEF Good, Sound, Calm, SameQueue, SameSelf
<1>7. \A j \in Kind : Kept(s, t, j)
  BY <1>4, <1>5 DEF Kept, SameQueue
<1>8. \A j \in Kind : Fresh(s, t, j)
  BY <1>4, <1>5, SameExact DEF Fresh, SameQueue
<1>9. Ordered(s) => Tight(t)
  BY <1>4 DEF Tight, Ordered, SameQueue, SameSelf
<1>10. Current(t) = Current(s) /\ (s.lag = 0 => t.lag = 0)
  BY <1>4, SameCourse DEF SameValue
<1>11. Step(s, t, touched)
  BY <1>4, <1>6, <1>7, <1>8, <1>9, <1>10, StepSame DEF Tight
<1> QED
  BY <1>4, <1>9, <1>11 DEF t

\* Every callback but k is as it was.
OthersKept(s, t, k) ==
    \A j \in Kind \ {k} : /\ Registered(t, j) <=> Registered(s, j)
                          /\ t.data[j] = s.data[j] /\ t.trigger[j] = s.trigger[j]

\* The head of a queue that is not empty.
LEMMA HeadIsFirst ==
    ASSUME NEW s, s.callbacks \in Seq(Kind), s.callbacks # <<>>
    PROVE  /\ Head(s.callbacks) \in Kind /\ Registered(s, Head(s.callbacks))
           /\ Len(s.callbacks) \in Nat \ {0} /\ Head(s.callbacks) = s.callbacks[1]
BY DEF Registered, Contains

\* A datum is taken from its place.
LEMMA UnlinkedIs ==
    ASSUME NEW s, Good(s), NEW k \in Kind
    PROVE  /\ Good(Unlinked(s, k)) /\ ~Registered(Unlinked(s, k), k)
           /\ OthersKept(s, Unlinked(s, k), k) /\ Unlinked(s, k).data = s.data
           /\ SameValue(s, Unlinked(s, k)) /\ SameSelf(s, Unlinked(s, k))
           /\ SameAlarm(s, Unlinked(s, k))
           /\ Ordered(s) => Ordered(Unlinked(s, k))
           /\ Tight(s) /\ s.active # k => Tight(Unlinked(s, k))
<1> DEFINE t == Unlinked(s, k)
           q == s.callbacks
           r == Selected(q, Kind \ {k})
           trig == [s.trigger EXCEPT ![k] = Never]
<1>1. s \in StatRecord /\ q \in Seq(Kind) /\ s.trigger \in [Kind -> Int]
  BY Fields DEF Good, Sound
<1>2. /\ r \in Seq(Kind)
      /\ \A j \in Kind : Contains(r, j) <=> Contains(q, j) /\ j # k
      /\ Sorting(q, s.trigger) => Sorting(r, s.trigger)
      /\ Once(q) => Once(r)
      /\ Len(q) > 0 /\ q[1] # k => Len(r) > 0 /\ r[1] = q[1]
  <2>1. /\ r \in Seq(Kind)
        /\ \A j \in Kind : Contains(r, j) <=> Contains(q, j) /\ j \in Kind \ {k}
        /\ Sorting(q, s.trigger) => Sorting(r, s.trigger)
        /\ Once(q) => Once(r)
        /\ Len(q) > 0 /\ q[1] \in Kind \ {k} => Len(r) > 0 /\ r[1] = q[1]
    <3> HIDE DEF q, r
    <3> QED
      BY <1>1, SelectedIs DEF r
  <2>2. Len(q) > 0 => q[1] \in Kind
    BY <1>1
  <2> HIDE DEF q, r
  <2> QED
    BY <2>1, <2>2
<1>3. trig \in [Kind -> Int] /\ \A j \in Kind : trig[j] = IF j = k THEN Never ELSE s.trigger[j]
  BY <1>1, NeverIsLate
<1>4. t = [s EXCEPT !.callbacks = r, !.trigger = trig]
  BY <1>1 DEF Unlinked, StatRecord
<1> HIDE DEF t, q, r, trig
<1>5. /\ t \in StatRecord /\ t.callbacks = r /\ t.trigger = trig /\ t.data = s.data
      /\ SameValue(s, t) /\ SameSelf(s, t) /\ SameAlarm(s, t)
  BY <1>1, <1>2, <1>3, <1>4 DEF StatRecord, SameValue, SameSelf, SameAlarm
<1>6. \A j \in Kind : Registered(t, j) <=> Registered(s, j) /\ j # k
  BY <1>2, <1>5 DEF Registered, q
<1>7. OthersKept(s, t, k)
  BY <1>3, <1>5, <1>6 DEF OthersKept
<1>8. Sound(t)
  <2>1. \A j \in Kind : t.trigger[j] <= Never
    BY <1>3, <1>5, NeverIsLate DEF Good, Sound
  <2>2. "up" \in Kind /\ "down" \in Kind
    BY DEF Kind
  <2>3. Once(t.callbacks)
    BY <1>2, <1>5 DEF Good, Sound, q
  <2> QED
    BY <1>5, <1>6, <2>1, <2>2, <2>3 DEF Good, Sound, SameSelf
<1>9. Good(t)
  BY <1>3, <1>5, <1>6, <1>8 DEF Good, Calm, SameSelf
<1>10. ASSUME Ordered(s) PROVE Ordered(t)
  <2>1. Sorting(r, s.trigger)
    BY <1>2, <1>10 DEF Ordered, q
  <2>2. \A i \in 1 .. Len(r) : r[i] \in Kind /\ r[i] # k
    BY <1>2 DEF Contains
  <2> QED
    BY <1>3, <1>5, <2>1, <2>2 DEF Ordered, Sorting
<1>11. ASSUME Tight(s), s.active # k PROVE Tight(t)
  <2>1. Ordered(t) /\ t.suppress = s.suppress /\ t.alarm = s.alarm /\ t.active = s.active
    BY <1>5, <1>10, <1>11 DEF Tight, SameSelf, SameAlarm
  <2>2. CASE s.suppress
    BY <2>1, <2>2 DEF Tight
  <2>3. CASE ~s.suppress
    <3>1. AlarmSet(s)
      BY <1>11, <2>3 DEF Tight
    <3>2. CASE q = <<>>
      <4>1. \A j \in Kind : ~Contains(q, j)
        BY <3>2 DEF Contains
      <4>2. r = <<>>
        BY <1>2, <4>1 DEF Contains
      <4> QED
        BY <1>5, <2>1, <3>1, <3>2, <4>2 DEF AlarmSet, Tight, q
    <3>3. CASE q # <<>> /\ s.trigger[Head(q)] = Never
      <4>1. t.alarm = Never /\ t.active = "none"
        BY <2>1, <3>1, <3>3 DEF AlarmSet, q
      <4>2. ASSUME r # <<>> PROVE t.trigger[Head(r)] = Never
        <5>1. Head(r) \in Kind /\ Registered(t, Head(r))
          BY <1>2, <1>5, <4>2, HeadIsFirst
        <5>2. Head(r) # k /\ Contains(q, Head(r))
          BY <1>6, <5>1 DEF Registered, q
        <5>3. PICK i \in 1 .. Len(q) : q[i] = Head(r)
          BY <5>2 DEF Contains
        <5>4. Head(q) \in Kind /\ Head(q) = q[1] /\ Len(q) \in Nat \ {0}
          BY <1>1, <3>3
        <5>5. s.trigger[Head(q)] <= s.trigger[Head(r)]
          <6>1. i > 1 => s.trigger[q[1]] <= s.trigger[q[i]]
            BY <1>11, <5>4 DEF Tight, Ordered, Sorting, q
          <6> QED
            BY <1>1, <5>1, <5>3, <5>4, <6>1
        <5>6. s.trigger[Head(r)] <= Never
          BY <5>1 DEF Good, Sound
        <5> QED
          BY <1>1, <1>3, <1>5, <3>3, <5>1, <5>2, <5>5, <5>6, NeverIsLate
      <4> QED
        BY <1>5, <2>1, <4>1, <4>2 DEF AlarmSet, Tight
    <3>4. CASE q # <<>> /\ s.trigger[Head(q)] # Never
      <4>1. s.alarm = s.trigger[Head(q)] /\ s.active = Head(q)
        BY <3>1, <3>4 DEF AlarmSet, q
      <4>2. Head(q) \in Kind /\ Head(q) = q[1] /\ Len(q) \in Nat \ {0} /\ Len(q) > 0
        BY <1>1, <3>4
      <4>3. Len(r) > 0 /\ r[1] = q[1] /\ r \in Seq(Kind)
        BY <1>2, <1>11, <4>1, <4>2
      <4>4. r # <<>> /\ Head(r) = Head(q) /\ Head(q) # k
        BY <1>11, <4>1, <4>2, <4>3
      <4> QED
        BY <1>3, <1>5, <2>1, <3>4, <4>1, <4>2, <4>4 DEF AlarmSet, Tight
    <3> QED
      BY <3>2, <3>3, <3>4
  <2> QED
    BY <2>2, <2>3
<1> QED
  BY <1>5, <1>6, <1>7, <1>9, <1>10, <1>11 DEF t

\* remove_callback
LEMMA RemoveCallbackStep ==
    ASSUME NEW s, Good(s), NEW k \in Kind, NEW call
    PROVE  /\ Step(s, RemoveCallback(call, s, k), {k}) /\ ~Registered(RemoveCallback(call, s, k), k)
           /\ RemoveCallback(call, s, k).data = s.data /\ SameValue(s, RemoveCallback(call, s, k))
           /\ SameSelf(s, RemoveCallback(call, s, k))
<1> DEFINE u == Unlinked(s, k)
           t == RemoveCallback(call, s, k)
<1>1. /\ Good(u) /\ ~Registered(u, k) /\ OthersKept(s, u, k) /\ u.data = s.data
      /\ SameValue(s, u) /\ SameSelf(s, u) /\ SameAlarm(s, u) /\ (Ordered(s) => Ordered(u))
      /\ (Tight(s) /\ s.active # k => Tight(u))
  BY UnlinkedIs
<1>2. t = IF ~Registered(s, k) THEN s ELSE IF s.active = k THEN UpdateActive(call, u) ELSE u
  BY DEF RemoveCallback
<1> HIDE DEF u, t
<1>3. \A j \in Kind : j # k => Kept(s, u, j)
  BY <1>1 DEF OthersKept, Kept
<1>4. \A j \in Kind : Fresh(s, u, j)
  <2>1. Fresh(s, u, k)
    BY <1>1 DEF Fresh, Exact
  <2>2. ASSUME NEW j \in Kind \ {k} PROVE Fresh(s, u, j)
    BY <1>1, SameExact DEF Fresh, OthersKept
  <2> QED
    BY <2>1, <2>2
<1>5. CASE ~Registered(s, k)
  BY <1>2, <1>5, StepRefl DEF SameValue, SameSelf, t
<1>6. CASE Registered(s, k) /\ s.active = k
  <2> DEFINE w == UpdateActive(call, u)
  <2>1. /\ Step(u, w, {}) /\ (Ordered(u) => Tight(w)) /\ SameValue(u, w) /\ SameQueue(u, w)
        /\ SameSelf(u, w)
    BY <1>1, UpdateActiveStep
  <2>2. t = w
    BY <1>2, <1>6
  <2> HIDE DEF w
  <2>3. Good(w) /\ Current(w) = Current(s) /\ (s.lag = 0 => w.lag = 0)
    BY <1>1, <2>1, SameCourse DEF Step, SameValue
  <2>5. \A j : Registered(w, j) <=> Registered(u, j)
    BY <2>1 DEF SameQueue, Registered
  <2>6. SameSelf(s, w) /\ SameValue(s, w) /\ ~Registered(w, k) /\ w.data = s.data
    BY <1>1, <2>1, <2>5 DEF SameSelf, SameValue, SameQueue
  <2>7. \A j \in Kind : j # k => Kept(s, w, j)
    BY <1>3, <2>1, <2>5 DEF Kept, SameQueue
  <2>8. \A j \in Kind : Fresh(s, w, j)
    <3>1. \A j \in Kind : Fresh(u, w, j)
      BY <2>1 DEF Step
    <3> QED
      BY <3>1, <1>4, <1>1 DEF Fresh
  <2>9. Tight(s) => Tight(w)
    BY <1>1, <2>1 DEF Tight
  <2>10. Step(s, w, {k})
    BY <2>3, <2>6, <2>7, <2>8, <2>9, StepSame
  <2> QED
    BY <2>2, <2>6, <2>10 DEF t
<1>7. CASE Registered(s, k) /\ s.active # k
  <2>1. Current(u) = Current(s) /\ (s.lag = 0 => u.lag = 0)
    BY <1>1, SameCourse DEF SameValue
  <2>2. Step(s, u, {k})
    BY <1>1, <1>3, <1>4, <1>7, <2>1, StepSame
  <2> QED
    BY <1>1, <1>2, <1>7, <2>2 DEF t
<1> QED
  BY <1>5, <1>6, <1>7 DEF t

\* remove_callback on a slot
LEMMA DropStep ==
    ASSUME NEW s, Good(s), NEW k \in Kind, NEW call
    PROVE  /\ Step(s, Drop(call, s, k), {k}) /\ ~Registered(Drop(call, s, k), k)
           /\ Drop(call, s, k).data[k] = NoData /\ SameValue(s, Drop(call, s, k))
           /\ SameSelf(s, Drop(call, s, k))
<1> DEFINE u == RemoveCallback(call, s, k)
           t == Drop(call, s, k)
<1>1. /\ Step(s, u, {k}) /\ ~Registered(u, k) /\ u.data = s.data /\ SameValue(s, u) /\ SameSelf(s, u)
  BY RemoveCallbackStep
<1>2. t = [u EXCEPT !.data[k] = NoData]
  BY DEF Drop
<1> HIDE DEF u, t
<1>3. Good(u) /\ u \in StatRecord /\ u.data \in [Kind -> {NoData} \cup Threshold(Value)]
  BY <1>1, Fields DEF Step, Good, Sound
<1> DEFINE data == [u.data EXCEPT ![k] = NoData]
<1>4. data \in [Kind -> {NoData} \cup Threshold(Value)] /\ data[k] = NoData
      /\ \A j \in Kind \ {k} : data[j] = u.data[j]
  BY <1>3
<1>5. t = [u EXCEPT !.data = data]
  BY <1>2, <1>3 DEF StatRecord
<1> HIDE DEF data
<1>6. /\ t \in StatRecord /\ t.data = data /\ SameValue(u, t) /\ SameSelf(u, t) /\ SameAlarm(u, t)
      /\ t.callbacks = u.callbacks /\ t.trigger = u.trigger
  BY <1>3, <1>4, <1>5 DEF StatRecord, SameValue, SameSelf, SameAlarm
<1>7. \A j : Registered(t, j) <=> Registered(u, j)
  BY <1>6 DEF Registered
<1>8. Good(t)
  <2>1. Sound(t)
    <3>1. \A j \in Kind : Registered(t, j) => t.data[j] # NoData
      BY <1>1, <1>3, <1>4, <1>6, <1>7 DEF Good, Sound
    <3>2. \A j \in {"exit", "distress", "offlot"} : j \in Kind /\ t.data[j] \in {NoData, u.data[j]}
      <4>1. \A j \in {"exit", "distress", "offlot"} : j \in Kind
        BY DEF Kind
      <4> QED
        BY <1>4, <1>6, <4>1
    <3> QED
      BY <1>3, <1>6, <1>7, <3>1, <3>2 DEF Good, Sound, SameSelf
  <2> QED
    BY <1>3, <1>6, <1>7, <2>1 DEF Good, Calm, SameSelf
<1>9. \A j \in Kind : j # k => Kept(u, t, j)
  BY <1>4, <1>6, <1>7 DEF Kept
<1>10. \A j \in Kind : Fresh(u, t, j)
  <2>1. Fresh(u, t, k)
    BY <1>1, <1>7 DEF Fresh, Exact
  <2>2. ASSUME NEW j \in Kind \ {k} PROVE Fresh(u, t, j)
    BY <1>4, <1>6, <1>7, SameExact DEF Fresh
  <2> QED
    BY <2>1, <2>2
<1>11. Tight(u) => Tight(t)
  BY <1>6 DEF Tight, Ordered, AlarmSet, SameAlarm, SameSelf
<1>12. Current(u) = Current(t) /\ (u.lag = 0 => t.lag = 0)
  BY <1>6, SameCourse DEF SameValue
<1>13. Step(u, t, {k})
  BY <1>6, <1>8, <1>9, <1>10, <1>11, <1>12, StepSame
<1>14. Step(s, t, {k})
  BY <1>1, <1>13, StepTrans
<1>15. SameValue(s, t) /\ SameSelf(s, t)
  BY <1>1, <1>6 DEF SameValue, SameSelf
<1> QED
  BY <1>1, <1>4, <1>6, <1>7, <1>14, <1>15 DEF t

\* _insert_callback_data
LEMMA InsertCallbackIs ==
    ASSUME NEW s, Good(s), NEW k \in Kind, ~Registered(s, k), s.data[k] # NoData,
           k \in {"up", "down"} => s.state # None
    PROVE  LET t == InsertCallback(s, k) IN
           /\ Good(t) /\ Registered(t, k) /\ Exact(t, k) /\ OthersKept(s, t, k)
           /\ t.data = s.data /\ t.lag = 0 /\ Current(t) = Current(s)
           /\ SameSelf(s, t) /\ SameAlarm(s, t)
           /\ Ordered(s) => Ordered(t)
           /\ \A j \in Kind : Exact(s, j) => Exact(t, j)
           /\ t.callbacks # <<>>
           /\ Head(t.callbacks) = k \/ (s.callbacks # <<>> /\ Head(t.callbacks) = Head(s.callbacks))
<1> DEFINE u == UpdateValue(s)
           T == TriggerTime(u, u.data[k])
           trig == [u.trigger EXCEPT ![k] = T]
           w == ResetTrigger(u, k)
           p == InsertionPoint(w, k)
           q == InsertAt(u.callbacks, p + 1, k)
           t == InsertCallback(s, k)
<1>1. /\ Step(s, u, {}) /\ u.lag = 0 /\ SameQueue(s, u) /\ SameAlarm(s, u) /\ SameSelf(s, u)
  BY UpdateValueStep
<1>2. Good(u) /\ u \in StatRecord
  BY <1>1 DEF Step, Good, Sound
<1>3. /\ u.callbacks \in Seq(Kind) /\ u.trigger \in [Kind -> Int]
      /\ u.callbacks = s.callbacks /\ u.trigger = s.trigger /\ u.data = s.data
  <2> HIDE DEF u
  <2> QED
    BY <1>1, <1>2, Fields DEF SameQueue
<1>4. T \in Int /\ T > 0 /\ T <= Never
  <2> HIDE DEF u
  <2> QED
    BY <1>2, <1>3, ResetIsLater
<1>5. trig \in [Kind -> Int] /\ trig[k] = T /\ \A j \in Kind \ {k} : trig[j] = s.trigger[j]
  <2> HIDE DEF u, T
  <2> QED
    BY <1>3, <1>4
<1>6. w = [u EXCEPT !.trigger = trig]
  <2> HIDE DEF u
  <2> QED
    BY <1>2 DEF ResetTrigger, StatRecord
<1> HIDE DEF u, T, trig, w
<1>7. /\ w \in StatRecord /\ w.trigger = trig /\ w.callbacks = s.callbacks /\ w.data = s.data
      /\ SameValue(u, w) /\ SameSelf(u, w) /\ SameAlarm(u, w)
  BY <1>2, <1>3, <1>5, <1>6 DEF StatRecord, SameValue, SameSelf, SameAlarm
<1>8. ~Contains(s.callbacks, k)
  BY DEF Registered
<1>9. Sorting(s.callbacks, s.trigger) => Sorting(w.callbacks, trig)
  <2>1. s.callbacks \in Seq(Kind) /\ \A i \in 1 .. Len(s.callbacks) : s.callbacks[i] \in Kind \ {k}
    BY <1>3, <1>8 DEF Contains
  <2> QED
    BY <1>5, <1>7, <2>1 DEF Sorting
<1>10. /\ p \in 0 .. Len(w.callbacks)
       /\ Sorting(w.callbacks, trig) => Fits(w.callbacks, trig, trig[k], p)
  <2>1. w.callbacks \in Seq(Kind)
    BY <1>3, <1>7
  <2> QED
    BY <1>5, <1>7, <2>1, InsertionPointIs
<1>11. t = [w EXCEPT !.callbacks = q]
  BY <1>3, <1>7 DEF InsertCallback, Insert, u, w
<1> HIDE DEF t, p
<1>12. /\ q \in Seq(Kind) /\ Len(q) = Len(s.callbacks) + 1
       /\ \A i \in 1 .. Len(q) : q[i] = IF i <= p THEN s.callbacks[i]
                                        ELSE IF i = p + 1 THEN k ELSE s.callbacks[i - 1]
       /\ \A j \in Kind : Contains(q, j) <=> Contains(s.callbacks, j) \/ j = k
  <2>1. u.callbacks = s.callbacks /\ s.callbacks \in Seq(Kind) /\ p \in 0 .. Len(s.callbacks)
    BY <1>3, <1>7, <1>10
  <2>2. q = InsertAt(s.callbacks, p + 1, k)
    BY <2>1
  <2>3. IsInserted(q, s.callbacks, p, k)
    BY <2>1, <2>2, InsertedIs
  <2> HIDE DEF q
  <2> QED
    BY <2>3 DEF IsInserted
<1>22. Once(q)
  <2>1. s.callbacks \in Seq(Kind) /\ p \in 0 .. Len(s.callbacks) /\ Once(s.callbacks)
    BY <1>3, <1>7, <1>10 DEF Good, Sound
  <2>2. IsInserted(q, s.callbacks, p, k)
    BY <1>3, <2>1, InsertedIs
  <2> HIDE DEF q
  <2> QED
    BY <1>8, <2>1, <2>2, InsertedOnce
<1>13. Sorting(s.callbacks, s.trigger) => Sorting(q, trig)
  <2>1. s.callbacks \in Seq(Kind) /\ u.callbacks = s.callbacks /\ w.callbacks = s.callbacks
    BY <1>3, <1>7
  <2> QED
    BY <1>5, <1>9, <1>10, <2>1, InsertKeepsSorting
<1> HIDE DEF q
<1>15. /\ t \in StatRecord /\ t.callbacks = q /\ t.trigger = trig /\ t.data = s.data
       /\ SameValue(u, t) /\ SameSelf(s, t) /\ SameAlarm(s, t)
  <2>1. /\ t \in StatRecord /\ t.callbacks = q /\ t.trigger = trig /\ t.data = s.data
        /\ SameValue(w, t) /\ SameSelf(w, t) /\ SameAlarm(w, t)
    BY <1>7, <1>11, <1>12 DEF StatRecord, SameValue, SameSelf, SameAlarm
  <2> QED
    BY <1>1, <1>7, <2>1 DEF SameValue, SameSelf, SameAlarm
<1>16. \A j \in Kind : Registered(t, j) <=> Registered(s, j) \/ j = k
  BY <1>12, <1>15 DEF Registered
<1>17. /\ Registered(t, k) /\ OthersKept(s, t, k) /\ t.lag = 0 /\ Current(t) = Current(s)
       /\ Ordered(s) => Ordered(t)
  <2>1. OthersKept(s, t, k)
    BY <1>5, <1>15, <1>16 DEF OthersKept
  <2>2. Current(t) = Current(s) /\ t.lag = 0
    BY <1>1, <1>15, SameCourse DEF Step, SameValue
  <2> QED
    BY <1>13, <1>15, <1>16, <2>1, <2>2 DEF Ordered
<1>18. Exact(t, k)
  <2>1. TriggerTime(t, t.data[k]) = T
    BY <1>3, <1>15, SameCourse DEF T
  <2> QED
    BY <1>4, <1>5, <1>15, <1>17, <2>1 DEF Exact, Right
<1>19. ASSUME NEW j \in Kind, Exact(s, j) PROVE Exact(t, j)
  <2>1. CASE j = k
    BY <1>18, <2>1
  <2>2. CASE j # k
    <3>1. Exact(u, j)
      BY <1>1, <1>19 DEF Step, Fresh, SameQueue
    <3>2. Registered(t, j) => Registered(u, j)
      BY <1>3, <1>16, <2>2 DEF Registered
    <3> QED
      BY <1>3, <1>5, <1>15, <2>2, <3>1, <3>2, SameExact
  <2> QED
    BY <2>1, <2>2
<1>20. Good(t)
  <2>1. \A j \in Kind : t.trigger[j] <= Never
    BY <1>4, <1>5, <1>15 DEF Good, Sound
  <2>2. Sound(t)
    BY <1>15, <1>16, <1>22, <2>1 DEF Good, Sound, SameSelf, Kind
  <2>3. ASSUME \A j \in Kind : Calm(s, j) PROVE \A j \in Kind : Calm(t, j)
    <3> SUFFICES ASSUME NEW j \in Kind PROVE Calm(t, j)
      OBVIOUS
    <3>1. CASE j = k
      BY <1>4, <1>5, <1>15, <3>1 DEF Calm
    <3>2. CASE j # k
      BY <1>5, <1>15, <1>16, <2>3, <3>2 DEF Calm
    <3> QED
      BY <3>1, <3>2
  <2> QED
    BY <1>15, <2>2, <2>3 DEF Good, SameSelf
<1>21. /\ t.callbacks # <<>>
       /\ Head(t.callbacks) = k \/ (s.callbacks # <<>> /\ Head(t.callbacks) = Head(s.callbacks))
  <2>1. q # <<>> /\ Head(q) = q[1] /\ 1 \in 1 .. Len(q) /\ p \in 0 .. Len(s.callbacks)
        /\ Len(s.callbacks) \in Nat
    BY <1>3, <1>7, <1>10, <1>12
  <2>2. CASE p = 0
    BY <1>12, <1>15, <2>1, <2>2
  <2>3. CASE p > 0
    <3>1. s.callbacks # <<>> /\ Head(s.callbacks) = s.callbacks[1]
      BY <1>3, <2>1, <2>3
    <3> QED
      BY <1>12, <1>15, <2>1, <2>3, <3>1
  <2> QED
    BY <2>1, <2>2, <2>3
<1> QED
  BY <1>15, <1>17, <1>18, <1>19, <1>20, <1>21 DEF t

\* add_callback_data
LEMMA AddCallbackStep ==
    ASSUME NEW s, Good(s), NEW k \in Kind, ~Registered(s, k), s.data[k] # NoData,
           k \in {"up", "down"} => s.state # None, NEW call
    PROVE  /\ Step(s, AddCallback(call, s, k), {k}) /\ Registered(AddCallback(call, s, k), k)
           /\ AddCallback(call, s, k).data = s.data /\ AddCallback(call, s, k).lag = 0
<1> DEFINE u == InsertCallback(s, k)
           t == AddCallback(call, s, k)
<1>1. /\ Good(u) /\ Registered(u, k) /\ Exact(u, k) /\ OthersKept(s, u, k)
      /\ u.data = s.data /\ u.lag = 0 /\ Current(u) = Current(s)
      /\ SameSelf(s, u) /\ SameAlarm(s, u)
      /\ Ordered(s) => Ordered(u)
      /\ \A j \in Kind : Exact(s, j) => Exact(u, j)
      /\ u.callbacks # <<>>
      /\ Head(u.callbacks) = k \/ (s.callbacks # <<>> /\ Head(u.callbacks) = Head(s.callbacks))
  BY InsertCallbackIs
<1>2. t = IF Head(u.callbacks) = k THEN UpdateActive(call, u) ELSE u
  BY DEF AddCallback, AlarmFor
<1> HIDE DEF u, t
<1>3. \A j \in Kind : j # k => Kept(s, u, j)
  BY <1>1 DEF OthersKept, Kept
<1>4. \A j \in Kind : Fresh(s, u, j)
  BY <1>1 DEF Fresh
<1>5. CASE Head(u.callbacks) = k
  <2> DEFINE w == UpdateActive(call, u)
  <2>1. /\ Step(u, w, {k}) /\ (Ordered(u) => Tight(w)) /\ SameValue(u, w) /\ SameQueue(u, w)
        /\ SameSelf(u, w)
    BY <1>1, UpdateActiveStep
  <2>2. t = w
    BY <1>2, <1>5
  <2> HIDE DEF w
  <2>3. Good(w) /\ Current(w) = Current(s) /\ w.lag = 0 /\ SameSelf(s, w) /\ w.data = s.data
    BY <1>1, <2>1 DEF Step, SameValue, SameSelf, SameQueue
  <2>4. \A j : Registered(w, j) <=> Registered(u, j)
    BY <2>1 DEF SameQueue, Registered
  <2>5. \A j \in Kind : j # k => Kept(s, w, j)
    BY <1>3, <2>1, <2>4 DEF Kept, SameQueue
  <2>6. \A j \in Kind : Fresh(s, w, j)
    <3>1. \A j \in Kind : Fresh(u, w, j)
      BY <2>1 DEF Step
    <3> QED
      BY <3>1, <1>4, <1>1 DEF Fresh
  <2>7. Tight(s) => Tight(w)
    BY <1>1, <2>1 DEF Tight
  <2>8. Step(s, w, {k})
    BY <2>3, <2>5, <2>6, <2>7, StepSame
  <2> QED
    BY <1>1, <2>2, <2>3, <2>4, <2>8 DEF t
<1>6. CASE Head(u.callbacks) # k
  <2>1. Tight(s) => Tight(u)
    <3> SUFFICES ASSUME Tight(s), ~u.suppress PROVE Ordered(u) /\ AlarmSet(u)
      BY <1>1 DEF Tight
    <3>1. Ordered(u) /\ AlarmSet(s)
      BY <1>1 DEF Tight, SameSelf
    <3>2. s.callbacks # <<>> /\ Head(u.callbacks) = Head(s.callbacks) /\ u.callbacks # <<>>
      BY <1>1, <1>6
    <3>3. Head(s.callbacks) \in Kind
      <4>1. s.callbacks \in Seq(Kind)
        BY Fields DEF Good, Sound
      <4> QED
        BY <3>2, <4>1
    <3>4. u.trigger[Head(u.callbacks)] = s.trigger[Head(s.callbacks)]
      BY <1>1, <1>6, <3>2, <3>3 DEF OthersKept
    <3> QED
      BY <1>1, <3>1, <3>2, <3>4 DEF AlarmSet, SameAlarm
  <2>2. Step(s, u, {k})
    BY <1>1, <1>3, <1>4, <2>1, StepSame
  <2> QED
    BY <1>1, <1>2, <1>6, <2>2 DEF t
<1> QED
  BY <1>5, <1>6

\* add_callback
LEMMA AddStep ==
    ASSUME NEW s, Good(s), NEW k \in Kind, ~Registered(s, k), NEW th \in Threshold(Value),
           k \in {"up", "down"} => s.state # None,
           k = "exit" => th = ExitDatum, k = "distress" => th = DistressDatum,
           k = "offlot" => th = OffLotThreshold, NEW call
    PROVE  /\ Step(s, Add(call, s, k, th), {k}) /\ Registered(Add(call, s, k, th), k)
           /\ Add(call, s, k, th).data[k] = th /\ Add(call, s, k, th).lag = 0
<1> DEFINE data == [s.data EXCEPT ![k] = th]
           u == [s EXCEPT !.data[k] = th]
           t == Add(call, s, k, th)
<1>1. s \in StatRecord /\ s.data \in [Kind -> {NoData} \cup Threshold(Value)]
  BY Fields DEF Good, Sound
<1>2. /\ data \in [Kind -> {NoData} \cup Threshold(Value)] /\ data[k] = th
      /\ \A j \in Kind \ {k} : data[j] = s.data[j]
  BY <1>1
<1>3. u = [s EXCEPT !.data = data]
  BY <1>1 DEF StatRecord
<1>4. th # NoData
  BY DEF Threshold, NoData, Comparison
<1> HIDE DEF data, u, t
<1>5. /\ u \in StatRecord /\ u.data = data /\ SameValue(s, u) /\ SameSelf(s, u) /\ SameAlarm(s, u)
      /\ u.callbacks = s.callbacks /\ u.trigger = s.trigger
  BY <1>1, <1>2, <1>3 DEF StatRecord, SameValue, SameSelf, SameAlarm
<1>6. \A j : Registered(u, j) <=> Registered(s, j)
  BY <1>5 DEF Registered
<1>7. Good(u)
  <2>1. \A j \in Kind : Registered(u, j) => u.data[j] # NoData
    BY <1>2, <1>4, <1>5, <1>6 DEF Good, Sound
  <2>2. \A j \in {"exit", "distress", "offlot"} : j \in Kind
    BY DEF Kind
  <2>3. /\ u.data["exit"] \in {NoData, ExitDatum}
        /\ u.data["distress"] \in {NoData, DistressDatum}
        /\ u.data["offlot"] \in {NoData, OffLotThreshold}
    BY <1>2, <1>5, <2>2 DEF Good, Sound
  <2> QED
    BY <1>5, <1>6, <2>1, <2>3 DEF Good, Sound, Calm, SameSelf
<1>8. \A j \in Kind : j # k => Kept(s, u, j)
  BY <1>2, <1>5, <1>6 DEF Kept
<1>9. \A j \in Kind : Fresh(s, u, j)
  <2>1. Fresh(s, u, k)
    BY <1>6 DEF Fresh, Exact
  <2>2. ASSUME NEW j \in Kind \ {k} PROVE Fresh(s, u, j)
    BY <1>2, <1>5, <1>6, SameExact DEF Fresh
  <2> QED
    BY <2>1, <2>2
<1>10. Tight(s) => Tight(u)
  BY <1>5 DEF Tight, Ordered, AlarmSet, SameAlarm, SameSelf
<1>11. Current(u) = Current(s) /\ (s.lag = 0 => u.lag = 0)
  BY <1>5, SameCourse DEF SameValue
<1>12. Step(s, u, {k})
  BY <1>5, <1>7, <1>8, <1>9, <1>10, <1>11, StepSame
<1>13. t = AddCallback(call, u, k)
  BY DEF t, Add, u
<1>14. u.data[k] # NoData /\ ~Registered(u, k) /\ (k \in {"up", "down"} => u.state # None)
  BY <1>2, <1>4, <1>5, <1>6 DEF SameSelf
<1>15. Step(u, t, {k}) /\ Registered(t, k) /\ t.data = u.data /\ t.lag = 0
  BY <1>7, <1>13, <1>14, AddCallbackStep
<1>16. Step(s, t, {k})
  BY <1>12, <1>15, StepTrans
<1> QED
  BY <1>2, <1>5, <1>15, <1>16 DEF t

\* _update_callbacks with equal values: the trigger times.
LEMMA RefreshAllIs ==
    ASSUME NEW s, Sound(s), s.lag = 0
    PROVE  LET t == RefreshAll(s) IN
           /\ Sound(t) /\ \A k \in Kind : Exact(t, k)
           /\ t.callbacks = s.callbacks /\ t.data = s.data
           /\ SameValue(s, t) /\ SameSelf(s, t) /\ SameAlarm(s, t)
<1> DEFINE t == RefreshAll(s)
           trig == [k \in Kind |-> IF Registered(s, k) THEN TriggerTime(s, s.data[k])
                                   ELSE s.trigger[k]]
<1>1. s \in StatRecord /\ s.trigger \in [Kind -> Int]
  BY Fields DEF Sound
<1>2. ASSUME NEW k \in Kind, Registered(s, k)
      PROVE  TriggerTime(s, s.data[k]) \in Int /\ TriggerTime(s, s.data[k]) > 0
             /\ TriggerTime(s, s.data[k]) <= Never
  BY <1>1, <1>2, ResetIsLater DEF Sound
<1>3. trig \in [Kind -> Int] /\ \A k \in Kind : trig[k] <= Never
  BY <1>1, <1>2 DEF Sound
<1>4. t = [s EXCEPT !.trigger = trig]
  BY <1>1 DEF RefreshAll, StatRecord
<1>5. \A k \in Kind : Registered(s, k) => trig[k] = TriggerTime(s, s.data[k])
  OBVIOUS
<1> HIDE DEF t, trig
<1>6. /\ t \in StatRecord /\ t.trigger = trig /\ t.callbacks = s.callbacks /\ t.data = s.data
      /\ SameValue(s, t) /\ SameSelf(s, t) /\ SameAlarm(s, t)
  BY <1>1, <1>3, <1>4 DEF StatRecord, SameValue, SameSelf, SameAlarm
<1>7. \A k : Registered(t, k) <=> Registered(s, k)
  BY <1>6 DEF Registered
<1>8. Sound(t)
  BY <1>3, <1>6, <1>7 DEF Sound, SameSelf
<1>9. ASSUME NEW k \in Kind, Registered(t, k) PROVE t.trigger[k] > 0 /\ Right(t, k)
  <2> DEFINE T == TriggerTime(s, s.data[k])
  <2>1. t.trigger[k] = T /\ T \in Int /\ T > 0 /\ t.lag = 0 /\ TriggerTime(t, t.data[k]) = T
    BY <1>2, <1>5, <1>6, <1>7, <1>9, SameCourse DEF SameValue
  <2> HIDE DEF T
  <2> QED
    BY <2>1 DEF Right
<1> QED
  BY <1>6, <1>8, <1>9 DEF Exact, t

\* ... and their order.
LEMMA SortedKeeps ==
    ASSUME NEW s, Sound(s)
    PROVE  LET t == Sorted(s) IN
           /\ Sound(t) /\ Ordered(t)
           /\ \A k \in Kind : Registered(t, k) <=> Registered(s, k)
           /\ t.trigger = s.trigger /\ t.data = s.data
           /\ SameValue(s, t) /\ SameSelf(s, t) /\ SameAlarm(s, t)
           /\ \A k \in Kind : Exact(s, k) => Exact(t, k)
<1> DEFINE t == Sorted(s)
<1>1. s \in StatRecord /\ s.callbacks \in Seq(Kind) /\ s.trigger \in [Kind -> Int]
  BY Fields DEF Sound
<1>2. PICK r \in Seq(Kind) : /\ t = [s EXCEPT !.callbacks = r]
                             /\ Sorting(r, s.trigger)
                             /\ Once(s.callbacks) => Once(r)
                             /\ \A k \in Kind : Contains(r, k) <=> Contains(s.callbacks, k)
  BY <1>1, SortedIs
<1> HIDE DEF t
<1>3. /\ t \in StatRecord /\ t.callbacks = r /\ t.trigger = s.trigger /\ t.data = s.data
      /\ SameValue(s, t) /\ SameSelf(s, t) /\ SameAlarm(s, t)
  BY <1>1, <1>2 DEF StatRecord, SameValue, SameSelf, SameAlarm
<1>4. \A k \in Kind : Registered(t, k) <=> Registered(s, k)
  BY <1>2, <1>3 DEF Registered
<1>5. Sound(t)
  BY <1>2, <1>3, <1>4 DEF Sound, SameSelf, Kind
<1>6. Ordered(t)
  BY <1>2, <1>3 DEF Ordered
<1>7. \A k \in Kind : Exact(s, k) => Exact(t, k)
  BY <1>3, <1>4, SameExact
<1> QED
  BY <1>3, <1>4, <1>5, <1>6, <1>7 DEF t

\* _update_value, also where trigger times are wrong.
LEMMA ReadingIsSound ==
    ASSUME NEW s, Sound(s)
    PROVE  LET t == UpdateValue(s) IN
           /\ Sound(t) /\ t.lag = 0 /\ Current(t) = Current(s)
           /\ SameQueue(s, t) /\ SameSelf(s, t) /\ SameAlarm(s, t)
           /\ t.decay = s.decay /\ t.convergence = s.convergence
<1> DEFINE t == UpdateValue(s)
<1>1. s \in StatRecord
  BY DEF Sound
<1>2. /\ t \in StatRecord /\ t.lag = 0 /\ t.value = Current(s) /\ Current(t) = Current(s)
      /\ t = [s EXCEPT !.lag = 0, !.value = Current(s)]
  BY <1>1, Reading
<1> HIDE DEF t
<1>3. /\ SameQueue(s, t) /\ SameAlarm(s, t) /\ SameSelf(s, t)
      /\ t.decay = s.decay /\ t.convergence = s.convergence
  BY <1>1, <1>2 DEF StatRecord, SameQueue, SameAlarm, SameSelf
<1>4. \A k : Registered(t, k) <=> Registered(s, k)
  BY <1>3 DEF SameQueue, Registered
<1>5. Sound(t)
  BY <1>2, <1>3, <1>4 DEF Sound, SameQueue, SameSelf
<1> QED
  BY <1>2, <1>3, <1>5 DEF t

\* _update_callbacks with equal values, when the alarm was not right either.
LEMMA RefreshCallbacksIs ==
    ASSUME NEW s, Sound(s), NEW call
    PROVE  LET t == RefreshCallbacks(call, s) IN
           /\ Good(t) /\ Tight(t) /\ \A k \in Kind : Exact(t, k)
           /\ \A k \in Kind : Kept(s, t, k)
           /\ t.lag = 0 /\ Current(t) = Current(s) /\ SameSelf(s, t)
<1> DEFINE u == UpdateValue(s)
           v == RefreshAll(u)
           w == Sorted(v)
           t == UpdateActive(call, w)
<1>1. /\ Sound(u) /\ u.lag = 0 /\ Current(u) = Current(s) /\ SameQueue(s, u) /\ SameSelf(s, u)
  BY ReadingIsSound
<1>2. /\ Sound(v) /\ (\A k \in Kind : Exact(v, k)) /\ v.callbacks = u.callbacks /\ v.data = u.data
      /\ SameValue(u, v) /\ SameSelf(u, v)
  <2> HIDE DEF u
  <2> QED
    BY <1>1, RefreshAllIs
<1>3. /\ Sound(w) /\ Ordered(w) /\ (\A k \in Kind : Registered(w, k) <=> Registered(v, k))
      /\ w.data = v.data /\ SameValue(v, w) /\ SameSelf(v, w) /\ \A k \in Kind : Exact(w, k)
  <2> HIDE DEF v
  <2> QED
    BY <1>2, SortedKeeps
<1>4. Good(w)
  BY <1>3 DEF Good, Exact, Calm
<1>5. /\ Step(w, t, {}) /\ Tight(t) /\ SameValue(w, t) /\ SameQueue(w, t) /\ SameSelf(w, t)
  <2> HIDE DEF w
  <2> QED
    BY <1>3, <1>4, UpdateActiveStep
<1>6. RefreshCallbacks(call, s) = t
  BY DEF RefreshCallbacks
<1> HIDE DEF u, v, w, t
<1>7. Good(t) /\ t.lag = 0 /\ Current(t) = Current(s) /\ SameSelf(s, t)
  <2>1. Current(v) = Current(u) /\ Current(w) = Current(v)
    BY <1>2, <1>3, SameCourse
  <2> QED
    BY <1>1, <1>2, <1>3, <1>5, <2>1 DEF Step, SameValue, SameSelf
<1>8. \A k \in Kind : Exact(t, k)
  <2>1. \A k \in Kind : Registered(t, k) <=> Registered(w, k)
    BY <1>5 DEF SameQueue, Registered
  <2> QED
    BY <1>3, <1>5, <2>1, SameExact DEF SameQueue
<1>9. \A k \in Kind : Kept(s, t, k)
  BY <1>1, <1>2, <1>3, <1>5 DEF Kept, SameQueue, Registered
<1> QED
  BY <1>5, <1>6, <1>7, <1>8, <1>9

\* decay_enabled
LEMMA SetDecayStep ==
    ASSUME NEW s, Good(s), NEW enabled \in BOOLEAN, NEW call
    PROVE  Step(s, SetDecay(call, s, enabled), {})
<1> DEFINE u == UpdateValue(s)
           v == [u EXCEPT !.decay = enabled]
           t == RefreshCallbacks(call, v)
<1>1. CASE s.decay = enabled
  BY <1>1, StepRefl DEF SetDecay
<1>2. CASE s.decay # enabled
  <2>1. SetDecay(call, s, enabled) = t
    BY <1>2 DEF SetDecay
  <2>2. /\ Sound(u) /\ u.lag = 0 /\ Current(u) = Current(s) /\ SameQueue(s, u) /\ SameSelf(s, u)
    BY ReadingIsSound DEF Good
  <2> HIDE DEF u
  <2>3. u \in StatRecord
    BY <2>2 DEF Sound
  <2>4. /\ v \in StatRecord /\ v.lag = 0 /\ v.value = u.value /\ SameQueue(u, v) /\ SameSelf(u, v)
    BY <2>2, <2>3 DEF StatRecord, SameQueue, SameSelf
  <2> HIDE DEF v
  <2>5. Sound(v)
    <3>1. \A k : Registered(v, k) <=> Registered(u, k)
      BY <2>4 DEF SameQueue, Registered
    <3> QED
      BY <2>2, <2>4, <3>1 DEF Sound, SameQueue, SameSelf
  <2>6. Current(v) = Current(u)
    <3>1. IsStat(u) /\ IsStat(v)
      BY <2>3, <2>4, StatRecordIsStat
    <3> QED
      BY <2>2, <2>4, <3>1, NoLag DEF Current
  <2>7. /\ Good(t) /\ Tight(t) /\ (\A k \in Kind : Exact(t, k) /\ Kept(v, t, k))
        /\ t.lag = 0 /\ Current(t) = Current(v) /\ SameSelf(v, t)
    BY <2>5, RefreshCallbacksIs
  <2> HIDE DEF t
  <2>8. SameSelf(s, t) /\ \A k \in Kind : Kept(s, t, k)
    BY <2>2, <2>4, <2>7 DEF SameSelf, SameQueue, Kept, Registered
  <2>9. \A k \in Kind : Fresh(s, t, k)
    BY <2>7 DEF Fresh
  <2> QED
    BY <2>1, <2>2, <2>6, <2>7, <2>8, <2>9, StepSame
<1> QED
  BY <1>1, <1>2

-----------------------------------------------------------------------------
(***************************************************************************)
(* States.                                                                 *)
(***************************************************************************)

\* Of some numbers up to N one is the largest.
LEMMA LargestExists ==
    ASSUME NEW N \in Nat, NEW S \in SUBSET (1 .. N), S # {}
    PROVE  \E i \in S : \A j \in S : j <= i
<1> SUFFICES ASSUME ~ \E i \in S : \A j \in S : j <= i PROVE FALSE
  OBVIOUS
<1> DEFINE U == {n \in Nat : n <= N => \A j \in S : j <= N - n}
<1>1. 0 \in U
  OBVIOUS
<1>2. ASSUME NEW n \in Nat, n \in U PROVE n + 1 \in U
  <2> SUFFICES ASSUME n + 1 <= N, NEW j \in S PROVE j <= N - (n + 1)
    OBVIOUS
  <2>1. \A i \in S : i <= N - n
    BY <1>2
  <2>2. N - n \notin S
    BY <2>1
  <2> QED
    BY <2>1, <2>2
<1> HIDE DEF U
<1>3. N \in U
  BY <1>1, <1>2, NatInd
<1>4. \A j \in S : j <= N - N
  BY <1>3 DEF U
<1>5. PICK j \in S : TRUE
  OBVIOUS
<1>6. j \in 1 .. N
  OBVIOUS
<1> QED
  BY <1>4, <1>5, <1>6

\* The states are numbered from 1, and their bounds are values.
LEMMA StatesAre ==
    /\ Len(StateBounds) \in Nat \ {0} /\ States = 1 .. Len(StateBounds) /\ 1 \in States
    /\ \A i \in States : StateBounds[i] \in Value /\ StateBounds[i] \in Int
    /\ None \notin States
<1>1. StateBounds \in Seq(Value) /\ StateBounds # <<>>
  BY CommodityAssumption
<1>2. Value \subseteq Int
  BY ValueAssumption DEF Value
<1>3. Len(StateBounds) \in Nat \ {0} /\ States = 1 .. Len(StateBounds)
  BY <1>1 DEF States
<1>4. \A i \in States : StateBounds[i] \in Value
  BY <1>1 DEF States
<1>5. 1 \in States /\ None \notin States
  BY <1>3 DEF None
<1> QED
  BY <1>2, <1>3, <1>4, <1>5

\* _find_state_index: the last state whose bound is not above the value.
LEMMA FindHalfIs ==
    ASSUME NEW h \in Int
    PROVE  /\ FindHalf(h) \in States
           /\ \/ h >= 2 * StateBounds[FindHalf(h)]
              \/ FindHalf(h) = 1 /\ \A i \in States : h < 2 * StateBounds[i]
           /\ \A i \in States : h >= 2 * StateBounds[i] => i <= FindHalf(h)
<1> DEFINE reached == {i \in States : h >= 2 * StateBounds[i]}
<1>1. FindHalf(h) = IF reached = {} THEN 1 ELSE CHOOSE i \in reached : \A j \in reached : j <= i
  BY DEF FindHalf
<1>2. CASE reached = {}
  BY <1>1, <1>2, StatesAre
<1>3. CASE reached # {}
  <2>1. reached \in SUBSET (1 .. Len(StateBounds))
    BY StatesAre
  <2>2. \E i \in reached : \A j \in reached : j <= i
    <3> HIDE DEF reached
    <3> QED
      BY <1>3, <2>1, StatesAre, LargestExists
  <2>3. FindHalf(h) \in reached /\ \A j \in reached : j <= FindHalf(h)
    <3> HIDE DEF reached
    <3> QED
      BY <1>1, <1>3, <2>2
  <2> QED
    BY <2>3
<1> QED
  BY <1>2, <1>3

\* _find_state_index finds the last state whose bound the value has reached.
LEMMA FindStateIs ==
    ASSUME NEW v \in Value
    PROVE  /\ FindState(v) \in States /\ StateBounds[FindState(v)] <= v
           /\ \A i \in States : StateBounds[i] <= v <=> i <= FindState(v)
<1> DEFINE F == FindState(v)
<1>1. v \in Int /\ MinValue \in Int /\ v >= MinValue
  BY ValueAssumption DEF Value
<1>2. /\ F \in States
      /\ \/ 2 * v >= 2 * StateBounds[F]
         \/ F = 1 /\ \A i \in States : 2 * v < 2 * StateBounds[i]
      /\ \A i \in States : 2 * v >= 2 * StateBounds[i] => i <= F
  BY <1>1, FindHalfIs DEF FindState
<1> HIDE DEF F
<1>3. StateBounds[1] = MinValue /\ \A i, j \in States : i < j => StateBounds[i] < StateBounds[j]
  BY CommodityAssumption
<1>4. StateBounds[F] <= v
  BY <1>1, <1>2, <1>3, StatesAre
<1>5. ASSUME NEW i \in States PROVE StateBounds[i] <= v <=> i <= F
  <2>1. StateBounds[i] \in Int /\ StateBounds[F] \in Int /\ i \in Int /\ F \in Int
    BY <1>2, StatesAre
  <2>2. i < F => StateBounds[i] < StateBounds[F]
    BY <1>2, <1>3
  <2>3. StateBounds[i] <= v => i <= F
    BY <1>1, <1>2, <2>1
  <2>4. i = F \/ i < F \/ i > F
    BY <2>1
  <2> QED
    BY <1>1, <1>4, <2>1, <2>2, <2>3, <2>4
<1> QED
  BY <1>2, <1>4, <1>5 DEF F

\* A value half above is in the same state, one half below in that or in an earlier one.
LEMMA HalfStates ==
    ASSUME NEW v \in Value
    PROVE  /\ FindHalf(2 * v + 1) = FindState(v)
           /\ FindHalf(2 * v - 1) \in States /\ FindHalf(2 * v - 1) <= FindState(v)
<1>1. v \in Int
  BY ValueAssumption DEF Value
<1> DEFINE F == FindState(v)
           G == FindHalf(2 * v + 1)
<1>2. F \in States /\ StateBounds[F] <= v /\ \A i \in States : StateBounds[i] <= v => i <= F
  BY FindStateIs
<1>3. G = F
  <2>1. /\ G \in States /\ (2 * v + 1 >= 2 * StateBounds[G] \/ G = 1)
        /\ \A i \in States : 2 * v + 1 >= 2 * StateBounds[i] => i <= G
    BY <1>1, FindHalfIs
  <2> HIDE DEF F, G
  <2>2. F \in Int /\ F >= 1 /\ G \in Int /\ G >= 1 /\ StateBounds[F] \in Int /\ StateBounds[G] \in Int
    BY <1>2, <2>1, StatesAre
  <2>3. F <= G
    BY <1>1, <1>2, <2>1, <2>2
  <2>4. CASE 2 * v + 1 >= 2 * StateBounds[G]
    <3>1. StateBounds[G] <= v
      BY <1>1, <2>2, <2>4
    <3> QED
      BY <1>2, <2>1, <2>2, <2>3, <3>1
  <2> QED
    BY <2>1, <2>2, <2>3, <2>4
<1> HIDE DEF F, G
<1> DEFINE d == FindHalf(2 * v - 1)
<1>4. d \in States /\ (2 * v - 1 >= 2 * StateBounds[d] \/ d = 1)
  BY <1>1, FindHalfIs
<1>5. FindState(v) \in States /\ \A i \in States : StateBounds[i] <= v => i <= FindState(v)
  BY FindStateIs
<1> HIDE DEF d
<1>6. CASE 2 * v - 1 >= 2 * StateBounds[d]
  <2>1. StateBounds[d] \in Int
    BY <1>4, StatesAre
  <2>2. StateBounds[d] <= v
    BY <1>1, <1>6, <2>1
  <2> QED
    BY <1>3, <1>4, <1>5, <2>2 DEF d, F, G
<1>7. CASE d = 1
  BY <1>3, <1>4, <1>5, <1>7, StatesAre DEF d, F, G
<1> QED
  BY <1>3, <1>4, <1>6, <1>7 DEF d, F, G

\* A step may be said to touch more than it does.
LEMMA StepWeaken ==
    ASSUME NEW s, NEW t, NEW m1, NEW m, Step(s, t, m1), m1 \subseteq m
    PROVE  Step(s, t, m)
BY DEF Step

\* Assignments to fields that the queue does not know of.
LEMMA BuffFieldStep ==
    ASSUME NEW s, Good(s), NEW b \in {None} \cup States
    PROVE  /\ Step(s, [s EXCEPT !.buff = b], {"handle"}) /\ [s EXCEPT !.buff = b].buff = b
           /\ SameQueue(s, [s EXCEPT !.buff = b])
<1> DEFINE t == [s EXCEPT !.buff = b]
<1>1. s \in StatRecord /\ ~s.tooDeep
  BY DEF Good, Sound
<1>2. /\ t \in StatRecord /\ SameValue(s, t) /\ SameQueue(s, t) /\ SameAlarm(s, t)
      /\ t.buff = b /\ t.suppress = s.suppress /\ t.state = s.state
      /\ t.distressBuff = s.distressBuff /\ t.leaked = s.leaked
      /\ t.activatable = s.activatable /\ t.phase = s.phase /\ t.tooDeep = s.tooDeep
  BY <1>1 DEF StatRecord, SameValue, SameQueue, SameAlarm
<1> HIDE DEF t
<1>3. Step(s, t, {"handle"})
  BY <1>1, <1>2, FieldStep DEF Good, Sound
<1> QED
  BY <1>2, <1>3 DEF t

\* The state is assigned,
LEMMA StateFieldStep ==
    ASSUME NEW s, Good(s), NEW i \in States
    PROVE  /\ Step(s, [s EXCEPT !.state = i], {"state"}) /\ [s EXCEPT !.state = i].state = i
           /\ SameQueue(s, [s EXCEPT !.state = i])
<1> DEFINE t == [s EXCEPT !.state = i]
<1>1. s \in StatRecord /\ ~s.tooDeep
  BY DEF Good, Sound
<1>2. /\ t \in StatRecord /\ SameValue(s, t) /\ SameQueue(s, t) /\ SameAlarm(s, t)
      /\ t.state = i /\ t.suppress = s.suppress /\ t.distressBuff = s.distressBuff
      /\ t.activatable = s.activatable /\ t.phase = s.phase /\ t.tooDeep = s.tooDeep
      /\ t.buff = s.buff /\ t.leaked = s.leaked
  BY <1>1 DEF StatRecord, SameValue, SameQueue, SameAlarm
<1> HIDE DEF t
<1>3. t.state # None /\ ~t.tooDeep
  BY <1>1, <1>2, StatesAre
<1>4. Step(s, t, {"state"})
  BY <1>2, <1>3, FieldStep
<1> QED
  BY <1>2, <1>4 DEF t

\* the distress,
LEMMA DistressFieldStep ==
    ASSUME NEW s, Good(s), NEW b \in BOOLEAN
    PROVE  /\ Step(s, [s EXCEPT !.distressBuff = b], {"distressBuff"})
           /\ [s EXCEPT !.distressBuff = b].distressBuff = b
           /\ SameQueue(s, [s EXCEPT !.distressBuff = b])
<1> DEFINE t == [s EXCEPT !.distressBuff = b]
<1>1. s \in StatRecord /\ ~s.tooDeep
  BY DEF Good, Sound
<1>2. /\ t \in StatRecord /\ SameValue(s, t) /\ SameQueue(s, t) /\ SameAlarm(s, t)
      /\ t.distressBuff = b /\ t.suppress = s.suppress /\ t.state = s.state
      /\ t.activatable = s.activatable /\ t.phase = s.phase /\ t.tooDeep = s.tooDeep
      /\ t.buff = s.buff /\ t.leaked = s.leaked
  BY <1>1 DEF StatRecord, SameValue, SameQueue, SameAlarm
<1> HIDE DEF t
<1>3. Step(s, t, {"distressBuff"})
  BY <1>1, <1>2, FieldStep DEF Good, Sound
<1> QED
  BY <1>2, <1>3 DEF t

\* the way it is simulated,
LEMMA PhaseFieldStep ==
    ASSUME NEW s, Good(s), NEW p \in {"regular", "stopped", "low", "removed"}
    PROVE  /\ Step(s, [s EXCEPT !.phase = p], {"phase"}) /\ [s EXCEPT !.phase = p].phase = p
           /\ SameQueue(s, [s EXCEPT !.phase = p])
<1> DEFINE t == [s EXCEPT !.phase = p]
<1>1. s \in StatRecord /\ ~s.tooDeep
  BY DEF Good, Sound
<1>2. /\ t \in StatRecord /\ SameValue(s, t) /\ SameQueue(s, t) /\ SameAlarm(s, t)
      /\ t.phase = p /\ t.suppress = s.suppress /\ t.state = s.state
      /\ t.activatable = s.activatable /\ t.distressBuff = s.distressBuff /\ t.tooDeep = s.tooDeep
      /\ t.buff = s.buff /\ t.leaked = s.leaked
  BY <1>1 DEF StatRecord, SameValue, SameQueue, SameAlarm
<1> HIDE DEF t
<1>3. Step(s, t, {"phase"})
  BY <1>1, <1>2, FieldStep DEF Good, Sound
<1> QED
  BY <1>2, <1>3 DEF t

\* and whether the convergence callback may be activated.
LEMMA ActivatableFieldStep ==
    ASSUME NEW s, Good(s), NEW b \in BOOLEAN
    PROVE  /\ Step(s, [s EXCEPT !.activatable = b], {"activatable"})
           /\ [s EXCEPT !.activatable = b].activatable = b
           /\ SameQueue(s, [s EXCEPT !.activatable = b])
<1> DEFINE t == [s EXCEPT !.activatable = b]
<1>1. s \in StatRecord /\ ~s.tooDeep
  BY DEF Good, Sound
<1>2. /\ t \in StatRecord /\ SameValue(s, t) /\ SameQueue(s, t) /\ SameAlarm(s, t)
      /\ t.activatable = b /\ t.suppress = s.suppress /\ t.state = s.state
      /\ t.phase = s.phase /\ t.distressBuff = s.distressBuff /\ t.tooDeep = s.tooDeep
      /\ t.buff = s.buff /\ t.leaked = s.leaked
  BY <1>1 DEF StatRecord, SameValue, SameQueue, SameAlarm
<1> HIDE DEF t
<1>3. Step(s, t, {"activatable"})
  BY <1>1, <1>2, FieldStep DEF Good, Sound
<1> QED
  BY <1>2, <1>3 DEF t

\* The state that the callback of a bound moves state i to, when the value is in
\* state desired: up (step 1), or down (step -1).
Moved(i, desired, step) == IF step * (desired - i) >= 0 THEN desired ELSE i

\* A commodity waits for both bounds of its state.
StatePlaced(s) ==
    /\ Registered(s, "up") <=> s.state + 1 \in States
    /\ Registered(s, "down") <=> StateBounds[s.state] > MinValue
    /\ Registered(s, "up") => s.data["up"] = UpDatum(s.state)
    /\ Registered(s, "down") => s.data["down"] = DownDatum(s.state)

\* What the callbacks of the bounds may touch, and what comes of it.
StateFields == {"up", "down", "buff", "state", "handle"}
Settled(s, t) ==
    \/ StatePlaced(t)
    \/ /\ t.state = s.state /\ s.state = FindState(Current(s))
       /\ \A k \in Kind : Kept(s, t, k)

\* The kinds of callbacks are none of the fields a step may touch.
LEMMA Kinds ==
    /\ "up" \in Kind /\ "down" \in Kind /\ "buff" \in Kind /\ "distress" \in Kind /\ "exit" \in Kind
    /\ "failure" \in Kind /\ "converge" \in Kind /\ "offlot" \in Kind
    /\ "state" \notin Kind /\ "distressBuff" \notin Kind /\ "activatable" \notin Kind
    /\ "phase" \notin Kind /\ "none" \notin Kind /\ "handle" \notin Kind /\ "leak" \notin Kind
BY DEF Kind

\* The buff is that of the state, or waits for the state's threshold.
Dressed(s) ==
    /\ s.buff \in {None, s.state}
    /\ Registered(s, "buff") => /\ s.state # None /\ s.buff = None
                                /\ s.data["buff"] = BuffAddThreshold[s.state]
    /\ s.state # None /\ s.phase # "removed" =>
          (BuffAddThreshold[s.state] = NoData => s.buff = s.state)

\* So it is after what does not touch it,
LEMMA StepDressed ==
    ASSUME NEW s, NEW t, NEW m, Step(s, t, m), m \cap {"buff", "state", "handle", "phase"} = {},
           Dressed(s)
    PROVE  Dressed(t)
<1>1. t.buff = s.buff /\ t.state = s.state /\ t.phase = s.phase /\ Kept(s, t, "buff")
  BY Kinds DEF Step
<1> QED
  BY <1>1 DEF Dressed, Kept

\* when the commodity is there and is simulated in another way,
LEMMA PhaseDressed ==
    ASSUME NEW s, NEW t, NEW m, Step(s, t, m), m \cap {"state", "handle"} = {},
           "buff" \notin m \/ ~Registered(t, "buff"), s.phase # "removed", Dressed(s)
    PROVE  Dressed(t)
<1>1. t.buff = s.buff /\ t.state = s.state
  BY DEF Step
<1>2. CASE ~Registered(t, "buff")
  BY <1>1, <1>2 DEF Dressed
<1>3. CASE "buff" \notin m
  <2>1. Kept(s, t, "buff")
    BY <1>3, Kinds DEF Step
  <2> QED
    BY <1>1, <2>1 DEF Dressed, Kept
<1> QED
  BY <1>2, <1>3

\* and when the threshold is no longer waited for.
LEMMA DropDressed ==
    ASSUME NEW s, NEW t, NEW m, Step(s, t, m), m \cap {"state", "handle", "phase"} = {},
           ~Registered(t, "buff"), Dressed(s)
    PROVE  Dressed(t)
<1>1. t.buff = s.buff /\ t.state = s.state /\ t.phase = s.phase
  BY DEF Step
<1> QED
  BY <1>1 DEF Dressed

\* _set_state
LEMMA SetStateStep ==
    ASSUME NEW s, Good(s), NEW i \in States, NEW v, NEW call
    PROVE  /\ Step(s, SetState(call, s, i, v), {"buff", "state", "handle"})
           /\ SetState(call, s, i, v).state = i /\ Dressed(SetState(call, s, i, v))
<1> DEFINE a == [s EXCEPT !.state = i]
           b == Drop(call, a, "buff")
           c == [b EXCEPT !.buff = None]
           t == SetState(call, s, i, v)
<1>1. Step(s, a, {"state"}) /\ a.state = i
  BY StateFieldStep
<1>2. Good(a)
  BY <1>1 DEF Step
<1>3. Step(a, b, {"buff"}) /\ ~Registered(b, "buff")
  <2> HIDE DEF a
  <2> QED
    BY <1>2, DropStep, Kinds
<1>4. Good(b) /\ b.state = i
  BY <1>1, <1>3 DEF Step
<1>5. Step(b, c, {"handle"}) /\ SameQueue(b, c) /\ c.buff = None
  <2> HIDE DEF b
  <2> QED
    BY <1>4, BuffFieldStep
<1>6. Good(c) /\ c.state = i /\ ~Registered(c, "buff") /\ i # None
  BY <1>3, <1>4, <1>5, StatesAre DEF Step, SameQueue, Registered
<1>7. t = DelayBuff(call, c, i, v)
  BY DEF SetState
<1> HIDE DEF a, b, c, t
<1>8. Step(s, c, {"buff", "state", "handle"})
  <2>1. Step(s, b, {"buff", "state", "handle"})
    BY <1>1, <1>3, StepTrans
  <2> QED
    BY <1>5, <2>1, StepTrans
<1>9. Step(c, t, {"buff", "handle"}) /\ t.state = i /\ Dressed(t)
  <2>1. CASE BuffAddThreshold[i] # NoData /\ ~Compare(BuffAddThreshold[i], v)
    <3>1. BuffAddThreshold[i] \in Threshold(Value)
      BY <2>1, CommodityAssumption
    <3>2. t = Add(call, c, "buff", BuffAddThreshold[i])
      BY <1>7, <2>1 DEF DelayBuff
    <3>3. Step(c, t, {"buff"}) /\ Registered(t, "buff") /\ t.data["buff"] = BuffAddThreshold[i]
      BY <1>6, <3>1, <3>2, AddStep, Kinds
    <3>4. t.state = i /\ t.buff = None
      BY <1>5, <1>6, <3>3 DEF Step
    <3>5. Dressed(t)
      BY <1>6, <2>1, <3>3, <3>4 DEF Dressed
    <3> QED
      BY <3>3, <3>4, <3>5, StepWeaken
  <2>2. CASE ~(BuffAddThreshold[i] # NoData /\ ~Compare(BuffAddThreshold[i], v))
    <3>1. t = [c EXCEPT !.buff = i]
      BY <1>7, <2>2 DEF DelayBuff
    <3>2. Step(c, t, {"handle"}) /\ t.buff = i /\ SameQueue(c, t)
      BY <1>6, <3>1, BuffFieldStep
    <3>3. t.state = i /\ ~Registered(t, "buff")
      BY <1>6, <3>2 DEF Step, SameQueue, Registered
    <3> QED
      BY <3>2, <3>3, StepWeaken DEF Dressed
  <2> QED
    BY <2>1, <2>2
<1>10. Step(s, t, {"buff", "state", "handle"})
  BY <1>8, <1>9, StepTrans
<1> QED
  BY <1>9, <1>10 DEF t

\* One state after the other.
LEMMA SetStatesStep ==
    ASSUME NEW s, Good(s), s.state \in States, NEW desired \in States, NEW step \in {-1, 1}, NEW call
    PROVE  /\ Step(s, SetStates(call, s, desired, step), {"buff", "state", "handle"})
           /\ SetStates(call, s, desired, step).state = Moved(s.state, desired, step)
           /\ Dressed(s) => Dressed(SetStates(call, s, desired, step))
<1> DEFINE M == step * (desired - s.state)
           q == [n \in 1 .. M |-> s.state + step * n]
           f == [i \in States |-> [t \in StatRecord |-> SetState(call, t, i, s.value)]]
           N == Len(q)
           d(n) == {t \in StatRecord : /\ Step(s, t, {"buff", "state", "handle"})
                                       /\ t.state = s.state + step * n
                                       /\ Dressed(s) => Dressed(t)}
           D == [n \in 0 .. N |-> d(n)]
<1>1. /\ s.state \in Int /\ desired \in Int /\ M \in Int
      /\ \A n \in 1 .. M : s.state + step * n \in States
  BY StatesAre
<1>2. N = IF M >= 0 THEN M ELSE 0
  <2> DEFINE K == IF M >= 0 THEN M ELSE 0
  <2> HIDE DEF M
  <2>1. K \in Nat /\ 1 .. M = 1 .. K
    BY <1>1
  <2> HIDE DEF K
  <2>2. q = [n \in 1 .. K |-> s.state + step * n]
    BY <2>1
  <2>3. Len(q) = K
    <3> HIDE DEF q
    <3> QED
      BY <2>1, <2>2
  <2> QED
    BY <2>3 DEF K
<1>3. \A n \in 1 .. N : q[n] = s.state + step * n /\ q[n] \in States
  <2> HIDE DEF M, N
  <2> QED
    BY <1>1, <1>2
<1>4. SetStates(call, s, desired, step) = Through(f, s, q)
  BY DEF SetStates
<1>5. N \in Nat
  <2> HIDE DEF M, N
  <2> QED
    BY <1>1, <1>2
<1> HIDE DEF M, q, N
<1>6. s \in d(0)
  BY <1>1, StepRefl DEF Good, Sound
<1>7. ASSUME NEW n \in 1 .. N, NEW t \in d(n - 1) PROVE f[q[n]][t] \in d(n)
  <2> DEFINE u == f[q[n]][t]
  <2>1. u = SetState(call, t, q[n], s.value)
    BY <1>3
  <2> HIDE DEF f, u
  <2>2. Step(s, t, {"buff", "state", "handle"}) /\ Good(t)
    BY DEF Step
  <2>3. Step(t, u, {"buff", "state", "handle"}) /\ u.state = q[n] /\ Dressed(u)
    BY <1>3, <2>1, <2>2, SetStateStep
  <2>4. Step(s, u, {"buff", "state", "handle"})
    BY <2>2, <2>3, StepTrans
  <2>5. u \in StatRecord
    BY <2>3 DEF Step, Good, Sound
  <2> QED
    BY <1>3, <2>3, <2>4, <2>5 DEF u
<1>8. \A n \in 0 .. N : D[n] = d(n)
  OBVIOUS
<1>9. \A n \in 1 .. N : n \in 0 .. N /\ n - 1 \in 0 .. N
  BY <1>5
<1> HIDE DEF f, D, d
<1>10. s \in D[0] /\ \A n \in 1 .. N : \A t \in D[n - 1] : f[q[n]][t] \in D[n]
  BY <1>5, <1>6, <1>7, <1>8, <1>9
<1>11. Through(f, s, q) \in D[N]
  BY <1>5, <1>10, ThroughKeeps DEF N
<1>12. Through(f, s, q) \in d(N)
  BY <1>5, <1>8, <1>11
<1>13. s.state + step * N = Moved(s.state, desired, step)
  BY <1>1, <1>2 DEF Moved, M
<1> QED
  BY <1>4, <1>12, <1>13 DEF d

\* _remove_state_callback
LEMMA RemoveStateCallbacksStep ==
    ASSUME NEW s, Good(s), NEW call
    PROVE  LET t == RemoveStateCallbacks(call, s) IN
           /\ Step(s, t, {"up", "down", "buff"})
           /\ ~Registered(t, "up") /\ ~Registered(t, "down") /\ ~Registered(t, "buff")
           /\ SameValue(s, t)
<1> DEFINE a == Drop(call, s, "up")
           b == Drop(call, a, "down")
           t == Drop(call, b, "buff")
<1>1. Step(s, a, {"up"}) /\ ~Registered(a, "up") /\ SameValue(s, a)
  BY DropStep, Kinds
<1>2. Good(a)
  BY <1>1 DEF Step
<1>3. Step(a, b, {"down"}) /\ ~Registered(b, "down") /\ SameValue(a, b)
  <2> HIDE DEF a
  <2> QED
    BY <1>2, DropStep, Kinds
<1>4. Good(b)
  BY <1>3 DEF Step
<1>5. Step(b, t, {"buff"}) /\ ~Registered(t, "buff") /\ SameValue(b, t)
  <2> HIDE DEF b
  <2> QED
    BY <1>4, DropStep, Kinds
<1>6. RemoveStateCallbacks(call, s) = t
  BY DEF RemoveStateCallbacks
<1> HIDE DEF a, b, t
<1>7. ~Registered(t, "up") /\ ~Registered(t, "down")
  <2>1. Kept(a, b, "up") /\ Kept(b, t, "up") /\ Kept(b, t, "down")
    BY <1>3, <1>5, Kinds DEF Step
  <2> QED
    BY <1>1, <1>3, <2>1 DEF Kept
<1>8. Step(s, t, {"up", "down", "buff"})
  <2>1. Step(s, b, {"up", "down", "buff"})
    BY <1>1, <1>3, StepTrans
  <2> QED
    BY <1>5, <2>1, StepTrans
<1> QED
  BY <1>1, <1>3, <1>5, <1>6, <1>7, <1>8 DEF SameValue

\* _add_state_callback
LEMMA AddStateCallbacksStep ==
    ASSUME NEW s, Good(s), s.state \in States, ~Registered(s, "up"), ~Registered(s, "down"), NEW call
    PROVE  LET t == AddStateCallbacks(call, s) IN
           Step(s, t, {"up", "down"}) /\ StatePlaced(t) /\ (s.lag = 0 => t.lag = 0)
<1> DEFINE u == AddUp(call, s)
           t == AddDown(call, u)
<1>0. s.state \in Int /\ s.state # None /\ MinValue \in Int /\ StateBounds[s.state] \in Value
      /\ StateBounds[s.state] \in Int
  BY StatesAre, ValueAssumption
<1>1. /\ Step(s, u, {"up"}) /\ (Registered(u, "up") <=> s.state + 1 \in States)
      /\ Registered(u, "up") => u.data["up"] = UpDatum(s.state)
  <2>1. CASE s.state + 1 \notin States
    BY <2>1, StepRefl DEF AddUp
  <2>2. CASE s.state + 1 \in States
    <3>1. UpDatum(s.state) \in Threshold(Value)
      BY <2>2, StatesAre DEF UpDatum, Threshold, Comparison
    <3>2. u = Add(call, s, "up", UpDatum(s.state))
      BY <2>2 DEF AddUp, UpDatum
    <3> HIDE DEF u
    <3>3. Step(s, u, {"up"}) /\ Registered(u, "up") /\ u.data["up"] = UpDatum(s.state)
      BY <1>0, <3>1, <3>2, AddStep, Kinds
    <3> QED
      BY <2>2, <3>3
  <2> QED
    BY <2>1, <2>2
<1>2. AddStateCallbacks(call, s) = t
  BY DEF AddStateCallbacks
<1> HIDE DEF u
<1>3. Good(u) /\ u.state = s.state /\ ~Registered(u, "down")
  <2>1. Kept(s, u, "down")
    BY <1>1, Kinds DEF Step
  <2> QED
    BY <1>1, <2>1 DEF Step, Kept
<1>4. /\ Step(u, t, {"down"}) /\ (Registered(t, "down") <=> StateBounds[s.state] > MinValue)
      /\ Registered(t, "down") => t.data["down"] = DownDatum(s.state)
  <2>1. CASE StateBounds[s.state] <= MinValue
    BY <1>0, <1>3, <2>1, StepRefl DEF AddDown
  <2>2. CASE ~(StateBounds[s.state] <= MinValue)
    <3>1. DownDatum(s.state) \in Threshold(Value)
      BY <1>0 DEF DownDatum, Threshold, Comparison
    <3>2. t = Add(call, u, "down", DownDatum(s.state))
      BY <1>3, <2>2 DEF AddDown, DownDatum
    <3> HIDE DEF t
    <3>3. u.state # None /\ "down" \in Kind /\ "down" # "exit" /\ "down" # "distress" /\ "down" # "offlot"
      BY <1>0, <1>3, Kinds
    <3>4. Step(u, t, {"down"}) /\ Registered(t, "down") /\ t.data["down"] = DownDatum(s.state)
      BY <1>3, <3>1, <3>2, <3>3, AddStep
    <3> QED
      BY <1>0, <2>2, <3>4
  <2> QED
    BY <2>1, <2>2
<1> HIDE DEF t
<1>5. Kept(u, t, "up") /\ t.state = s.state
  BY <1>3, <1>4, Kinds DEF Step
<1>6. StatePlaced(t)
  BY <1>1, <1>4, <1>5 DEF StatePlaced, Kept
<1>7. Step(s, t, {"up", "down"})
  BY <1>1, <1>4, StepTrans
<1> QED
  BY <1>2, <1>6, <1>7 DEF Step

\* What a callback of a bound does: the state is that of the value, if that is
\* where it moves, and the commodity waits for its bounds.
MovesState(s, t, step) ==
    /\ Step(s, t, StateFields)
    /\ t.state = Moved(s.state, FindState(Current(s)), step)
    /\ Settled(s, t)
    /\ Dressed(s) => Dressed(t)

\* Where a state gets that may move one way only.
LEMMA MovedIs ==
    ASSUME NEW i \in States, NEW F \in States, NEW step \in {-1, 1}
    PROVE  /\ Moved(i, F, step) \in States
           /\ Moved(i, i, step) = i
           /\ step = 1 => Moved(i, F, step) = IF i <= F THEN F ELSE i
           /\ step = -1 => Moved(i, F, step) = IF i >= F THEN F ELSE i
<1>1. i \in Int /\ F \in Int
  BY StatesAre
<1>2. i - i = 0 /\ step * 0 = 0
  BY <1>1
<1>3. step = 1 => (step * (F - i) >= 0 <=> i <= F)
  BY <1>1
<1>4. step = -1 => (step * (F - i) >= 0 <=> i >= F)
  BY <1>1
<1> QED
  BY <1>2, <1>3, <1>4 DEF Moved

\* The callbacks of the old state removed, the state moved, where no lag is left.
LEMMA LeavesState ==
    ASSUME NEW u, Good(u), u.lag = 0, u.state \in States, NEW desired \in States, NEW step \in {-1, 1},
           NEW call
    PROVE  LET b == SetStates(call, RemoveStateCallbacks(call, u), desired, step) IN
           /\ Step(u, b, StateFields) /\ b.lag = 0 /\ b.value = u.value /\ Current(u) = u.value
           /\ ~Registered(b, "up") /\ ~Registered(b, "down")
           /\ b.state = Moved(u.state, desired, step)
           /\ Dressed(u) => Dressed(b)
<1> DEFINE a == RemoveStateCallbacks(call, u)
           b == SetStates(call, a, desired, step)
<1>1. /\ Step(u, a, {"up", "down", "buff"}) /\ ~Registered(a, "up") /\ ~Registered(a, "down")
      /\ ~Registered(a, "buff")
  BY RemoveStateCallbacksStep
<1> HIDE DEF a
<1>2. Good(a) /\ a.state = u.state /\ (Dressed(u) => Dressed(a))
  <2>1. Dressed(u) => Dressed(a)
    BY <1>1, DropDressed
  <2> QED
    BY <1>1, <2>1 DEF Step
<1>3. /\ Step(a, b, {"buff", "state", "handle"}) /\ b.state = Moved(u.state, desired, step)
      /\ Dressed(a) => Dressed(b)
  BY <1>2, SetStatesStep
<1> HIDE DEF b
<1>4. ~Registered(b, "up") /\ ~Registered(b, "down")
  <2>1. Kept(a, b, "up") /\ Kept(a, b, "down")
    BY <1>3, Kinds DEF Step
  <2> QED
    BY <1>1, <2>1 DEF Kept
<1>5. Step(u, b, StateFields)
  BY <1>1, <1>3, StepTrans DEF StateFields
<1>6. b.lag = 0 /\ Current(b) = Current(u) /\ IsStat(u) /\ IsStat(b)
  BY <1>5, StatRecordIsStat DEF Step, Good, Sound
<1>7. b.value = u.value /\ Current(u) = u.value
  BY <1>6, NoLag DEF Current
<1> QED
  BY <1>2, <1>3, <1>4, <1>5, <1>6, <1>7 DEF a, b

\* _update_state_up: no further callback is called.
LEMMA StateUpMoves ==
    ASSUME NEW s, Good(s), s.state \in States, NEW call
    PROVE  MovesState(s, StateUp(call, s), 1)
<1> DEFINE u == UpdateValue(s)
           F == FindState(Current(s))
           b == SetStates(call, RemoveStateCallbacks(call, u), F, 1)
           t == StateUp(call, s)
<1>1. Step(s, u, {}) /\ u.lag = 0 /\ u.value = Current(s) /\ u.state = s.state /\ Good(u)
      /\ Current(s) \in Value /\ (Dressed(s) => Dressed(u))
  <2>1. Step(s, u, {}) /\ u.lag = 0 /\ u.value = Current(s) /\ Current(s) \in Value
    BY UpdateValueStep, Reading DEF Good, Sound
  <2>2. Dressed(s) => Dressed(u)
    BY <2>1, StepDressed
  <2> QED
    BY <2>1, <2>2 DEF Step
<1>2. F \in States
  BY <1>1, FindStateIs
<1>3. t = ChangeState(call, u, Desired(u, 1), 1)
  BY DEF StateUp, MoveState
<1> HIDE DEF u
<1>4. Desired(u, 1) = F
  <2>1. FindHalf(2 * u.value + 1) = FindState(u.value)
    BY <1>1, HalfStates
  <2> QED
    BY <1>1, <2>1 DEF Desired
<1> HIDE DEF F
<1>5. CASE F = s.state
  <2>1. t = u
    BY <1>1, <1>3, <1>4, <1>5 DEF ChangeState
  <2>2. \A k \in Kind : Kept(s, u, k)
    BY <1>1 DEF Step
  <2> QED
    BY <1>1, <1>2, <1>5, <2>1, <2>2, MovedIs, StepWeaken DEF MovesState, Settled, F, t
<1>6. CASE F # s.state
  <2>1. /\ Step(u, b, StateFields) /\ b.lag = 0 /\ b.value = u.value
        /\ ~Registered(b, "up") /\ ~Registered(b, "down")
        /\ b.state = Moved(u.state, F, 1) /\ (Dressed(u) => Dressed(b))
    BY <1>1, <1>2, LeavesState
  <2>2. t = UpdateStateCallback(call, b, F)
    BY <1>1, <1>3, <1>4, <1>6 DEF ChangeState
  <2> HIDE DEF b, t
  <2>3. t = AddStateCallbacks(call, b)
    <3>1. FindState(b.value) = F /\ F \in Int
      BY <1>1, <1>2, <2>1, StatesAre DEF F
    <3> QED
      BY <2>2, <3>1 DEF UpdateStateCallback
  <2>4. Good(b) /\ b.state \in States
    BY <1>1, <1>2, <2>1, MovedIs DEF Step
  <2>5. Step(b, t, {"up", "down"}) /\ StatePlaced(t) /\ (Dressed(b) => Dressed(t))
    BY <2>1, <2>3, <2>4, AddStateCallbacksStep, StepDressed
  <2>6. Step(u, t, StateFields)
    BY <2>1, <2>5, StepTrans DEF StateFields
  <2>7. Step(s, t, StateFields)
    BY <1>1, <2>6, StepTrans
  <2>8. t.state = b.state
    BY <2>5, Kinds DEF Step
  <2> QED
    BY <1>1, <2>1, <2>5, <2>7, <2>8 DEF MovesState, Settled, F, t
<1> QED
  BY <1>5, <1>6

\* _update_state_down: a value on the bound itself takes the state below, and
\* _update_state_up is called to take it back.
LEMMA StateDownMoves ==
    ASSUME NEW s, Good(s), s.state \in States, NEW call,
           \A u \in StatRecord : Good(u) /\ u.state \in States => MovesState(u, call["up"][u], 1)
    PROVE  MovesState(s, StateDown(call, s), -1)
<1> DEFINE u == UpdateValue(s)
           F == FindState(Current(s))
           d == Desired(u, -1)
           b == SetStates(call, RemoveStateCallbacks(call, u), d, -1)
           t == StateDown(call, s)
<1>1. Step(s, u, {}) /\ u.lag = 0 /\ u.value = Current(s) /\ u.state = s.state /\ Good(u)
      /\ Current(s) \in Value /\ (Dressed(s) => Dressed(u))
  <2>1. Step(s, u, {}) /\ u.lag = 0 /\ u.value = Current(s) /\ Current(s) \in Value
    BY UpdateValueStep, Reading DEF Good, Sound
  <2>2. Dressed(s) => Dressed(u)
    BY <2>1, StepDressed
  <2> QED
    BY <2>1, <2>2 DEF Step
<1>2. F \in States
  BY <1>1, FindStateIs
<1>3. t = ChangeState(call, u, d, -1)
  BY DEF StateDown, MoveState
<1> HIDE DEF u
<1>4. d \in States /\ d <= F /\ (F # s.state => d = F)
  <2> DEFINE e == FindHalf(2 * u.value - 1)
  <2>1. e \in States /\ e <= FindState(u.value)
    BY <1>1, HalfStates
  <2>2. 2 * u.value + -1 = 2 * u.value - 1
    <3>1. u.value \in Int
      BY <1>1, ValueAssumption DEF Value
    <3> QED
      BY <3>1
  <2>3. d = IF FindState(u.value) = u.state THEN e ELSE FindState(u.value)
    BY <2>2 DEF Desired
  <2>4. F \in Int
    BY <1>2, StatesAre
  <2> HIDE DEF e, d
  <2> QED
    BY <1>1, <1>2, <2>1, <2>3, <2>4
<1> HIDE DEF F, d
<1>5. CASE d = s.state
  <2>1. t = u /\ F = s.state
    <3>1. t = u
      BY <1>1, <1>3, <1>5 DEF ChangeState
    <3> QED
      BY <1>4, <1>5, <3>1
  <2>2. \A k \in Kind : Kept(s, u, k)
    BY <1>1 DEF Step
  <2> QED
    BY <1>1, <1>2, <2>1, <2>2, MovedIs, StepWeaken DEF MovesState, Settled, F, t
<1>6. CASE d # s.state
  <2>1. /\ Step(u, b, StateFields) /\ b.lag = 0 /\ b.value = u.value /\ Current(u) = u.value
        /\ ~Registered(b, "up") /\ ~Registered(b, "down")
        /\ b.state = Moved(u.state, d, -1) /\ (Dressed(u) => Dressed(b))
    BY <1>1, <1>4, LeavesState
  <2>2. t = UpdateStateCallback(call, b, d)
    BY <1>1, <1>3, <1>6 DEF ChangeState
  <2> HIDE DEF b, t
  <2>3. Good(b) /\ b.state \in States /\ b \in StatRecord /\ FindState(b.value) = F
    BY <1>1, <1>4, <2>1, MovedIs DEF Step, F, Good, Sound
  <2>4. d \in Int /\ F \in Int /\ s.state \in Int
    BY <1>2, <1>4, StatesAre
  <2>5. CASE F = s.state
    <3>1. d < F /\ b.state = d
      BY <1>1, <1>4, <1>6, <2>1, <2>4, <2>5, MovedIs
    <3>2. t = call["up"][b]
      BY <2>2, <2>3, <2>4, <3>1 DEF UpdateStateCallback
    <3>3. MovesState(b, t, 1)
      BY <2>3, <3>2
    <3>4. Current(b) = Current(u)
      BY <2>1 DEF Step
    <3>5. FindState(Current(b)) = F
      BY <1>1, <2>1, <3>4 DEF F
    <3>6. t.state = F
      BY <1>2, <1>4, <3>1, <3>3, <3>5, MovedIs DEF MovesState
    <3>7. StatePlaced(t)
      BY <2>4, <3>1, <3>3, <3>5 DEF MovesState, Settled
    <3>8. Step(u, t, StateFields)
      BY <2>1, <3>3, StepTrans DEF MovesState
    <3>9. Step(s, t, StateFields)
      BY <1>1, <3>8, StepTrans
    <3>10. t.state = Moved(s.state, F, -1)
      BY <2>5, <3>6, MovedIs
    <3>11. Dressed(s) => Dressed(t)
      BY <1>1, <2>1, <3>3 DEF MovesState
    <3> QED
      BY <3>7, <3>9, <3>10, <3>11 DEF MovesState, Settled, F, t
  <2>6. CASE F # s.state
    <3>1. d = F
      BY <1>4, <2>6
    <3>2. t = AddStateCallbacks(call, b)
      BY <2>2, <2>3, <2>4, <3>1 DEF UpdateStateCallback
    <3>3. Step(b, t, {"up", "down"}) /\ StatePlaced(t) /\ (Dressed(b) => Dressed(t))
      BY <2>1, <2>3, <3>2, AddStateCallbacksStep, StepDressed
    <3>4. Step(u, t, StateFields)
      BY <2>1, <3>3, StepTrans DEF StateFields
    <3>5. Step(s, t, StateFields)
      BY <1>1, <3>4, StepTrans
    <3>6. t.state = b.state
      BY <3>3, Kinds DEF Step
    <3> QED
      BY <1>1, <2>1, <3>1, <3>3, <3>5, <3>6 DEF MovesState, Settled, F, t
  <2> QED
    BY <2>5, <2>6
<1> QED
  BY <1>5, <1>6

-----------------------------------------------------------------------------
(***************************************************************************)
(* Buffs, distress, convergence; starting and stopping.                    *)
(***************************************************************************)

\* _add_buff_callback
LEMMA AddBuffStep ==
    ASSUME NEW s, Good(s), NEW call
    PROVE  LET t == AddBuff(call, s) IN
           /\ Step(s, t, {"buff", "handle", "leak"}) /\ ~Registered(t, "buff")
           /\ t.buff = s.state /\ t.leaked = (s.leaked \/ s.buff # None) /\ Dressed(t)
<1> DEFINE a == Drop(call, s, "buff")
           t == [a EXCEPT !.buff = s.state, !.leaked = @ \/ s.buff # None]
<1>1. Step(s, a, {"buff"}) /\ ~Registered(a, "buff")
  BY DropStep, Kinds
<1>2. /\ Good(a) /\ a \in StatRecord /\ ~a.tooDeep /\ s.state \in {None} \cup States
      /\ a.leaked = s.leaked /\ a.state = s.state
  BY <1>1, Fields, Kinds DEF Step, Good, Sound
<1>3. AddBuff(call, s) = t
  BY DEF AddBuff
<1> HIDE DEF a
<1>4. /\ t \in StatRecord /\ SameValue(a, t) /\ SameQueue(a, t) /\ SameAlarm(a, t)
      /\ t.buff = s.state /\ t.leaked = (s.leaked \/ s.buff # None)
      /\ t.suppress = a.suppress /\ t.state = a.state /\ t.distressBuff = a.distressBuff
      /\ t.activatable = a.activatable /\ t.phase = a.phase /\ t.tooDeep = a.tooDeep
  BY <1>2 DEF StatRecord, SameValue, SameQueue, SameAlarm
<1> HIDE DEF t
<1>5. Step(a, t, {"buff", "handle", "leak"})
  BY <1>2, <1>4, FieldStep DEF Good, Sound
<1>6. ~Registered(t, "buff")
  BY <1>1, <1>4 DEF SameQueue, Registered
<1>7. Dressed(t)
  BY <1>2, <1>4, <1>6 DEF Dressed
<1> QED
  BY <1>1, <1>3, <1>4, <1>5, <1>6, <1>7, StepTrans

\* _enter_distress
LEMMA EnterDistressStep ==
    ASSUME NEW s, Good(s), NEW call
    PROVE  LET t == EnterDistress(call, s) IN
           /\ Step(s, t, {"exit", "distressBuff"}) /\ t.distressBuff = TRUE
           /\ Registered(t, "exit") \/ (s.data["exit"] # NoData /\ Kept(s, t, "exit"))
<1> DEFINE a == [s EXCEPT !.distressBuff = TRUE]
           t == WaitToExit(call, a)
<1>1. Step(s, a, {"distressBuff"}) /\ a.distressBuff = TRUE /\ SameQueue(s, a)
  BY DistressFieldStep
<1>2. Good(a)
  BY <1>1 DEF Step
<1>3. EnterDistress(call, s) = t
  BY DEF EnterDistress
<1> HIDE DEF a
<1>4. CASE a.data["exit"] # NoData
  <2>1. t = a
    BY <1>4 DEF WaitToExit
  <2>2. Kept(s, a, "exit") /\ s.data["exit"] # NoData
    BY <1>1, <1>4 DEF Kept, SameQueue, Registered
  <2> QED
    BY <1>1, <1>3, <2>1, <2>2, StepWeaken
<1>5. CASE a.data["exit"] = NoData
  <2>1. ~Registered(a, "exit")
    BY <1>2, <1>5, Kinds DEF Good, Sound
  <2>2. ExitDatum \in Threshold(Value)
    BY CommodityAssumption DEF ExitDatum, Threshold, Comparison
  <2>3. t = Add(call, a, "exit", ExitDatum)
    BY <1>5 DEF WaitToExit, ExitDatum
  <2> HIDE DEF t
  <2>4. "exit" \in Kind /\ "exit" \notin {"up", "down"} /\ "exit" # "distress" /\ "exit" # "offlot"
    BY Kinds
  <2>5. Step(a, t, {"exit"}) /\ Registered(t, "exit")
    BY <1>2, <2>1, <2>2, <2>3, <2>4, AddStep
  <2>6. t.distressBuff = TRUE
    BY <1>1, <2>5 DEF Step
  <2> QED
    BY <1>1, <1>3, <2>5, <2>6, StepTrans
<1> QED
  BY <1>4, <1>5

\* _exit_distress
LEMMA ExitDistressStep ==
    ASSUME NEW s, Good(s), NEW call
    PROVE  LET t == ExitDistress(call, s) IN
           /\ Step(s, t, {"exit", "distressBuff"}) /\ t.distressBuff = FALSE
           /\ ~Registered(t, "exit") /\ t.data["exit"] = NoData
<1> DEFINE a == [s EXCEPT !.distressBuff = FALSE]
           t == Drop(call, a, "exit")
<1>1. Step(s, a, {"distressBuff"}) /\ a.distressBuff = FALSE
  BY DistressFieldStep
<1>2. Good(a)
  BY <1>1 DEF Step
<1>3. ExitDistress(call, s) = t
  BY DEF ExitDistress
<1> HIDE DEF a
<1>4. Step(a, t, {"exit"}) /\ ~Registered(t, "exit") /\ t.data["exit"] = NoData
  BY <1>2, DropStep, Kinds
<1> HIDE DEF t
<1>5. t.distressBuff = FALSE
  BY <1>1, <1>4 DEF Step
<1> QED
  BY <1>1, <1>3, <1>4, <1>5, StepTrans

\* stop_regular_simulation
StopFields ==
    {"up", "down", "buff", "converge", "distress", "exit", "failure", "distressBuff", "phase"}

\* stop_regular_simulation
LEMMA StopRegularStep ==
    ASSUME NEW s, Good(s), s.phase # "removed", NEW call
    PROVE  LET t == StopRegular(call, s) IN
           /\ Step(s, t, StopFields) /\ t.phase = "stopped" /\ t.distressBuff = FALSE
           /\ t.data["exit"] = NoData
           /\ \A k \in {"up", "down", "buff", "converge", "distress", "exit", "failure"} :
                 ~Registered(t, k)
<1> DEFINE a == RemoveStateCallbacks(call, s)
           b == SetDecay(call, a, FALSE)
           c == Drop(call, b, "converge")
           d == Drop(call, c, "distress")
           e == ExitDistress(call, d)
           f == Drop(call, e, "failure")
           t == [f EXCEPT !.phase = "stopped"]
<1>1. /\ Step(s, a, {"up", "down", "buff"})
      /\ ~Registered(a, "up") /\ ~Registered(a, "down") /\ ~Registered(a, "buff")
  BY RemoveStateCallbacksStep
<1> HIDE DEF a
<1>2. Step(a, b, {})
  BY <1>1, SetDecayStep DEF Step
<1> HIDE DEF b
<1>3. Step(b, c, {"converge"}) /\ ~Registered(c, "converge")
  BY <1>2, DropStep, Kinds DEF Step
<1> HIDE DEF c
<1>4. Step(c, d, {"distress"}) /\ ~Registered(d, "distress")
  BY <1>3, DropStep, Kinds DEF Step
<1> HIDE DEF d
<1>5. Step(d, e, {"exit", "distressBuff"}) /\ e.distressBuff = FALSE
      /\ ~Registered(e, "exit") /\ e.data["exit"] = NoData
  BY <1>4, ExitDistressStep DEF Step
<1> HIDE DEF e
<1>6. Step(e, f, {"failure"}) /\ ~Registered(f, "failure")
  BY <1>5, DropStep, Kinds DEF Step
<1> HIDE DEF f
<1>7. Step(f, t, {"phase"}) /\ t.phase = "stopped" /\ SameQueue(f, t)
  BY <1>6, PhaseFieldStep DEF Step
<1>8. StopRegular(call, s) = t
  <2>1. a.phase = s.phase /\ b.phase = a.phase /\ c.phase = b.phase
    BY <1>1, <1>2, <1>3 DEF Step
  <2>2. d.phase = c.phase /\ e.phase = d.phase /\ f.phase = e.phase
    BY <1>4, <1>5, <1>6 DEF Step
  <2>3. StopRegular(call, s) = In("stopped", f)
    BY DEF StopRegular, DropDistress, StopDecay, a, b, c, d, e, f
  <2> QED
    BY <2>1, <2>2, <2>3 DEF In
<1> HIDE DEF t
<1>9. Step(a, f, StopFields)
  <2>1. Step(a, c, StopFields)
    BY <1>2, <1>3, StepTrans DEF StopFields
  <2>2. Step(a, d, StopFields)
    BY <1>4, <2>1, StepTrans DEF StopFields
  <2>3. Step(a, e, StopFields)
    BY <1>5, <2>2, StepTrans DEF StopFields
  <2> QED
    BY <1>6, <2>3, StepTrans DEF StopFields
<1>10. Step(s, t, StopFields)
  <2>1. Step(s, f, StopFields)
    BY <1>1, <1>9, StepTrans DEF StopFields
  <2> QED
    BY <1>7, <2>1, StepTrans DEF StopFields
<1>11. \A k \in {"up", "down", "buff", "converge", "distress", "exit", "failure"} : ~Registered(t, k)
  <2>1. \A k \in {"up", "down", "buff"} : Kept(a, b, k) /\ Kept(b, c, k) /\ Kept(c, d, k)
                                          /\ Kept(d, e, k) /\ Kept(e, f, k) /\ Kept(f, t, k)
    BY <1>2, <1>3, <1>4, <1>5, <1>6, <1>7, Kinds DEF Step
  <2>2. Kept(c, d, "converge") /\ Kept(d, e, "converge") /\ Kept(e, f, "converge") /\ Kept(f, t, "converge")
    BY <1>4, <1>5, <1>6, <1>7, Kinds DEF Step
  <2>3. Kept(d, e, "distress") /\ Kept(e, f, "distress") /\ Kept(f, t, "distress")
    BY <1>5, <1>6, <1>7, Kinds DEF Step
  <2>4. Kept(e, f, "exit") /\ Kept(f, t, "exit") /\ Kept(f, t, "failure")
    BY <1>6, <1>7, Kinds DEF Step
  <2> QED
    BY <1>1, <1>3, <1>4, <1>5, <1>6, <2>1, <2>2, <2>3, <2>4 DEF Kept
<1>12. t.data["exit"] = NoData /\ t.distressBuff = FALSE
  <2>1. Kept(e, f, "exit") /\ Kept(f, t, "exit")
    BY <1>6, <1>7, Kinds DEF Step
  <2> QED
    BY <1>5, <1>6, <1>7, <2>1, Kinds DEF Kept, Step
<1> QED
  BY <1>7, <1>8, <1>10, <1>11, <1>12

\* stop_low_level_simulation
LEMMA StopLowLevelStep ==
    ASSUME NEW s, Good(s), NEW call
    PROVE  LET t == StopLowLevel(call, s) IN
           Step(s, t, {"offlot"}) /\ ~Registered(t, "offlot")
<1> DEFINE a == SetDecay(call, s, FALSE)
           t == RemoveCallback(call, a, "offlot")
<1>1. Step(s, a, {})
  BY SetDecayStep
<1> HIDE DEF a
<1>2. Step(a, t, {"offlot"}) /\ ~Registered(t, "offlot")
  BY <1>1, RemoveCallbackStep, Kinds DEF Step
<1>3. StopLowLevel(call, s) = t
  BY DEF StopLowLevel, a
<1> HIDE DEF t
<1> QED
  BY <1>1, <1>2, <1>3, StepTrans

\* start_low_level_simulation
LEMMA StartLowLevelStep ==
    ASSUME NEW s, Good(s), s.phase # "removed", ~Registered(s, "offlot"), NEW call
    PROVE  LET t == StartLowLevel(call, s) IN
           /\ Step(s, t, StopFields \cup {"offlot"}) /\ t.phase = "low" /\ t.distressBuff = FALSE
           /\ t.data["exit"] = NoData
           /\ \A k \in {"up", "down", "buff", "distress", "failure", "converge"} : ~Registered(t, k)
<1> DEFINE a == StopRegular(call, s)
           b == Add(call, a, "offlot", OffLotThreshold)
           c == SetDecay(call, b, TRUE)
           t == [c EXCEPT !.phase = "low"]
<1>1. /\ Step(s, a, StopFields) /\ a.phase = "stopped" /\ a.distressBuff = FALSE
      /\ a.data["exit"] = NoData
      /\ \A k \in {"up", "down", "buff", "distress", "failure", "converge"} : ~Registered(a, k)
  BY StopRegularStep
<1> HIDE DEF a
<1>2. Good(a) /\ ~Registered(a, "offlot")
  <2>1. Kept(s, a, "offlot")
    BY <1>1, Kinds DEF Step, StopFields
  <2> QED
    BY <1>1, <2>1 DEF Step, Kept
<1>3. Step(a, b, {"offlot"})
  <2>1. "offlot" \in Kind /\ "offlot" \notin {"up", "down"} /\ "offlot" # "exit" /\ "offlot" # "distress"
    BY Kinds
  <2>2. OffLotThreshold \in Threshold(Value)
    BY CommodityAssumption
  <2> QED
    BY <1>2, <2>1, <2>2, AddStep
<1> HIDE DEF b
<1>4. Step(b, c, {})
  BY <1>3, SetDecayStep DEF Step
<1> HIDE DEF c
<1>5. Step(c, t, {"phase"}) /\ t.phase = "low"
  BY <1>4, PhaseFieldStep DEF Step
<1>6. StartLowLevel(call, s) = t
  <2>1. c.phase = "stopped"
    BY <1>1, <1>3, <1>4 DEF Step
  <2>2. StartLowLevel(call, s) = In("low", c)
    BY <1>1 DEF StartLowLevel, SimulateLow, a, b, c
  <2> QED
    BY <2>1, <2>2 DEF In
<1> HIDE DEF t
<1>7. Step(s, t, StopFields \cup {"offlot"})
  <2>1. Step(a, c, {"offlot"})
    BY <1>3, <1>4, StepTrans
  <2>2. Step(s, c, StopFields \cup {"offlot"})
    BY <1>1, <2>1, StepTrans
  <2> QED
    BY <1>5, <2>2, StepTrans DEF StopFields
<1>8. t.distressBuff = FALSE
  BY <1>1, <1>3, <1>4, <1>5, Kinds DEF Step
<1>9. \A k \in {"up", "down", "buff", "exit", "distress", "failure", "converge"} :
         Kept(a, b, k) /\ Kept(b, c, k) /\ Kept(c, t, k)
  BY <1>3, <1>4, <1>5, Kinds DEF Step
<1> QED
  BY <1>1, <1>5, <1>6, <1>7, <1>8, <1>9 DEF Kept

\* remove_statistic and on_remove: nothing is registered any more.
LEMMA RemoveStatisticIs ==
    ASSUME NEW s, Good(s), s.phase # "removed", NEW call
    PROVE  LET t == RemoveStatistic(call, s) IN
           /\ Good(t) /\ Tight(t) /\ t.phase = "removed" /\ \A k \in Kind : ~Registered(t, k)
           /\ t.suppress = s.suppress /\ t.state = s.state
           /\ t.buff = None /\ t.leaked = s.leaked
           /\ Current(t) = Current(s) /\ (s.lag = 0 => t.lag = 0)
<1> DEFINE trig == [k \in Kind |-> Never]
           a == Cleared(s)
           b == StopRegular(call, a)
           c == StopLowLevel(call, b)
           d == [c EXCEPT !.buff = None]
           e == [d EXCEPT !.distressBuff = FALSE]
           t == [e EXCEPT !.phase = "removed"]
<1>1. s \in StatRecord /\ trig \in [Kind -> Int] /\ <<>> \in Seq(Kind) /\ Never \in Int
  BY NeverIsLate DEF Good, Sound
<1>2. a = [s EXCEPT !.alarm = Never, !.callbacks = <<>>, !.active = "none", !.trigger = trig]
  BY DEF Cleared
<1> HIDE DEF a, trig
<1>3. /\ a \in StatRecord /\ a.callbacks = <<>> /\ a.data = s.data /\ a.trigger = trig
      /\ a.alarm = Never /\ a.active = "none"
      /\ SameValue(s, a) /\ SameSelf(s, a)
  BY <1>1, <1>2 DEF StatRecord, SameValue, SameSelf
<1>4. \A k : ~Registered(a, k)
  BY <1>3 DEF Registered, Contains
<1>5. Good(a)
  <2>1. \A k \in Kind : trig[k] <= Never
    BY NeverIsLate DEF trig
  <2>2. Once(<<>>)
    BY DEF Once
  <2> QED
    BY <1>3, <1>4, <2>1, <2>2 DEF Good, Sound, Calm, SameSelf
<1>6. Tight(a)
  BY <1>3 DEF Tight, Ordered, Sorting, AlarmSet
<1>7. /\ Step(a, b, StopFields)
      /\ \A k \in {"up", "down", "buff", "converge", "distress", "exit", "failure"} : ~Registered(b, k)
  BY <1>3, <1>5, StopRegularStep DEF SameSelf
<1> HIDE DEF b
<1>8. Step(b, c, {"offlot"}) /\ ~Registered(c, "offlot")
  BY <1>7, StopLowLevelStep DEF Step
<1> HIDE DEF c
<1>9. Step(c, d, {"handle"}) /\ d.buff = None
  <2>1. None \in {None} \cup States
    OBVIOUS
  <2> QED
    BY <1>8, <2>1, BuffFieldStep DEF Step
<1> HIDE DEF d
<1>10. Step(d, e, {"distressBuff"})
  BY <1>9, DistressFieldStep DEF Step
<1> HIDE DEF e
<1>11. Step(e, t, {"phase"}) /\ t.phase = "removed"
  BY <1>10, PhaseFieldStep DEF Step
<1>12. RemoveStatistic(call, s) = t
  <2>1. RemoveStatistic(call, s) = [c EXCEPT !.buff = None, !.distressBuff = FALSE, !.phase = "removed"]
    BY DEF RemoveStatistic, a, b, c
  <2> QED
    BY <2>1 DEF d, e
<1> HIDE DEF t
<1>13. Step(a, t, StopFields \cup {"offlot", "handle"})
  <2>1. Step(a, c, StopFields \cup {"offlot", "handle"})
    BY <1>7, <1>8, StepTrans
  <2>2. Step(a, d, StopFields \cup {"offlot", "handle"})
    BY <1>9, <2>1, StepTrans
  <2>3. Step(a, e, StopFields \cup {"offlot", "handle"})
    BY <1>10, <2>2, StepTrans DEF StopFields
  <2> QED
    BY <1>11, <2>3, StepTrans DEF StopFields
<1>14. \A k \in Kind : ~Registered(t, k)
  <2>1. \A k \in {"up", "down", "buff", "converge", "distress", "exit", "failure"} :
           Kept(b, c, k) /\ Kept(c, d, k) /\ Kept(d, e, k) /\ Kept(e, t, k)
    BY <1>8, <1>9, <1>10, <1>11, Kinds DEF Step
  <2>2. Kept(c, d, "offlot") /\ Kept(d, e, "offlot") /\ Kept(e, t, "offlot")
    BY <1>9, <1>10, <1>11, Kinds DEF Step
  <2> QED
    BY <1>7, <1>8, <2>1, <2>2 DEF Kept, Kind
<1>15. Current(a) = Current(s)
  BY <1>3, SameCourse
<1>16. t.suppress = a.suppress /\ t.state = a.state /\ Current(t) = Current(a)
       /\ (a.lag = 0 => t.lag = 0) /\ Good(t) /\ Tight(t) /\ t.leaked = a.leaked
  BY <1>6, <1>13 DEF Step, StopFields
<1>17. t.buff = None
  BY <1>9, <1>10, <1>11 DEF Step
<1> QED
  BY <1>3, <1>11, <1>12, <1>14, <1>15, <1>16, <1>17 DEF SameSelf, SameValue

\* _activate_convergence_callback: that it may is given up, and the callback was
\* not there before.
LEMMA ActivateConvergenceStep ==
    ASSUME NEW s, Good(s), s.activatable => ~Registered(s, "converge"), NEW call
    PROVE  LET t == ActivateConvergence(call, s) IN
           Step(s, t, {"converge", "activatable"}) /\ t.activatable = FALSE
<1> DEFINE b == AddCallback(call, s, "converge")
<1>1. CASE s.activatable /\ s.data["converge"] # NoData
  <2>1. Step(s, b, {"converge"})
    BY <1>1, AddCallbackStep, Kinds
  <2>2. ActivateConvergence(call, s) = [b EXCEPT !.activatable = FALSE]
    BY <1>1 DEF ActivateConvergence
  <2> HIDE DEF b
  <2> DEFINE t == [b EXCEPT !.activatable = FALSE]
  <2>3. Step(b, t, {"activatable"}) /\ t.activatable = FALSE
    BY <2>1, ActivatableFieldStep DEF Step
  <2> HIDE DEF t
  <2>4. Step(s, t, {"converge", "activatable"})
    BY <2>1, <2>3, StepTrans
  <2> QED
    BY <2>2, <2>3, <2>4 DEF t
<1>2. CASE ~(s.activatable /\ s.data["converge"] # NoData)
  <2> DEFINE t == [s EXCEPT !.activatable = FALSE]
  <2>1. ActivateConvergence(call, s) = t
    BY <1>2 DEF ActivateConvergence
  <2>2. Step(s, t, {"activatable"}) /\ t.activatable = FALSE
    BY ActivatableFieldStep
  <2> HIDE DEF t
  <2> QED
    BY <2>1, <2>2, StepWeaken
<1> QED
  BY <1>1, <1>2

\* A datum put into the slot of convergence, but not into the queue.
LEMMA ConvergeSlotStep ==
    ASSUME NEW s, Good(s), ~Registered(s, "converge"), NEW th \in Threshold(Value)
    PROVE  LET t == [s EXCEPT !.data["converge"] = th, !.activatable = TRUE] IN
           /\ Step(s, t, {"converge", "activatable"}) /\ ~Registered(t, "converge")
<1> DEFINE data == [s.data EXCEPT !["converge"] = th]
           t == [s EXCEPT !.data["converge"] = th, !.activatable = TRUE]
<1>1. s \in StatRecord /\ s.data \in [Kind -> {NoData} \cup Threshold(Value)]
  BY Fields DEF Good, Sound
<1>2. /\ data \in [Kind -> {NoData} \cup Threshold(Value)] /\ data["converge"] = th
      /\ \A j \in Kind \ {"converge"} : data[j] = s.data[j]
  BY <1>1, Kinds
<1>3. t = [s EXCEPT !.data = data, !.activatable = TRUE]
  BY <1>1 DEF StatRecord
<1> HIDE DEF data, t
<1>5. /\ t \in StatRecord /\ t.data = data /\ SameValue(s, t) /\ SameAlarm(s, t)
      /\ t.callbacks = s.callbacks /\ t.trigger = s.trigger
      /\ t.suppress = s.suppress /\ t.state = s.state /\ t.distressBuff = s.distressBuff
      /\ t.phase = s.phase /\ t.tooDeep = s.tooDeep /\ t.buff = s.buff /\ t.leaked = s.leaked
  BY <1>1, <1>2, <1>3 DEF StatRecord, SameValue, SameAlarm
<1>6. \A j : Registered(t, j) <=> Registered(s, j)
  BY <1>5 DEF Registered
<1>7. Good(t)
  <2>1. \A j \in Kind : Registered(t, j) => t.data[j] # NoData
    BY <1>2, <1>5, <1>6 DEF Good, Sound
  <2>2. \A j \in {"exit", "distress", "offlot"} : j \in Kind /\ j # "converge"
    BY Kinds
  <2>3. /\ t.data["exit"] \in {NoData, ExitDatum}
        /\ t.data["distress"] \in {NoData, DistressDatum}
        /\ t.data["offlot"] \in {NoData, OffLotThreshold}
    BY <1>2, <1>5, <2>2 DEF Good, Sound
  <2> QED
    BY <1>5, <1>6, <2>1, <2>3 DEF Good, Sound, Calm
<1>8. \A j \in Kind : j # "converge" => Kept(s, t, j)
  BY <1>2, <1>5, <1>6 DEF Kept
<1>9. \A j \in Kind : Fresh(s, t, j)
  <2>1. Fresh(s, t, "converge")
    BY <1>6 DEF Fresh, Exact
  <2>2. ASSUME NEW j \in Kind \ {"converge"} PROVE Fresh(s, t, j)
    BY <1>2, <1>5, <1>6, SameExact DEF Fresh
  <2> QED
    BY <2>1, <2>2
<1>10. Tight(s) => Tight(t)
  BY <1>5 DEF Tight, Ordered, AlarmSet, SameAlarm
<1>11. Current(t) = Current(s) /\ (s.lag = 0 => t.lag = 0)
  BY <1>5, SameCourse DEF SameValue
<1>12. Step(s, t, {"converge", "activatable"})
  BY <1>5, <1>7, <1>8, <1>9, <1>10, <1>11 DEF Step
<1> QED
  BY <1>6, <1>12 DEF t

\* on_initial_startup, the part about convergence
LEMMA AwaitConvergenceStep ==
    ASSUME NEW s, Good(s), s.activatable => ~Registered(s, "converge"), NEW activate, NEW call
    PROVE  LET t == AwaitConvergence(call, s, activate) IN
           /\ Step(s, t, {"converge", "activatable"})
           /\ t.activatable => ~Registered(t, "converge")
<1> DEFINE th == [cmp |-> "eq", val |-> s.convergence]
           t == AwaitConvergence(call, s, activate)
<1>1. th \in Threshold(Value)
  <2>1. s.convergence \in Value
    BY Fields DEF Good, Sound
  <2> QED
    BY <2>1 DEF Threshold, Comparison
<1>2. CASE ~s.removes \/ s.data["converge"] # NoData
  <2>1. t = s
    BY <1>2 DEF AwaitConvergence
  <2> QED
    BY <2>1, StepRefl
<1>3. CASE ~(~s.removes \/ s.data["converge"] # NoData) /\ activate
  <2> DEFINE b == Add(call, s, "converge", th)
             u == [b EXCEPT !.activatable = FALSE]
  <2>1. t = u
    BY <1>3 DEF AwaitConvergence
  <2> HIDE DEF t, th
  <2>2. ~Registered(s, "converge") /\ "converge" \in Kind /\ "converge" \notin {"up", "down"}
        /\ "converge" # "exit" /\ "converge" # "distress" /\ "converge" # "offlot"
    BY <1>3, Kinds DEF Good, Sound
  <2>3. Step(s, b, {"converge"})
    BY <1>1, <2>2, AddStep
  <2> HIDE DEF b
  <2>4. Step(b, u, {"activatable"}) /\ u.activatable = FALSE
    BY <2>3, ActivatableFieldStep DEF Step
  <2> HIDE DEF u
  <2>5. Step(s, u, {"converge", "activatable"})
    BY <2>3, <2>4, StepTrans
  <2> QED
    BY <2>1, <2>4, <2>5 DEF t
<1>4. CASE ~(~s.removes \/ s.data["converge"] # NoData) /\ ~activate
  <2> DEFINE u == [s EXCEPT !.data["converge"] = th, !.activatable = TRUE]
  <2>1. t = u
    BY <1>4 DEF AwaitConvergence
  <2>2. ~Registered(s, "converge")
    BY <1>4, Kinds DEF Good, Sound
  <2> HIDE DEF t, th
  <2>3. Step(s, u, {"converge", "activatable"}) /\ ~Registered(u, "converge")
    BY <1>1, <2>2, ConvergeSlotStep
  <2> QED
    BY <2>1, <2>3 DEF t
<1> QED
  BY <1>2, <1>3, <1>4

\* on_initial_startup
StartFields ==
    {"up", "down", "buff", "distress", "failure", "converge", "state", "handle", "activatable", "phase"}

\* The state is entered, and its bounds are waited for.
LEMMA EnterStateNowStep ==
    ASSUME NEW s, Good(s), NEW call
    PROVE  LET t == EnterStateNow(call, s) IN
           /\ Step(s, t, StateFields) /\ t.state = FindState(Current(s)) /\ t.state \in States
           /\ StatePlaced(t)
           /\ Dressed(s) => Dressed(t)
<1> DEFINE a == RemoveStateCallbacks(call, s)
           b == UpdateValue(a)
           F == FindState(b.value)
           c == EnterState(call, b)
           t == AddStateCallbacks(call, c)
<1>1. /\ Step(s, a, {"up", "down", "buff"}) /\ ~Registered(a, "up") /\ ~Registered(a, "down")
      /\ ~Registered(a, "buff")
  BY RemoveStateCallbacksStep
<1> HIDE DEF a
<1>2. Step(a, b, {}) /\ b.lag = 0 /\ b.value = Current(a) /\ Current(a) \in Value
  BY <1>1, UpdateValueStep, Reading DEF Step, Good, Sound
<1> HIDE DEF b
<1>3. Current(a) = Current(s) /\ F = FindState(Current(s)) /\ F \in States
  <2>1. Current(a) = Current(s)
    BY <1>1 DEF Step
  <2> QED
    BY <1>2, <2>1, FindStateIs
<1>4. Step(b, c, {"buff", "state", "handle"}) /\ c.state = F /\ (Dressed(b) => Dressed(c))
  <2>1. CASE b.state = F
    BY <1>2, <2>1, StepRefl DEF EnterState, Step
  <2>2. CASE b.state # F
    <3>1. c = SetState(call, b, F, b.value)
      BY <2>2 DEF EnterState
    <3> HIDE DEF c, F
    <3> QED
      BY <1>2, <1>3, <3>1, SetStateStep DEF Step
  <2> QED
    BY <2>1, <2>2
<1> HIDE DEF c, F
<1>5. Good(c) /\ c.state \in States /\ ~Registered(c, "up") /\ ~Registered(c, "down")
  <2>1. Kept(a, b, "up") /\ Kept(b, c, "up") /\ Kept(a, b, "down") /\ Kept(b, c, "down")
    BY <1>2, <1>4, Kinds DEF Step
  <2> QED
    BY <1>1, <1>3, <1>4, <2>1 DEF Step, Kept
<1>6. Step(c, t, {"up", "down"}) /\ StatePlaced(t)
  BY <1>5, AddStateCallbacksStep
<1>10. Dressed(s) => Dressed(t)
  <2>1. Dressed(s) => Dressed(a)
    BY <1>1, DropDressed
  <2>2. Dressed(a) => Dressed(b)
    BY <1>2, StepDressed
  <2>3. Dressed(c) => Dressed(t)
    BY <1>6, StepDressed
  <2> QED
    BY <1>4, <2>1, <2>2, <2>3
<1>7. EnterStateNow(call, s) = t
  BY DEF EnterStateNow, a, b, c
<1> HIDE DEF t
<1>8. t.state = F
  BY <1>4, <1>6, Kinds DEF Step
<1>9. Step(s, t, StateFields)
  <2>1. Step(s, b, StateFields)
    BY <1>1, <1>2, StepTrans DEF StateFields
  <2>2. Step(s, c, StateFields)
    BY <1>4, <2>1, StepTrans DEF StateFields
  <2> QED
    BY <1>6, <2>2, StepTrans DEF StateFields
<1> QED
  BY <1>3, <1>6, <1>7, <1>8, <1>9, <1>10

\* on_initial_startup
LEMMA OnInitialStartupStep ==
    ASSUME NEW s, Good(s), ~Registered(s, "distress"), ~Registered(s, "failure"),
           s.activatable => ~Registered(s, "converge"), s.phase # "removed", NEW activate, NEW call
    PROVE  LET t == OnInitialStartup(call, s, activate) IN
           /\ Step(s, t, StartFields) /\ t.phase = "regular"
           /\ t.state = FindState(Current(s)) /\ t.state \in States /\ StatePlaced(t)
           /\ Registered(t, "distress") /\ Registered(t, "failure")
           /\ t.activatable => ~Registered(t, "converge")
           /\ Dressed(s) => Dressed(t)
<1> DEFINE a == Add(call, s, "distress", DistressDatum)
           b == Add(call, a, "failure", FailureThreshold)
           c == EnterStateNow(call, b)
           d == SetDecay(call, c, TRUE)
           e == AwaitConvergence(call, d, activate)
           t == [e EXCEPT !.phase = "regular"]
<1>1. Step(s, a, {"distress"}) /\ Registered(a, "distress")
  <2>1. DistressDatum \in Threshold(Value)
    BY CommodityAssumption DEF DistressDatum, Threshold, Comparison
  <2>2. "distress" \in Kind /\ "distress" \notin {"up", "down"} /\ "distress" # "exit" /\ "distress" # "offlot"
    BY Kinds
  <2> QED
    BY <2>1, <2>2, AddStep
<1>2. AwaitBadNews(call, s) = b
  BY DEF AwaitBadNews, DistressDatum
<1> HIDE DEF a
<1>3. Step(a, b, {"failure"}) /\ Registered(b, "failure")
  <2>1. FailureThreshold \in Threshold(Value)
    BY CommodityAssumption
  <2>2. "failure" \in Kind /\ "failure" \notin {"up", "down"} /\ "failure" # "exit" /\ "failure" # "offlot"
        /\ "failure" # "distress"
    BY Kinds
  <2>3. Good(a) /\ ~Registered(a, "failure")
    <3>1. Kept(s, a, "failure")
      BY <1>1, <2>2 DEF Step
    <3> QED
      BY <1>1, <3>1 DEF Step, Kept
  <2> QED
    BY <2>1, <2>2, <2>3, AddStep
<1> HIDE DEF b
<1>4. /\ Step(b, c, StateFields) /\ c.state = FindState(Current(b)) /\ c.state \in States
      /\ StatePlaced(c) /\ (Dressed(b) => Dressed(c))
  BY <1>3, EnterStateNowStep DEF Step
<1> HIDE DEF c
<1>5. Step(c, d, {})
  BY <1>4, SetDecayStep DEF Step
<1> HIDE DEF d
<1>6. Step(d, e, {"converge", "activatable"}) /\ (e.activatable => ~Registered(e, "converge"))
  <2>1. Kept(s, a, "converge") /\ Kept(a, b, "converge") /\ Kept(b, c, "converge") /\ Kept(c, d, "converge")
    BY <1>1, <1>3, <1>4, <1>5, Kinds DEF Step, StateFields
  <2>2. d.activatable = s.activatable
    BY <1>1, <1>3, <1>4, <1>5, Kinds DEF Step, StateFields
  <2>3. d.activatable => ~Registered(d, "converge")
    BY <2>1, <2>2 DEF Kept
  <2> QED
    BY <1>5, <2>3, AwaitConvergenceStep DEF Step
<1> HIDE DEF e
<1>7. Step(e, t, {"phase"}) /\ t.phase = "regular"
  BY <1>6, PhaseFieldStep DEF Step
<1>8. OnInitialStartup(call, s, activate) = t
  <2>1. a.phase = s.phase /\ b.phase = a.phase /\ c.phase = b.phase
    BY <1>1, <1>3, <1>4 DEF Step, StateFields
  <2>2. d.phase = c.phase /\ e.phase = d.phase
    BY <1>5, <1>6 DEF Step
  <2>3. OnInitialStartup(call, s, activate) = In("regular", e)
    BY <1>2 DEF OnInitialStartup, c, d, e
  <2> QED
    BY <2>1, <2>2, <2>3 DEF In
<1> HIDE DEF t
<1>9. Step(c, t, StartFields)
  <2>1. Step(c, e, StartFields)
    BY <1>5, <1>6, StepTrans DEF StartFields
  <2> QED
    BY <1>7, <2>1, StepTrans DEF StartFields
<1>10. Step(s, b, StartFields)
  BY <1>1, <1>3, StepTrans DEF StartFields
<1>11. Step(s, t, StartFields)
  <2>1. Step(s, c, StartFields)
    BY <1>4, <1>10, StepTrans DEF StartFields, StateFields
  <2> QED
    BY <1>9, <2>1, StepTrans
<1>12. Current(b) = Current(s) /\ t.state = c.state
  <2>1. Current(b) = Current(s)
    BY <1>10 DEF Step
  <2> QED
    BY <1>5, <1>6, <1>7, <2>1, Kinds DEF Step
<1>13. \A k \in {"up", "down", "distress", "failure"} : Kept(c, d, k) /\ Kept(d, e, k) /\ Kept(e, t, k)
  BY <1>5, <1>6, <1>7, Kinds DEF Step
<1>14. StatePlaced(t)
  BY <1>4, <1>12, <1>13 DEF StatePlaced, Kept
<1>15. Registered(t, "distress") /\ Registered(t, "failure")
  <2>1. Kept(a, b, "distress") /\ Kept(b, c, "distress") /\ Kept(b, c, "failure")
    BY <1>3, <1>4, Kinds DEF Step, StateFields
  <2> QED
    BY <1>1, <1>3, <1>13, <2>1 DEF Kept
<1>16. t.activatable => ~Registered(t, "converge")
  <2>1. Kept(e, t, "converge") /\ t.activatable = e.activatable
    BY <1>7, Kinds DEF Step
  <2> QED
    BY <1>6, <2>1 DEF Kept
<1>17. ASSUME Dressed(s), s.phase # "removed" PROVE Dressed(t)
  <2>1. Step(s, b, {"distress", "failure"})
    BY <1>1, <1>3, StepTrans
  <2>2. Dressed(b)
    BY <1>17, <2>1, StepDressed
  <2>3. Step(c, e, {"converge", "activatable"}) /\ e.phase = s.phase
    <3>1. Step(c, e, {"converge", "activatable"})
      BY <1>5, <1>6, StepTrans
    <3> QED
      BY <1>4, <2>1, <3>1, Kinds DEF Step, StateFields
  <2>4. Dressed(e)
    BY <1>4, <2>2, <2>3, StepDressed
  <2> QED
    BY <1>7, <1>17, <2>3, <2>4, PhaseDressed
<1> QED
  BY <1>4, <1>7, <1>8, <1>11, <1>12, <1>14, <1>15, <1>16, <1>17

-----------------------------------------------------------------------------
(***************************************************************************)
(* What a callback may be called on, and what it does.                     *)
(***************************************************************************)

\* Whichever bounds a commodity waits for, they are those of its state.
Fitting(s) ==
    /\ Registered(s, "up") => s.state + 1 \in States /\ s.data["up"] = UpDatum(s.state)
    /\ Registered(s, "down") => s.data["down"] = DownDatum(s.state)

\* Which callbacks there are says how the commodity is simulated.
Phased(s) ==
    /\ Dressed(s) /\ Fitting(s)
    /\ s.phase = "regular" =>
          /\ s.state \in States /\ StatePlaced(s)
          /\ Registered(s, "distress") /\ Registered(s, "failure")
          /\ s.data["exit"] # NoData => Registered(s, "exit")
          /\ s.distressBuff => Registered(s, "exit")
    /\ s.phase \in {"stopped", "low"} =>
          /\ ~Registered(s, "distress") /\ ~Registered(s, "failure")
          /\ s.data["exit"] = NoData /\ ~s.distressBuff
          /\ ~Registered(s, "up") /\ ~Registered(s, "down") /\ ~Registered(s, "buff")
    /\ s.phase # "low" => ~Registered(s, "offlot")
    /\ s.activatable => ~Registered(s, "converge")

\* Whatever is called, and however often, before the queue is put in order.
Keeps(s, t) ==
    /\ Good(t) /\ Phased(t) /\ t.suppress = s.suppress
    /\ s.state \in States => t.state \in States
    /\ t.phase \in {s.phase, "removed"}
    /\ Tight(s) => Tight(t)
    /\ s.lag = 0 => t.lag = 0
    /\ \A k \in Kind : Fresh(s, t, k)

\* No buff is left on the Sim for good, if the tuning is as it should be.
Leakless(s, t) == BuffTuning /\ ~s.leaked => ~t.leaked

\* What the one callback does.
Does(s, t, k) ==
    /\ k # "offlot" => Current(t) = Current(s)
    /\ k \notin {"converge", "offlot"} => t.phase = s.phase
    /\ k = "up" => MovesState(s, t, 1)
    /\ k = "down" => MovesState(s, t, -1)
    /\ k \notin {"up", "down", "offlot"} => t.state = s.state
    /\ k = "exit" => t.distressBuff = FALSE
    /\ k \notin {"distress", "exit", "converge", "offlot"} => t.distressBuff = s.distressBuff
    /\ k = "converge" => t.phase = "removed"
    /\ k \notin {"up", "down", "buff", "offlot"} => t.buff \in {s.buff, None}
    /\ k \notin {"buff", "offlot"} => t.leaked = s.leaked
    /\ (k = "buff" => s.buff = None) /\ (k = "offlot" => BuffTuning) /\ ~s.leaked => ~t.leaked

\* What it is called on.
Callable(s, k) ==
    /\ Good(s) /\ Phased(s)
    /\ k \in {"up", "down"} => s.state \in States /\ s.phase \in {"regular", "removed"}
    /\ k = "distress" => s.phase \in {"regular", "removed"}
    /\ k = "offlot" => s.phase \in {"low", "removed"}

CallOK(call, kinds) ==
    \A k \in kinds : \A s \in StatRecord :
       Callable(s, k) => Keeps(s, call[k][s]) /\ Does(s, call[k][s], k)

\* To call nothing keeps what a call keeps.
LEMMA KeepsRefl ==
    ASSUME NEW s, Good(s), Phased(s) PROVE Keeps(s, s)
BY DEF Keeps, Fresh

\* A call after another keeps what each keeps.
LEMMA KeepsTrans ==
    ASSUME NEW s, NEW t, NEW u, Keeps(s, t), Keeps(t, u) PROVE Keeps(s, u)
<1>1. ASSUME NEW k \in Kind PROVE Fresh(s, u, k)
  <2>1. Fresh(s, t, k) /\ Fresh(t, u, k)
    BY DEF Keeps
  <2> QED
    BY <2>1 DEF Fresh
<1> QED
  BY <1>1 DEF Keeps

\* A step keeps what a call keeps.
LEMMA StepKeeps ==
    ASSUME NEW s, NEW t, NEW m, Step(s, t, m), "phase" \notin m, Phased(t),
           s.state \in States => t.state \in States
    PROVE  Keeps(s, t)
BY DEF Step, Keeps

\* A step that leaves alone what the phase is about.
LEMMA StepPhased ==
    ASSUME NEW s, NEW t, NEW m, Step(s, t, m), Phased(s),
           m \cap {"up", "down", "distress", "exit", "failure", "offlot", "converge", "state",
                   "distressBuff", "activatable", "phase"} = {},
           (~Registered(t, "buff") /\ Dressed(t)) \/ m \cap {"buff", "handle"} = {}
    PROVE  Phased(t) /\ Keeps(s, t)
<1>1. /\ t.state = s.state /\ t.distressBuff = s.distressBuff /\ t.activatable = s.activatable
      /\ t.phase = s.phase
      /\ \A k \in {"up", "down", "distress", "exit", "failure", "offlot", "converge"} : Kept(s, t, k)
  BY Kinds DEF Step
<1>2. Dressed(t) /\ (Registered(t, "buff") => Registered(s, "buff"))
  <2>1. CASE ~Registered(t, "buff") /\ Dressed(t)
    BY <2>1
  <2>2. CASE m \cap {"buff", "handle"} = {}
    <3>1. Dressed(t)
      BY <2>2, StepDressed DEF Phased
    <3>2. Kept(s, t, "buff")
      BY <2>2, Kinds DEF Step
    <3> QED
      BY <3>1, <3>2 DEF Kept
  <2> QED
    BY <2>1, <2>2
<1>3. Fitting(t)
  BY <1>1 DEF Phased, Fitting, Kept
<1>4. Phased(t)
  BY <1>1, <1>2, <1>3 DEF Phased, StatePlaced, Kept
<1> QED
  BY <1>1, <1>4, StepKeeps

\* The callbacks of the bounds.
LEMMA MovesStateKeeps ==
    ASSUME NEW s, NEW t, NEW step \in {-1, 1}, Phased(s), s.state \in States, s \in StatRecord,
           s.phase \in {"regular", "removed"}, MovesState(s, t, step)
    PROVE  Phased(t) /\ Keeps(s, t)
<1>1. /\ t.distressBuff = s.distressBuff /\ t.activatable = s.activatable /\ t.phase = s.phase
      /\ \A k \in {"distress", "exit", "failure", "offlot", "converge"} : Kept(s, t, k)
      /\ Step(s, t, StateFields) /\ Settled(s, t) /\ Dressed(t)
  BY Kinds DEF MovesState, Step, StateFields, Phased
<1>2. t.state \in States
  <2>1. FindState(Current(s)) \in States
    BY Reading, FindStateIs
  <2> QED
    BY <2>1, MovedIs DEF MovesState
<1>3. s.phase = "regular" => StatePlaced(t)
  <2>1. Kept(s, t, "up") /\ Kept(s, t, "down") /\ t.state = s.state /\ StatePlaced(s) => StatePlaced(t)
    BY DEF Kept, StatePlaced
  <2> QED
    BY <1>1, <2>1, Kinds DEF Settled, Phased
<1>4. Fitting(t)
  <2>1. CASE StatePlaced(t)
    BY <2>1 DEF StatePlaced, Fitting
  <2>2. CASE t.state = s.state /\ Kept(s, t, "up") /\ Kept(s, t, "down")
    BY <2>2 DEF Phased, Fitting, Kept
  <2> QED
    BY <1>1, <2>1, <2>2, Kinds DEF Settled
<1>5. Phased(t)
  BY <1>1, <1>2, <1>3, <1>4 DEF Phased, Kept
<1> QED
  BY <1>1, <1>2, <1>5, StepKeeps DEF StateFields

\* Every callback but two does so whatever it may call.
LEMMA SimpleHandlers ==
    ASSUME NEW s \in StatRecord, NEW k \in Kind \ {"down", "offlot"}, Callable(s, k), NEW call
    PROVE  Keeps(s, Handle(call, s, k)) /\ Does(s, Handle(call, s, k), k)
<1>0. Good(s) /\ Phased(s)
  BY DEF Callable
<1>1. CASE k = "up"
  <2> DEFINE t == StateUp(call, s)
  <2>1. Handle(call, s, k) = t
    BY <1>1 DEF Handle
  <2>2. s.state \in States /\ s.phase \in {"regular", "removed"} /\ MovesState(s, t, 1)
    BY <1>0, <1>1, StateUpMoves DEF Callable
  <2> HIDE DEF t
  <2>3. Keeps(s, t)
    BY <1>0, <2>2, MovesStateKeeps
  <2>4. Current(t) = Current(s) /\ t.phase = s.phase /\ t.distressBuff = s.distressBuff
        /\ t.leaked = s.leaked
    BY <2>2, Kinds DEF MovesState, Step, StateFields
  <2> QED
    BY <1>1, <2>1, <2>2, <2>3, <2>4 DEF Does
<1>2. CASE k = "buff"
  <2> DEFINE t == AddBuff(call, s)
  <2>1. Handle(call, s, k) = t
    BY <1>2 DEF Handle
  <2>2. /\ Step(s, t, {"buff", "handle", "leak"}) /\ ~Registered(t, "buff") /\ Dressed(t)
        /\ t.leaked = (s.leaked \/ s.buff # None)
    BY <1>0, AddBuffStep
  <2> HIDE DEF t
  <2>3. Keeps(s, t)
    BY <1>0, <2>2, StepPhased
  <2>4. Current(t) = Current(s) /\ t.phase = s.phase /\ t.distressBuff = s.distressBuff /\ t.state = s.state
    BY <2>2 DEF Step
  <2>5. s.buff = None /\ ~s.leaked => ~t.leaked
    BY <2>2
  <2> QED
    BY <1>2, <2>1, <2>3, <2>4, <2>5 DEF Does
<1>3. CASE k \in {"distress", "exit"}
  <2> DEFINE t == Handle(call, s, k)
  <2>1. /\ Step(s, t, {"exit", "distressBuff"})
        /\ k = "distress" => t.distressBuff = TRUE /\ (Registered(t, "exit") \/ (s.data["exit"] # NoData /\ Kept(s, t, "exit")))
        /\ k = "exit" => t.distressBuff = FALSE /\ ~Registered(t, "exit") /\ t.data["exit"] = NoData
    <3>1. k = "distress" => t = EnterDistress(call, s)
      BY DEF Handle
    <3>2. k = "exit" => t = ExitDistress(call, s)
      BY DEF Handle
    <3> HIDE DEF t
    <3> QED
      BY <1>0, <1>3, <3>1, <3>2, EnterDistressStep, ExitDistressStep
  <2> HIDE DEF t
  <2>2. /\ t.state = s.state /\ t.activatable = s.activatable /\ t.phase = s.phase
        /\ Current(t) = Current(s) /\ t.buff = s.buff /\ t.leaked = s.leaked
        /\ \A j \in {"up", "down", "buff", "distress", "failure", "offlot", "converge"} : Kept(s, t, j)
    BY <2>1, Kinds DEF Step
  <2>3. Phased(t)
    <3>1. s.phase = "regular" => StatePlaced(t)
      BY <1>0, <2>2 DEF Phased, StatePlaced, Kept
    <3>2. s.phase = "regular" /\ t.data["exit"] # NoData => Registered(t, "exit")
      BY <1>0, <1>3, <2>1 DEF Phased, Kept
    <3>3. s.phase = "regular" /\ t.distressBuff => Registered(t, "exit")
      BY <1>0, <1>3, <2>1 DEF Phased, Kept
    <3>4. s.phase \in {"stopped", "low"} => t.data["exit"] = NoData /\ ~t.distressBuff
      BY <1>3, <2>1 DEF Callable
    <3>5. Dressed(t) /\ Fitting(t)
      BY <1>0, <2>2 DEF Phased, Dressed, Fitting, Kept
    <3> QED
      BY <1>0, <2>2, <3>1, <3>2, <3>3, <3>4, <3>5 DEF Phased, Kept
  <2>4. Keeps(s, t)
    BY <2>1, <2>2, <2>3, StepKeeps
  <2> QED
    BY <1>3, <2>1, <2>2, <2>4 DEF Does, t
<1>4. CASE k = "failure"
  <2>1. Handle(call, s, k) = s
    BY <1>4 DEF Handle
  <2> QED
    BY <1>0, <1>4, <2>1, KeepsRefl DEF Does
<1>5. CASE k = "converge"
  <2> DEFINE t == RemoveStatistic(call, s)
  <2>1. Handle(call, s, k) = t
    BY <1>5 DEF Handle
  <2>2. CASE s.phase = "removed"
    <3>1. t = s
      BY <2>2 DEF RemoveStatistic
    <3> HIDE DEF t
    <3> QED
      BY <1>0, <1>5, <2>1, <2>2, <3>1, KeepsRefl DEF Does
  <2>3. CASE s.phase # "removed"
    <3>1. /\ Good(t) /\ Tight(t) /\ t.phase = "removed" /\ \A j \in Kind : ~Registered(t, j)
          /\ t.suppress = s.suppress /\ t.state = s.state /\ t.buff = None /\ t.leaked = s.leaked
          /\ Current(t) = Current(s) /\ (s.lag = 0 => t.lag = 0)
      BY <1>0, <2>3, RemoveStatisticIs
    <3> HIDE DEF t
    <3>2. Phased(t)
      BY <3>1, Kinds DEF Phased, Dressed, Fitting
    <3>3. \A j \in Kind : Fresh(s, t, j)
      BY <3>1 DEF Fresh, Exact
    <3>4. Keeps(s, t)
      BY <3>1, <3>2, <3>3 DEF Keeps
    <3> QED
      BY <1>5, <2>1, <3>1, <3>4 DEF Does
  <2> QED
    BY <2>2, <2>3
<1> QED
  BY <1>1, <1>2, <1>3, <1>4, <1>5 DEF Kind

\* The callback of the lower bound may have to call that of the upper one.
LEMMA DownHandler ==
    ASSUME NEW s \in StatRecord, Callable(s, "down"), NEW call,
           \A u \in StatRecord : Good(u) /\ u.state \in States => MovesState(u, call["up"][u], 1)
    PROVE  Keeps(s, Handle(call, s, "down")) /\ Does(s, Handle(call, s, "down"), "down")
<1> DEFINE t == StateDown(call, s)
<1>1. Handle(call, s, "down") = t
  BY DEF Handle
<1>2. /\ Good(s) /\ Phased(s) /\ s.state \in States /\ s.phase \in {"regular", "removed"}
      /\ MovesState(s, t, -1)
  BY StateDownMoves DEF Callable
<1> HIDE DEF t
<1>3. Keeps(s, t)
  BY <1>2, MovesStateKeeps
<1>4. Current(t) = Current(s) /\ t.phase = s.phase /\ t.distressBuff = s.distressBuff
      /\ t.leaked = s.leaked
  BY <1>2, Kinds DEF MovesState, Step, StateFields
<1> QED
  BY <1>1, <1>2, <1>3, <1>4 DEF Does

\* The call of a callback, one level up.
LEMMA NestedCall ==
    ASSUME NEW n \in 1 .. MaxNested, NEW k \in Kind, NEW s \in StatRecord
    PROVE  Nested[n][k][s] = Handle(Nested[n - 1], s, k)
<1>1. n \in 0 .. MaxNested /\ n # 0
  BY CommodityAssumption
<1>2. Nested[n] = Level(n, Nested[n - 1])
  BY <1>1, NestedIs
<1> QED
  BY <1>1, <1>2 DEF Level

\* Every callback but that of offlot is as it should be two levels up.
LEMMA PlainCalls ==
    ASSUME NEW n \in 2 .. MaxNested
    PROVE  CallOK(Nested[n], Kind \ {"offlot"})
<1>1. n \in 1 .. MaxNested /\ n - 1 \in 1 .. MaxNested
  BY CommodityAssumption
<1>2. ASSUME NEW u \in StatRecord, Good(u), u.state \in States
      PROVE  MovesState(u, Nested[n - 1]["up"][u], 1)
  <2>1. Nested[n - 1]["up"][u] = Handle(Nested[n - 1 - 1], u, "up")
    BY <1>1, NestedCall, Kinds
  <2>2. Nested[n - 1]["up"][u] = StateUp(Nested[n - 1 - 1], u)
    BY <2>1 DEF Handle
  <2> QED
    BY <1>2, <2>2, StateUpMoves
<1>3. ASSUME NEW k \in Kind \ {"offlot"}, NEW s \in StatRecord, Callable(s, k)
      PROVE  Keeps(s, Nested[n][k][s]) /\ Does(s, Nested[n][k][s], k)
  <2>1. Nested[n][k][s] = Handle(Nested[n - 1], s, k)
    BY <1>1, NestedCall
  <2>2. CASE k = "down"
    BY <1>2, <1>3, <2>1, <2>2, DownHandler
  <2>3. CASE k # "down"
    BY <1>3, <2>1, <2>3, SimpleHandlers
  <2> QED
    BY <2>2, <2>3
<1> QED
  BY <1>3 DEF CallOK

-----------------------------------------------------------------------------
(***************************************************************************)
(* What is called one after the other: by a change of value, by an alarm.  *)
(***************************************************************************)

\* The members of q behind the first n.
Rest(q, n) == {q[i] : i \in n + 1 .. Len(q)}

\* The state and the distress are those of the value.
Follows(s) ==
    s.phase = "regular" => /\ s.state = FindState(Current(s))
                           /\ s.distressBuff => Current(s) <= DistressThreshold

\* x was the statistic when the first was called, t is what it is by now, v the
\* value: what does not follow v yet is going to be brought there.
OnCourse(x, t, v, rest) ==
    t.phase = "regular" =>
        /\ Current(t) = v
        /\ \/ t.state = FindState(v)
           \/ /\ t.state = x.state
              /\ x.state < FindState(v) => "up" \in rest
              /\ x.state > FindState(v) => "down" \in rest
        /\ v > DistressThreshold /\ t.distressBuff => x.distressBuff /\ "exit" \in rest

Lasting(x, t) ==
    /\ Good(t) /\ Phased(t) /\ t.suppress = x.suppress
    /\ x.state \in States => t.state \in States
    /\ t.phase \in {x.phase, "removed"}

\* No buff is left on the Sim for good, and none is when the one that is waited
\* for comes.
NoLeak(x, t, v, rest) ==
    /\ ~x.leaked => ~t.leaked
    /\ "buff" \in rest /\ Registered(x, "buff") /\ Compare(x.data["buff"], v) => t.buff = None

Underway(x, t, v, follows, q, n) ==
    /\ Lasting(x, t)
    /\ \A k \in Kind : k \in Rest(q, n) \/ Exact(t, k)
    /\ Current(t) = v \/ "offlot" \notin Rest(q, n)
    /\ follows => OnCourse(x, t, v, Rest(q, n))
    /\ BuffTuning => NoLeak(x, t, v, Rest(q, n))

\* The callback of an object simulated off the lot, of a value it waited for.
OffLotOK(call) ==
    \A s \in StatRecord :
        Callable(s, "offlot") /\ Compare(OffLotThreshold, Current(s))
            => Keeps(s, call["offlot"][s]) /\ Does(s, call["offlot"][s], "offlot")

\* What is left of a queue when one more was called.
LEMMA RestIs ==
    ASSUME NEW q \in Seq(Kind), Once(q), NEW n \in 1 .. Len(q)
    PROVE  /\ q[n] \in Kind /\ Rest(q, n - 1) = Rest(q, n) \cup {q[n]} /\ q[n] \notin Rest(q, n)
           /\ Rest(q, Len(q)) = {}
<1>1. q[n] \in Kind
  OBVIOUS
<1>2. Len(q) \in Nat
  OBVIOUS
<1>3. Rest(q, n - 1) = Rest(q, n) \cup {q[n]}
  <2>1. n - 1 + 1 .. Len(q) = (n + 1 .. Len(q)) \cup {n}
    BY <1>2
  <2> QED
    BY <2>1 DEF Rest
<1>4. q[n] \notin Rest(q, n)
  <2>1. ASSUME NEW i \in n + 1 .. Len(q) PROVE q[i] # q[n]
    <3>1. i \in 1 .. Len(q) /\ i # n
      BY <1>2
    <3> QED
      BY <3>1 DEF Once
  <2> QED
    BY <2>1 DEF Rest
<1>5. Rest(q, Len(q)) = {}
  BY <1>2 DEF Rest
<1> QED
  BY <1>1, <1>3, <1>4, <1>5

\* Who waits for a callback may have it called.
LEMMA OnTheWayCallable ==
    ASSUME NEW x, Good(x), Phased(x), NEW t, Lasting(x, t), NEW k \in Kind, Registered(x, k)
    PROVE  /\ Callable(t, k)
           /\ k \in {"up", "down"} => x.state \in States
           /\ k = "offlot" => t.phase # "regular"
<1>1. x \in StatRecord /\ x.state \in {None} \cup States
      /\ x.phase \in {"regular", "stopped", "low", "removed"}
  BY Fields DEF Good, Sound
<1>2. k \in {"up", "down"} => x.state \in States
  BY <1>1 DEF Good, Sound
<1>3. k = "distress" => x.phase \in {"regular", "removed"}
  BY <1>1 DEF Phased
<1>4. k = "offlot" => x.phase \in {"low", "removed"}
  BY <1>1 DEF Phased
<1>5. k \in {"up", "down"} => x.phase \in {"regular", "removed"}
  BY <1>1 DEF Phased
<1> QED
  BY <1>2, <1>3, <1>4, <1>5 DEF Callable, Lasting

\* The next is called, and nothing has been called that it does not expect.
Calling(x, t, v, follows, q, n, call) ==
    /\ Good(x) /\ Phased(x) /\ v \in Value /\ follows \in BOOLEAN
    /\ q \in Seq(Kind) /\ Once(q) /\ n \in 1 .. Len(q) /\ Registered(x, q[n])
    /\ Underway(x, t, v, follows, q, n - 1)
    /\ CallOK(call, Kind \ {"offlot"})
    /\ q[n] = "offlot" /\ Callable(t, "offlot") /\ Current(t) = v
          => Keeps(t, call["offlot"][t]) /\ Does(t, call["offlot"][t], "offlot")
    /\ follows /\ x.phase = "regular" /\ q[n] = "distress" => v <= DistressThreshold
    /\ BuffTuning /\ q[n] \in {"up", "down", "buff"} => Compare(x.data[q[n]], v)

\* Where the buff of a state is due, the state is not left.
LEMMA MetBuffIsAlone ==
    ASSUME NEW x, Good(x), Phased(x), BuffTuning, NEW v \in Value,
           Registered(x, "buff"), Compare(x.data["buff"], v),
           NEW k, Registered(x, k), k \in {"up", "down"} => Compare(x.data[k], v)
    PROVE  k \notin {"up", "down", "offlot"}
<1>1. x \in StatRecord /\ x.state \in {None} \cup States
      /\ x.phase \in {"regular", "stopped", "low", "removed"}
  BY Fields DEF Good, Sound
<1>2. x.state \in States /\ x.data["buff"] = BuffAddThreshold[x.state] /\ x.data["buff"] # NoData
  BY <1>1, Kinds DEF Phased, Dressed, Good, Sound
<1>3. FindState(v) = x.state
  BY <1>2 DEF BuffTuning
<1>4. k # "offlot"
  BY <1>1 DEF Phased
<1>5. v \in Int /\ x.state \in Int /\ \A i \in States : StateBounds[i] \in Int
  BY <1>2, StatesAre, ValueAssumption DEF Value
<1>6. /\ v >= StateBounds[x.state]
      /\ x.state + 1 \in States => v < StateBounds[x.state + 1]
  <2>1. \A i \in States : StateBounds[i] <= v <=> i <= x.state
    BY <1>3, FindStateIs
  <2> QED
    BY <1>2, <1>5, <2>1
<1>7. k # "up"
  <2> SUFFICES ASSUME k = "up" PROVE FALSE
    OBVIOUS
  <2>1. x.state + 1 \in States /\ x.data["up"] = UpDatum(x.state) /\ Compare(x.data["up"], v)
    BY DEF Phased, Fitting
  <2>2. v >= StateBounds[x.state + 1]
    BY <2>1 DEF UpDatum, Compare
  <2> QED
    BY <1>5, <1>6, <2>1, <2>2
<1>8. k # "down"
  <2> SUFFICES ASSUME k = "down" PROVE FALSE
    OBVIOUS
  <2>1. x.data["down"] = DownDatum(x.state) /\ Compare(x.data["down"], v)
    BY DEF Phased, Fitting
  <2>2. v < StateBounds[x.state]
    BY <2>1 DEF DownDatum, Compare
  <2> QED
    BY <1>2, <1>5, <1>6, <2>2
<1> QED
  BY <1>4, <1>7, <1>8

\* What comes of it.
LEMMA CalledOnTheWay ==
    ASSUME NEW x, NEW t, NEW v, NEW follows, NEW q, NEW n, NEW call,
           Calling(x, t, v, follows, q, n, call), NEW u, u = call[q[n]][t]
    PROVE  /\ Keeps(t, u) /\ Lasting(x, u)
           /\ \A j \in Kind : j \in Rest(q, n) \/ j = q[n] \/ Exact(u, j)
           /\ Current(u) = v \/ "offlot" \notin Rest(q, n)
           /\ follows => OnCourse(x, u, v, Rest(q, n))
           /\ BuffTuning => NoLeak(x, u, v, Rest(q, n))
<1>i. /\ Good(x) /\ Phased(x) /\ v \in Value /\ follows \in BOOLEAN
      /\ q \in Seq(Kind) /\ Once(q) /\ n \in 1 .. Len(q) /\ Registered(x, q[n])
      /\ Underway(x, t, v, follows, q, n - 1)
      /\ CallOK(call, Kind \ {"offlot"})
      /\ q[n] = "offlot" /\ Callable(t, "offlot") /\ Current(t) = v
            => Keeps(t, call["offlot"][t]) /\ Does(t, call["offlot"][t], "offlot")
      /\ follows /\ x.phase = "regular" /\ q[n] = "distress" => v <= DistressThreshold
      /\ BuffTuning /\ q[n] \in {"up", "down", "buff"} => Compare(x.data[q[n]], v)
  BY DEF Calling
<1> USE <1>i
<1> DEFINE k == q[n]
           F == FindState(v)
<1>0. u = call[k][t]
  OBVIOUS
<1>1. k \in Kind /\ Rest(q, n - 1) = Rest(q, n) \cup {k} /\ k \notin Rest(q, n)
  BY RestIs
<1>2. /\ Lasting(x, t) /\ t \in StatRecord
      /\ \A j \in Kind : j \in Rest(q, n) \/ j = k \/ Exact(t, j)
      /\ Current(t) = v \/ ("offlot" \notin Rest(q, n) /\ k # "offlot")
      /\ follows => OnCourse(x, t, v, Rest(q, n) \cup {k})
      /\ BuffTuning => NoLeak(x, t, v, Rest(q, n) \cup {k})
  BY <1>1 DEF Underway, Lasting, Good, Sound
<1>3. Callable(t, k) /\ (k \in {"up", "down"} => x.state \in States) /\ (k = "offlot" => t.phase # "regular")
  BY <1>1, <1>2, OnTheWayCallable
<1>4. Keeps(t, u) /\ Does(t, u, k)
  BY <1>0, <1>1, <1>2, <1>3 DEF CallOK
<1>d. /\ x.phase = "regular" /\ follows /\ k = "distress" => v <= DistressThreshold
      /\ BuffTuning /\ k \in {"up", "down", "buff"} => Compare(x.data[k], v)
      /\ Registered(x, k)
  OBVIOUS
<1> HIDE DEF F, k
<1>5. Lasting(x, u)
  BY <1>2, <1>4 DEF Lasting, Keeps
<1>6. ASSUME NEW j \in Kind PROVE j \in Rest(q, n) \/ j = k \/ Exact(u, j)
  BY <1>2, <1>4 DEF Keeps, Fresh
<1>7. Current(u) = v \/ "offlot" \notin Rest(q, n)
  BY <1>1, <1>2, <1>4 DEF Does
<1>8. ASSUME follows PROVE OnCourse(x, u, v, Rest(q, n))
  <2> SUFFICES ASSUME u.phase = "regular"
               PROVE  /\ Current(u) = v
                      /\ \/ u.state = F
                         \/ /\ u.state = x.state
                            /\ x.state < F => "up" \in Rest(q, n)
                            /\ x.state > F => "down" \in Rest(q, n)
                      /\ v > DistressThreshold /\ u.distressBuff => x.distressBuff /\ "exit" \in Rest(q, n)
    BY DEF OnCourse, F
  <2>1. t.phase = "regular" /\ x.phase = "regular" /\ k # "offlot" /\ k # "converge"
    BY <1>2, <1>3, <1>4 DEF Keeps, Lasting, Does
  <2>2. /\ Current(t) = v
        /\ \/ t.state = F
           \/ /\ t.state = x.state
              /\ x.state < F => "up" \in Rest(q, n) \cup {k}
              /\ x.state > F => "down" \in Rest(q, n) \cup {k}
        /\ v > DistressThreshold /\ t.distressBuff => x.distressBuff /\ "exit" \in Rest(q, n) \cup {k}
    BY <1>2, <1>8, <2>1 DEF OnCourse, F
  <2>3. Current(u) = v /\ Does(t, u, k)
    BY <1>4, <2>1, <2>2 DEF Does
  <2>4. F \in States /\ F \in Int /\ t.state \in States /\ t.state \in Int /\ x.state \in States /\ x.state \in Int
    <3>1. t.state \in States /\ x.state \in States
      BY <1>2, <2>1 DEF Lasting, Phased
    <3> QED
      BY <3>1, FindStateIs, StatesAre DEF F
  <2>5. \/ u.state = F
        \/ /\ u.state = x.state
           /\ x.state < F => "up" \in Rest(q, n)
           /\ x.state > F => "down" \in Rest(q, n)
    <3>1. CASE k = "up"
      <4>1. u.state = IF t.state <= F THEN F ELSE t.state
        BY <2>2, <2>3, <2>4, <3>1, MovedIs DEF Does, MovesState, F
      <4> QED
        BY <2>2, <2>4, <3>1, <4>1
    <3>2. CASE k = "down"
      <4>1. u.state = IF t.state >= F THEN F ELSE t.state
        BY <2>2, <2>3, <2>4, <3>2, MovedIs DEF Does, MovesState, F
      <4> QED
        BY <2>2, <2>4, <3>2, <4>1
    <3>3. CASE k \notin {"up", "down"}
      BY <2>1, <2>2, <2>3, <3>3 DEF Does
    <3> QED
      BY <3>1, <3>2, <3>3
  <2>6. v > DistressThreshold /\ u.distressBuff => x.distressBuff /\ "exit" \in Rest(q, n)
    <3>1. k = "distress" => ~(v > DistressThreshold)
      <4>1. v \in Int /\ DistressThreshold \in Int
        BY ValueAssumption, CommodityAssumption DEF Value
      <4> QED
        BY <1>8, <1>d, <2>1, <4>1
    <3>2. CASE k = "exit"
      BY <2>3, <3>2 DEF Does
    <3>3. CASE k \notin {"exit", "distress"}
      BY <2>1, <2>2, <2>3, <3>3 DEF Does
    <3> QED
      BY <3>1, <3>2, <3>3
  <2> QED
    BY <2>3, <2>5, <2>6
<1>9. ASSUME BuffTuning PROVE NoLeak(x, u, v, Rest(q, n))
  <2> DEFINE met == Registered(x, "buff") /\ Compare(x.data["buff"], v)
  <2>1. /\ ~x.leaked => ~t.leaked
        /\ "buff" \in Rest(q, n) \cup {k} /\ met => t.buff = None
    BY <1>2, <1>9 DEF NoLeak
  <2>2. ASSUME met PROVE k \notin {"up", "down", "offlot"}
    BY <1>9, <1>d, <2>2, MetBuffIsAlone
  <2>3. ~x.leaked => ~u.leaked
    <3>1. k = "buff" => met
      BY <1>9, <1>d
    <3> QED
      BY <1>4, <1>9, <2>1, <3>1 DEF Does
  <2>4. "buff" \in Rest(q, n) /\ met => u.buff = None
    <3>1. k # "buff" \/ "buff" \notin Rest(q, n)
      BY <1>1
    <3> QED
      BY <1>4, <2>1, <2>2, <3>1 DEF Does
  <2> QED
    BY <2>3, <2>4 DEF NoLeak
<1> QED
  BY <1>4, <1>5, <1>6, <1>7, <1>8, <1>9 DEF k

\* ... and it is queued with its new trigger time, or it is not called.
LEMMA QueuedOnTheWay ==
    ASSUME NEW x, NEW v, NEW follows, NEW q, NEW n,
           NEW k \in Kind, NEW u, Lasting(x, u),
           \A j \in Kind : j \in Rest(q, n) \/ j = k \/ Exact(u, j),
           Current(u) = v \/ "offlot" \notin Rest(q, n),
           follows => OnCourse(x, u, v, Rest(q, n)),
           BuffTuning => NoLeak(x, u, v, Rest(q, n)),
           NEW w, Good(w), SameSelf(u, w), Current(w) = Current(u),
           \A j \in Kind : Kept(u, w, j),
           \A j \in Kind : Exact(u, j) => Exact(w, j), Exact(w, k)
    PROVE  Underway(x, w, v, follows, q, n)
<1>1. Phased(w)
  BY DEF Lasting, Phased, Dressed, Fitting, SameSelf, Kept, StatePlaced, Kind
<1>2. Lasting(x, w)
  BY <1>1 DEF Lasting, SameSelf
<1>3. follows => OnCourse(x, w, v, Rest(q, n))
  BY DEF OnCourse, SameSelf
<1>4. BuffTuning => NoLeak(x, w, v, Rest(q, n))
  BY DEF NoLeak, SameSelf
<1> QED
  BY <1>2, <1>3, <1>4 DEF Underway

\* A new trigger time for one callback.
LEMMA RefreshIs ==
    ASSUME NEW s, Good(s), s.lag = 0, NEW k \in Kind
    PROVE  LET t == Refresh(s, k) IN
           /\ Good(t) /\ SameSelf(s, t) /\ Current(t) = Current(s) /\ t.lag = 0
           /\ \A j \in Kind : Kept(s, t, j)
           /\ \A j \in Kind : Exact(s, j) => Exact(t, j)
           /\ Exact(t, k)
<1> DEFINE t == Refresh(s, k)
<1>1. s \in StatRecord /\ s.trigger \in [Kind -> Int]
  BY Fields DEF Good, Sound
<1>2. CASE ~Registered(s, k)
  <2>1. t = s
    BY <1>2 DEF Refresh
  <2> HIDE DEF t
  <2>2. /\ Good(s) /\ SameSelf(s, s) /\ \A j \in Kind : Kept(s, s, j)
        /\ Exact(s, k)
    BY <1>2 DEF SameSelf, Kept, Exact
  <2> QED
    BY <2>1, <2>2 DEF t
<1>3. CASE Registered(s, k)
  <2> DEFINE T == TriggerTime(s, s.data[k])
             trig == [s.trigger EXCEPT ![k] = T]
  <2>1. T \in Int /\ T > 0 /\ T <= Never
    BY <1>1, <1>3, ResetIsLater DEF Good, Sound
  <2>2. t = [s EXCEPT !.trigger = trig]
    BY <1>1, <1>3 DEF Refresh, ResetTrigger, StatRecord
  <2> HIDE DEF t
  <2> HIDE DEF T
  <2>3. trig \in [Kind -> Int] /\ trig[k] = T /\ \A j \in Kind \ {k} : trig[j] = s.trigger[j]
    BY <1>1, <2>1
  <2> HIDE DEF trig
  <2>4. /\ t \in StatRecord /\ t.trigger = trig /\ t.callbacks = s.callbacks /\ t.data = s.data
        /\ SameValue(s, t) /\ SameSelf(s, t)
    BY <1>1, <2>2, <2>3 DEF StatRecord, SameValue, SameSelf
  <2>5. \A j : Registered(t, j) <=> Registered(s, j)
    BY <2>4 DEF Registered
  <2>6. \A j \in Kind : t.trigger[j] <= Never
    BY <2>1, <2>3, <2>4 DEF Good, Sound
  <2>7. Sound(t)
    BY <2>4, <2>5, <2>6 DEF Good, Sound, SameSelf
  <2>8. s.suppress \/ \A j \in Kind : Calm(t, j)
    BY <2>1, <2>3, <2>4, <2>5 DEF Good, Calm
  <2>9. Good(t)
    BY <2>4, <2>7, <2>8 DEF Good, SameSelf
  <2>10. Exact(t, k)
    <3>1. TriggerTime(t, t.data[k]) = T /\ t.trigger[k] = T /\ t.lag = 0
      BY <2>3, <2>4, SameCourse DEF T, SameValue
    <3> QED
      BY <2>1, <3>1 DEF Exact, Right
  <2>11. \A j \in Kind \ {k} : Exact(s, j) => Exact(t, j)
    BY <2>3, <2>4, <2>5, SameExact
  <2>12. Current(t) = Current(s) /\ t.lag = 0 /\ \A j \in Kind : Kept(s, t, j)
    BY <2>4, <2>5, SameCourse DEF Kept, SameValue
  <2> QED
    BY <2>4, <2>9, <2>10, <2>11, <2>12 DEF t
<1> QED
  BY <1>2, <1>3

\* The queue, from either end.
LEMMA ReverseIs ==
    ASSUME NEW q \in Seq(Kind)
    PROVE  /\ Reverse(q) \in Seq(Kind) /\ Len(Reverse(q)) = Len(q)
           /\ Once(q) => Once(Reverse(q))
           /\ \A k \in Kind : Contains(Reverse(q), k) <=> Contains(q, k)
<1> DEFINE r == Reverse(q)
           N == Len(q)
<1>1. N \in Nat /\ \A i \in 1 .. N : q[i] \in Kind /\ N - i + 1 \in 1 .. N
  OBVIOUS
<1>2. r = [i \in 1 .. N |-> q[N - i + 1]]
  BY DEF Reverse
<1>3. r \in Seq(Kind) /\ Len(r) = N /\ \A i \in 1 .. N : r[i] = q[N - i + 1]
  BY <1>1, <1>2
<1> HIDE DEF r
<1>4. Once(q) => Once(r)
  <2> SUFFICES ASSUME Once(q), NEW i \in 1 .. N, NEW j \in 1 .. N, r[i] = r[j] PROVE i = j
    BY <1>3 DEF Once
  <2>1. N - i + 1 = N - j + 1
    BY <1>1, <1>3 DEF Once
  <2> QED
    BY <1>1, <2>1
<1>5. ASSUME NEW k \in Kind PROVE (\E i \in 1 .. N : r[i] = k) <=> (\E i \in 1 .. N : q[i] = k)
  <2>1. ASSUME NEW i \in 1 .. N, r[i] = k PROVE \E j \in 1 .. N : q[j] = k
    <3>1. q[N - i + 1] = k /\ N - i + 1 \in 1 .. N
      BY <1>1, <1>3, <2>1
    <3> QED
      BY <3>1
  <2>2. ASSUME NEW i \in 1 .. N, q[i] = k PROVE \E j \in 1 .. N : r[j] = k
    <3>1. N - (N - i + 1) + 1 = i /\ N - i + 1 \in 1 .. N
      BY <1>1
    <3>2. r[N - i + 1] = k
      BY <1>3, <2>2, <3>1
    <3> QED
      BY <3>1, <3>2
  <2> QED
    BY <2>1, <2>2
<1>6. \A k \in Kind : Contains(r, k) <=> Contains(q, k)
  BY <1>3, <1>5 DEF Contains
<1> QED
  BY <1>3, <1>4, <1>6 DEF r

\* What waits for a value that a change has not crossed does not move.
LEMMA NotCrossed ==
    ASSUME NEW x, Sound(x), NEW old \in Value, NEW new \in Value, NEW k \in Kind,
           x.phase = "regular" => StatePlaced(x) /\ x.state = FindState(old)
                                  /\ (x.distressBuff => old <= DistressThreshold),
           Registered(x, k), x.phase = "regular", ~Crossed(x.data[k], old, new)
    PROVE  /\ k = "up" => ~(x.state < FindState(new))
           /\ k = "down" => ~(x.state > FindState(new))
           /\ k = "exit" => ~(new > DistressThreshold /\ x.distressBuff)
<1> DEFINE F == FindState(new)
           i == x.state
<1>1. /\ i = FindState(old) /\ i \in States /\ F \in States /\ i \in Int /\ F \in Int
      /\ \A j \in States : StateBounds[j] <= new <=> j <= F
      /\ \A j \in States : StateBounds[j] <= old <=> j <= i
      /\ StateBounds[F] <= new /\ StateBounds[i] <= old
      /\ \A j \in States : StateBounds[j] \in Int
  BY FindStateIs, StatesAre
<1>2. old \in Int /\ new \in Int /\ DistressThreshold \in Int
  BY ValueAssumption, CommodityAssumption DEF Value
<1>3. x.data[k] # NoData
  BY DEF Sound
<1> HIDE DEF F, i
<1>4. ASSUME k = "up" PROVE ~(i < F)
  <2>1. i + 1 \in States /\ x.data[k] = UpDatum(i)
    BY <1>4 DEF StatePlaced, i
  <2>2. ~(StateBounds[i + 1] <= old) /\ StateBounds[i + 1] \in Int
    BY <1>1, <2>1
  <2>3. ~Compare(x.data[k], old) /\ (Compare(x.data[k], new) <=> new >= StateBounds[i + 1])
    BY <1>2, <2>1, <2>2 DEF UpDatum, Compare
  <2>4. ~(StateBounds[i + 1] <= new)
    BY <1>2, <2>2, <2>3 DEF Crossed
  <2> QED
    BY <1>1, <2>1, <2>4
<1>5. ASSUME k = "down" PROVE ~(i > F)
  <2>1. x.data[k] = DownDatum(i)
    BY <1>5 DEF StatePlaced, i
  <2>2. ~Compare(x.data[k], old) /\ (Compare(x.data[k], new) <=> new < StateBounds[i])
    BY <1>1, <1>2, <2>1 DEF DownDatum, Compare
  <2>3. StateBounds[i] <= new
    BY <1>1, <1>2, <2>2 DEF Crossed
  <2> QED
    BY <1>1, <2>3
<1>6. ASSUME k = "exit", new > DistressThreshold, x.distressBuff PROVE FALSE
  <2>1. x.data[k] = ExitDatum
    BY <1>3, <1>6 DEF Sound
  <2> QED
    BY <1>2, <1>6, <2>1 DEF ExitDatum, Compare, Crossed
<1> QED
  BY <1>4, <1>5, <1>6 DEF F, i

\* Before the first is called, all that has to follow is waiting.
LEMMA SetOut ==
    ASSUME NEW x, Good(x), Phased(x), NEW v \in Value, NEW q \in Seq(Kind), NEW follows \in BOOLEAN,
           Current(x) = v,
           \A k \in Kind : Registered(x, k) => Contains(q, k) \/ Exact(x, k),
           follows /\ x.phase = "regular" =>
               /\ x.state < FindState(v) /\ Registered(x, "up") => Contains(q, "up")
               /\ x.state > FindState(v) /\ Registered(x, "down") => Contains(q, "down")
               /\ v > DistressThreshold /\ x.distressBuff /\ Registered(x, "exit") => Contains(q, "exit")
    PROVE  Underway(x, x, v, follows, q, 0)
<1> DEFINE F == FindState(v)
<1>1. \A k : Contains(q, k) <=> k \in Rest(q, 0)
  BY DEF Contains, Rest
<1>2. Lasting(x, x)
  BY DEF Lasting
<1>3. \A k \in Kind : k \in Rest(q, 0) \/ Exact(x, k)
  BY <1>1 DEF Exact
<1>4. ASSUME follows, x.phase = "regular"
      PROVE  /\ \/ x.state = F
                \/ /\ x.state = x.state
                   /\ x.state < F => "up" \in Rest(q, 0)
                   /\ x.state > F => "down" \in Rest(q, 0)
             /\ v > DistressThreshold /\ x.distressBuff => x.distressBuff /\ "exit" \in Rest(q, 0)
  <2>1. /\ x.state \in States /\ StatePlaced(x) /\ (x.distressBuff => Registered(x, "exit"))
        /\ F \in States
    BY <1>4, FindStateIs DEF Phased
  <2>2. x.state < F => Registered(x, "up")
    <3>1. x.state < F => x.state + 1 \in States
      BY <2>1, StatesAre
    <3> QED
      BY <2>1, <3>1 DEF StatePlaced
  <2>3. x.state > F => Registered(x, "down")
    <3>1. x.state > F => StateBounds[F] < StateBounds[x.state]
      BY <2>1, CommodityAssumption
    <3>2. StateBounds[F] >= MinValue /\ StateBounds[F] \in Int /\ StateBounds[x.state] \in Int /\ MinValue \in Int
      BY <2>1, StatesAre, ValueAssumption DEF Value
    <3> QED
      BY <2>1, <3>1, <3>2 DEF StatePlaced
  <2> QED
    BY <1>1, <1>4, <2>1, <2>2, <2>3
<1>5. follows => OnCourse(x, x, v, Rest(q, 0))
  BY <1>4 DEF OnCourse
<1>6. NoLeak(x, x, v, Rest(q, 0))
  BY DEF NoLeak, Phased, Dressed
<1> QED
  BY <1>2, <1>3, <1>5, <1>6 DEF Underway

\* When the last was called, all is done.
LEMMA Arrived ==
    ASSUME NEW x, NEW t, NEW v, NEW follows, NEW q \in Seq(Kind), Underway(x, t, v, follows, q, Len(q)),
           v \in Value
    PROVE  /\ Lasting(x, t) /\ \A k \in Kind : Exact(t, k)
           /\ follows => Follows(t)
           /\ Leakless(x, t)
<1>1. Rest(q, Len(q)) = {}
  <2>1. Len(q) + 1 .. Len(q) = {}
    OBVIOUS
  <2> QED
    BY <2>1 DEF Rest
<1>2. follows => Follows(t)
  <2> SUFFICES ASSUME follows, t.phase = "regular"
               PROVE  t.state = FindState(Current(t)) /\ (t.distressBuff => Current(t) <= DistressThreshold)
    BY DEF Follows
  <2>1. /\ Current(t) = v
        /\ \/ t.state = FindState(v)
           \/ t.state = x.state /\ ~(x.state < FindState(v)) /\ ~(x.state > FindState(v))
        /\ ~(v > DistressThreshold /\ t.distressBuff)
    BY <1>1 DEF Underway, OnCourse
  <2>2. v \in Int /\ DistressThreshold \in Int /\ t.state \in Int /\ FindState(v) \in Int
    <3>1. t.state \in States /\ FindState(v) \in States
      BY <2>1, FindStateIs DEF Underway, Lasting, Phased
    <3>2. \A i \in States : i \in Int
      BY StatesAre
    <3>3. v \in Int /\ DistressThreshold \in Int
      BY ValueAssumption, CommodityAssumption DEF Value
    <3> QED
      BY <3>1, <3>2, <3>3
  <2> QED
    BY <2>1, <2>2
<1>3. Leakless(x, t)
  BY DEF Underway, NoLeak, Leakless
<1> QED
  BY <1>1, <1>2, <1>3 DEF Underway

\* What a change of value has crossed.
LEMMA CallCrossedIs ==
    ASSUME NEW x, Good(x), Phased(x), x.lag = 0, NEW old \in Value, NEW new \in Value, x.value = new,
           NEW follows \in BOOLEAN,
           follows /\ x.phase = "regular" => x.state = FindState(old)
                                             /\ (x.distressBuff => old <= DistressThreshold),
           NEW call, CallOK(call, Kind \ {"offlot"}),
           Crossed(OffLotThreshold, old, new) => OffLotOK(call)
    PROVE  LET t == CallCrossed(call, x, old, new) IN
           /\ Lasting(x, t) /\ t.lag = 0 /\ \A k \in Kind : Exact(t, k)
           /\ (follows => Follows(t)) /\ Leakless(x, t)
<1> DEFINE q == IF old <= new THEN x.callbacks ELSE Reverse(x.callbacks)
           f == [k \in Kind |-> [t \in StatRecord |->
                   Refresh(IF Crossed(x.data[k], old, new) THEN call[k][t] ELSE t, k)]]
           d(n) == {t \in StatRecord : t.lag = 0 /\ Underway(x, t, new, follows, q, n)}
           D == [n \in 0 .. Len(q) |-> d(n)]
<1>1. x \in StatRecord /\ x.callbacks \in Seq(Kind) /\ Once(x.callbacks) /\ Sound(x)
  BY Fields DEF Good, Sound
<1>2. q \in Seq(Kind) /\ Once(q) /\ \A k \in Kind : Contains(q, k) <=> Registered(x, k)
  BY <1>1, ReverseIs DEF Registered
<1>3. CallCrossed(call, x, old, new) = Through(f, x, q)
  BY DEF CallCrossed
<1>4. Len(q) \in Nat /\ \A n \in 0 .. Len(q) : D[n] = d(n)
  BY <1>2
<1>5. \A k \in Kind : \A t \in StatRecord :
         f[k][t] = Refresh(IF Crossed(x.data[k], old, new) THEN call[k][t] ELSE t, k)
  OBVIOUS
<1> HIDE DEF q, f, D
<1>6. x \in d(0)
  <2>1. Current(x) = new
    BY <1>1, StatRecordIsStat, NoLag DEF Current
  <2>2. Underway(x, x, new, follows, q, 0)
    BY <1>2, <2>1, SetOut, Kinds
  <2> QED
    BY <1>1, <2>2
<1>7. ASSUME NEW n \in 1 .. Len(q), NEW t \in d(n - 1) PROVE f[q[n]][t] \in d(n)
  <2> DEFINE k == q[n]
             crossed == Crossed(x.data[k], old, new)
             u == IF crossed THEN call[k][t] ELSE t
             w == Refresh(u, k)
  <2>1. t \in StatRecord /\ t.lag = 0 /\ Underway(x, t, new, follows, q, n - 1)
    BY <1>7
  <2>2. k \in Kind /\ Rest(q, n - 1) = Rest(q, n) \cup {k} /\ k \notin Rest(q, n)
    BY <1>2, RestIs
  <2>3. f[k][t] = w
    BY <1>5, <2>1, <2>2
  <2>4. Registered(x, k)
    <3>1. Contains(q, k)
      BY <1>2 DEF Contains
    <3> QED
      BY <1>2, <2>2, <3>1
  <2>5. x.data[k] # NoData
    BY <1>1, <2>2, <2>4 DEF Sound
  <2> HIDE DEF d
  <2>6. CASE crossed
    <3>1. k = "offlot" /\ Callable(t, "offlot") /\ Current(t) = new
            => Keeps(t, call["offlot"][t]) /\ Does(t, call["offlot"][t], "offlot")
      <4> SUFFICES ASSUME k = "offlot", Callable(t, "offlot"), Current(t) = new
                   PROVE  Keeps(t, call["offlot"][t]) /\ Does(t, call["offlot"][t], "offlot")
        OBVIOUS
      <4>1. x.data["offlot"] = OffLotThreshold
        BY <1>1, <2>5 DEF Sound
      <4>2. Crossed(OffLotThreshold, old, new)
        BY <2>6, <4>1
      <4>3. Compare(OffLotThreshold, Current(t)) /\ OffLotOK(call)
        BY <4>2 DEF Crossed
      <4> QED
        BY <2>1, <4>3 DEF OffLotOK
    <3>2. k = "distress" => new <= DistressThreshold
      <4> SUFFICES ASSUME k = "distress" PROVE new <= DistressThreshold
        OBVIOUS
      <4>1. x.data["distress"] = DistressDatum /\ Compare(DistressDatum, new)
        BY <1>1, <2>5, <2>6 DEF Sound, Crossed
      <4> QED
        BY <4>1 DEF DistressDatum, Compare
    <3>3. u = call[k][t] /\ Compare(x.data[k], new)
      BY <2>6 DEF Crossed
    <3> HIDE DEF w, u, crossed
    <3>4. /\ Keeps(t, u) /\ Lasting(x, u)
          /\ \A j \in Kind : j \in Rest(q, n) \/ j = k \/ Exact(u, j)
          /\ Current(u) = new \/ "offlot" \notin Rest(q, n)
          /\ follows => OnCourse(x, u, new, Rest(q, n))
          /\ BuffTuning => NoLeak(x, u, new, Rest(q, n))
      <4>1. follows /\ x.phase = "regular" /\ q[n] = "distress" => new <= DistressThreshold
        BY <3>2
      <4>2. u = call[q[n]][t]
        BY <3>3
      <4>3. q[n] = "offlot" /\ Callable(t, "offlot") /\ Current(t) = new
              => Keeps(t, call["offlot"][t]) /\ Does(t, call["offlot"][t], "offlot")
        BY <3>1
      <4>5. Compare(x.data[q[n]], new)
        BY <3>3
      <4>4. Registered(x, q[n])
        BY <2>4
      <4> QED
        <5>1. Calling(x, t, new, follows, q, n, call)
          BY <1>2, <2>1, <4>1, <4>3, <4>4, <4>5 DEF Calling
        <5> HIDE DEF k
        <5>2. /\ Keeps(t, u) /\ Lasting(x, u)
              /\ \A j \in Kind : j \in Rest(q, n) \/ j = q[n] \/ Exact(u, j)
              /\ Current(u) = new \/ "offlot" \notin Rest(q, n)
              /\ follows => OnCourse(x, u, new, Rest(q, n))
              /\ BuffTuning => NoLeak(x, u, new, Rest(q, n))
          BY <4>2, <5>1, CalledOnTheWay
        <5> QED
          BY <5>2 DEF k
    <3> USE DEF w
    <3>5. u.lag = 0 /\ Good(u)
      BY <2>1, <3>4 DEF Keeps
    <3> HIDE DEF k
    <3>6. /\ Good(w) /\ SameSelf(u, w) /\ Current(w) = Current(u) /\ w.lag = 0
          /\ \A j \in Kind : Kept(u, w, j)
          /\ \A j \in Kind : Exact(u, j) => Exact(w, j)
          /\ Exact(w, k)
      BY <2>2, <3>5, RefreshIs
    <3> HIDE DEF w
    <3>7. Underway(x, w, new, follows, q, n)
      BY <2>2, <3>4, <3>6, QueuedOnTheWay
    <3> QED
      BY <2>3, <3>6, <3>7 DEF d, Good, Sound, k
  <2>7. CASE ~crossed
    <3>1. u = t
      BY <2>7
    <3>2. follows /\ x.phase = "regular" =>
             /\ k = "up" => ~(x.state < FindState(new))
             /\ k = "down" => ~(x.state > FindState(new))
             /\ k = "exit" => ~(new > DistressThreshold /\ x.distressBuff)
      BY <1>1, <2>2, <2>4, <2>7, NotCrossed DEF Phased
    <3> HIDE DEF u, crossed
    <3>3. Lasting(x, t) /\ Good(t)
      BY <2>1 DEF Underway, Lasting
    <3>4. /\ \A j \in Kind : j \in Rest(q, n) \/ j = k \/ Exact(t, j)
          /\ Current(t) = new \/ "offlot" \notin Rest(q, n)
          /\ BuffTuning => NoLeak(x, t, new, Rest(q, n))
      BY <2>1, <2>2 DEF Underway, NoLeak
    <3>5. follows => OnCourse(x, t, new, Rest(q, n))
      <4> SUFFICES ASSUME follows, t.phase = "regular" PROVE OnCourse(x, t, new, Rest(q, n))
        BY DEF OnCourse
      <4>1. x.phase = "regular"
        BY <3>3 DEF Lasting
      <4>2. OnCourse(x, t, new, Rest(q, n) \cup {k})
        BY <2>1, <2>2 DEF Underway
      <4> HIDE DEF k
      <4> QED
        BY <3>2, <4>1, <4>2 DEF OnCourse
    <3> HIDE DEF k
    <3>6. /\ Good(w) /\ SameSelf(u, w) /\ Current(w) = Current(u) /\ w.lag = 0
          /\ \A j \in Kind : Kept(u, w, j)
          /\ \A j \in Kind : Exact(u, j) => Exact(w, j)
          /\ Exact(w, k)
      BY <2>1, <2>2, <3>1, <3>3, RefreshIs
    <3> HIDE DEF w
    <3>7. Underway(x, w, new, follows, q, n)
      BY <2>2, <3>1, <3>3, <3>4, <3>5, <3>6, QueuedOnTheWay
    <3> QED
      BY <2>3, <3>6, <3>7 DEF d, Good, Sound, k
  <2> QED
    BY <2>6, <2>7
<1> HIDE DEF d
<1>8. Through(f, x, q) \in D[Len(q)]
  <2>1. x \in D[0]
    BY <1>4, <1>6
  <2>2. \A n \in 1 .. Len(q) : \A t \in D[n - 1] : f[q[n]][t] \in D[n]
    <3>1. \A n \in 1 .. Len(q) : n \in 0 .. Len(q) /\ n - 1 \in 0 .. Len(q)
      BY <1>4
    <3> QED
      BY <1>4, <1>7, <3>1
  <2> QED
    BY <1>4, <2>1, <2>2, ThroughKeeps
<1> DEFINE r == Through(f, x, q)
<1>9. r.lag = 0 /\ Underway(x, r, new, follows, q, Len(q))
  <2>1. r \in d(Len(q))
    BY <1>4, <1>8
  <2> QED
    BY <2>1 DEF d
<1> HIDE DEF r
<1>10. Lasting(x, r) /\ (\A k \in Kind : Exact(r, k)) /\ (follows => Follows(r)) /\ Leakless(x, r)
  BY <1>2, <1>9, Arrived
<1> QED
  BY <1>3, <1>9, <1>10 DEF r

-----------------------------------------------------------------------------
(***************************************************************************)
(* A value is assigned.                                                    *)
(***************************************************************************)

\* What a handler leaves behind that brought everything up to date.
UpToDate(t) == Tight(t) /\ t.lag = 0 /\ \A k \in Kind : Exact(t, k)

\* The queue is put in order, and the alarm is set.
LEMMA PutInOrder ==
    ASSUME NEW x, NEW r, Lasting(x, r), r.lag = 0, \A k \in Kind : Exact(r, k), NEW call
    PROVE  LET t == UpdateActive(call, Sorted(r)) IN
           Lasting(x, t) /\ UpToDate(t) /\ (Follows(r) => Follows(t)) /\ t.leaked = r.leaked
<1> DEFINE w == Sorted(r)
           t == UpdateActive(call, w)
<1>1. Good(r) /\ Sound(r)
  BY DEF Lasting, Good
<1>2. /\ Sound(w) /\ Ordered(w)
      /\ \A k \in Kind : Registered(w, k) <=> Registered(r, k)
      /\ w.trigger = r.trigger /\ w.data = r.data
      /\ SameValue(r, w) /\ SameSelf(r, w)
      /\ \A k \in Kind : Exact(w, k)
  BY <1>1, SortedKeeps
<1> HIDE DEF w
<1>3. Good(w)
  BY <1>2 DEF Good, Exact, Calm
<1>4. /\ Tight(t) /\ Good(t)
      /\ SameValue(w, t) /\ SameQueue(w, t) /\ SameSelf(w, t)
  BY <1>2, <1>3, UpdateActiveStep DEF Step
<1> HIDE DEF t
<1>5. \A k : Registered(t, k) <=> Registered(w, k)
  BY <1>4 DEF SameQueue, Registered
<1>6. \A k \in Kind : Exact(t, k)
  BY <1>2, <1>4, <1>5, SameExact DEF SameQueue
<1>7. \A k \in Kind : Kept(r, t, k)
  BY <1>2, <1>4, <1>5 DEF Kept, SameQueue
<1>8. /\ t.suppress = r.suppress /\ t.state = r.state /\ t.distressBuff = r.distressBuff
      /\ t.activatable = r.activatable /\ t.phase = r.phase
      /\ t.buff = r.buff /\ t.leaked = r.leaked
  BY <1>2, <1>4 DEF SameSelf
<1>9. Phased(t)
  BY <1>7, <1>8 DEF Lasting, Phased, Kept, Dressed, Fitting, StatePlaced, Kind
<1>10. Current(t) = Current(r) /\ t.lag = 0
  <2>1. Current(w) = Current(r) /\ w.lag = 0
    BY <1>2, SameCourse DEF SameValue
  <2> QED
    BY <1>4, <2>1, SameCourse DEF SameValue
<1>11. Lasting(x, t)
  BY <1>4, <1>8, <1>9 DEF Lasting
<1>12. Follows(r) => Follows(t)
  BY <1>8, <1>10 DEF Follows
<1> QED
  BY <1>4, <1>6, <1>8, <1>10, <1>11, <1>12 DEF UpToDate, t, w

\* A clamped value is in range.
LEMMA ClampIs ==
    ASSUME NEW v \in Int PROVE Clamp(v) \in Value
BY ValueAssumption DEF Clamp, Value

\* _update_callbacks, of a value that was assigned.
LEMMA AssignIs ==
    ASSUME NEW s, Good(s), Phased(s), s.lag = 0, NEW v \in Value,
           NEW follows \in BOOLEAN, follows => Follows(s),
           NEW call, CallOK(call, Kind \ {"offlot"}),
           Crossed(OffLotThreshold, s.value, v) => OffLotOK(call)
    PROVE  LET t == Assign(call, s, v) IN
           Lasting(s, t) /\ UpToDate(t) /\ (follows => Follows(t)) /\ Leakless(s, t)
<1> DEFINE x == [s EXCEPT !.value = v]
           t == Assign(call, s, v)
<1>1. s \in StatRecord /\ Sound(s) /\ s.value \in Value /\ Current(s) = s.value
  <2>1. s \in StatRecord /\ Sound(s)
    BY DEF Good, Sound
  <2> QED
    BY <2>1, Fields, StatRecordIsStat, NoLag DEF Current
<1>2. CASE s.value = v
  <2>1. x = s
    BY <1>1, <1>2 DEF StatRecord
  <2>2. t = RefreshCallbacks(call, s)
    BY <1>2, <2>1 DEF Assign, UpdateCallbacks
  <2> HIDE DEF t
  <2>3. /\ Good(t) /\ Tight(t) /\ \A k \in Kind : Exact(t, k)
        /\ \A k \in Kind : Kept(s, t, k)
        /\ t.lag = 0 /\ Current(t) = Current(s) /\ SameSelf(s, t)
    BY <1>1, <2>2, RefreshCallbacksIs
  <2>4. Phased(t)
    BY <2>3 DEF Phased, Kept, Dressed, Fitting, StatePlaced, SameSelf, Kind
  <2>5. Lasting(s, t)
    BY <2>3, <2>4 DEF Lasting, SameSelf
  <2>6. (follows => Follows(t)) /\ Leakless(s, t)
    BY <2>3 DEF Follows, SameSelf, Leakless
  <2> QED
    BY <2>3, <2>5, <2>6 DEF UpToDate, t
<1>3. CASE s.value # v
  <2>1. /\ x \in StatRecord /\ x.value = v /\ x.lag = 0 /\ SameQueue(s, x) /\ SameSelf(s, x)
        /\ s.lag \in Nat
    BY <1>1 DEF StatRecord, SameQueue, SameSelf
  <2>2. UpdateValue(x) = x
    BY <2>1 DEF UpdateValue
  <2> DEFINE r == CallCrossed(call, x, s.value, v)
  <2>3. t = UpdateActive(call, Sorted(r))
    BY <1>3, <2>2 DEF Assign, UpdateCallbacks
  <2> HIDE DEF t, x
  <2>4. \A k : Registered(x, k) <=> Registered(s, k)
    BY <2>1 DEF SameQueue, Registered
  <2>5. Good(x)
    BY <1>1, <2>1, <2>4 DEF Good, Sound, Calm, SameQueue, SameSelf
  <2>6. Phased(x)
    BY <2>1, <2>4 DEF Phased, Dressed, Fitting, StatePlaced, SameQueue, SameSelf
  <2>7. follows /\ x.phase = "regular" => x.state = FindState(s.value)
                                          /\ (x.distressBuff => s.value <= DistressThreshold)
    BY <1>1, <2>1 DEF Follows, SameSelf
  <2>8. Lasting(x, r) /\ r.lag = 0 /\ (\A k \in Kind : Exact(r, k)) /\ (follows => Follows(r))
        /\ Leakless(x, r)
    BY <1>1, <2>1, <2>5, <2>6, <2>7, CallCrossedIs
  <2> HIDE DEF r
  <2>9. Lasting(x, t) /\ UpToDate(t) /\ (Follows(r) => Follows(t)) /\ t.leaked = r.leaked
    BY <2>3, <2>8, PutInOrder
  <2>10. Lasting(s, t) /\ Leakless(s, t)
    BY <2>1, <2>8, <2>9 DEF Lasting, SameSelf, Leakless
  <2> QED
    BY <2>8, <2>9, <2>10 DEF t
<1> QED
  BY <1>2, <1>3

\* set_value
LEMMA SetValueIs ==
    ASSUME NEW s, Good(s), Phased(s), NEW v \in Int,
           NEW follows \in BOOLEAN, follows => Follows(s),
           NEW call, CallOK(call, Kind \ {"offlot"}),
           Crossed(OffLotThreshold, Current(s), Clamp(v)) => OffLotOK(call)
    PROVE  LET t == SetValue(call, s, v) IN
           /\ Keeps(s, t) /\ Tight(t) /\ (\A k \in Kind : Exact(t, k)) /\ (follows => Follows(t))
           /\ Leakless(s, t)
<1> DEFINE u == UpdateValue(s)
           y == Assign(call, u, Clamp(v))
           t == ActivateConvergence(call, y)
<1>1. /\ Step(s, u, {}) /\ u.lag = 0 /\ SameQueue(s, u) /\ SameSelf(s, u)
  BY UpdateValueStep
<1>2. Good(u) /\ Current(u) = Current(s)
  BY <1>1 DEF Step
<1>3. u.value = Current(s)
  BY Reading DEF Good, Sound
<1> HIDE DEF u
<1>4. \A k : Registered(u, k) <=> Registered(s, k)
  BY <1>1 DEF SameQueue, Registered
<1>5. Phased(u)
  BY <1>1, <1>4 DEF Phased, Dressed, Fitting, StatePlaced, SameQueue, SameSelf
<1>6. follows => Follows(u)
  BY <1>1, <1>2 DEF Follows, SameSelf
<1>7. Lasting(u, y) /\ UpToDate(y) /\ (follows => Follows(y)) /\ Leakless(u, y)
  BY <1>1, <1>2, <1>3, <1>5, <1>6, ClampIs, AssignIs
<1> HIDE DEF y
<1>8. Good(y) /\ Phased(y) /\ (y.activatable => ~Registered(y, "converge"))
  BY <1>7 DEF Lasting, Phased
<1>9. Step(y, t, {"converge", "activatable"}) /\ t.activatable = FALSE
  BY <1>8, ActivateConvergenceStep
<1>10. t = SetValue(call, s, v)
  BY DEF SetValue, u, y
<1> HIDE DEF t
<1>11. /\ Good(t) /\ t.suppress = y.suppress /\ t.state = y.state /\ t.phase = y.phase
       /\ t.distressBuff = y.distressBuff /\ Current(t) = Current(y) /\ Tight(t) /\ t.lag = 0
       /\ t.buff = y.buff /\ t.leaked = y.leaked
       /\ \A k \in {"up", "down", "buff", "distress", "exit", "failure", "offlot"} : Kept(y, t, k)
       /\ \A k \in Kind : Exact(t, k)
  BY <1>7, <1>9, Kinds DEF Step, UpToDate, Fresh
<1>12. Phased(t)
  BY <1>8, <1>9, <1>11 DEF Phased, Dressed, Fitting, StatePlaced, Kept
<1>13. Keeps(s, t)
  BY <1>1, <1>7, <1>11, <1>12 DEF Keeps, Lasting, SameSelf, Fresh
<1>14. (follows => Follows(t)) /\ Leakless(s, t)
  BY <1>1, <1>7, <1>11 DEF Follows, Leakless, SameSelf
<1> QED
  BY <1>10, <1>11, <1>13, <1>14

\* The callback of an object simulated off the lot: a value assigned by it
\* calls it again at most once.
LEMMA OffLotHandler ==
    ASSUME NEW s \in StatRecord, Callable(s, "offlot"),
           NEW call, CallOK(call, Kind \ {"offlot"}),
           Compare(OffLotThreshold, Current(s)) \/ OffLotOK(call)
    PROVE  Keeps(s, Handle(call, s, "offlot")) /\ Does(s, Handle(call, s, "offlot"), "offlot")
<1>1. Good(s) /\ Phased(s)
  BY DEF Callable
<1> DEFINE v == UpdateValue(s).value + OffLotValue
<1>2. v \in Int
  <2>1. UpdateValue(s).value \in Value
    BY Reading, Fields
  <2> QED
    BY <2>1, ValueAssumption, CommodityAssumption DEF Value
<1>3. Crossed(OffLotThreshold, Current(s), Clamp(v)) => OffLotOK(call)
  BY DEF Crossed
<1>4. Handle(call, s, "offlot") = SetValue(call, s, v)
  BY DEF Handle
<1> HIDE DEF v
<1>5. Keeps(s, SetValue(call, s, v)) /\ Leakless(s, SetValue(call, s, v))
  <2> DEFINE follows == FALSE
  <2>1. follows \in BOOLEAN /\ (follows => Follows(s))
    OBVIOUS
  <2> HIDE DEF follows
  <2> QED
    BY <1>1, <1>2, <1>3, <2>1, SetValueIs
<1> QED
  BY <1>4, <1>5 DEF Does, Leakless

\* The callback of offlot at a value it waited for, three levels up.
LEMMA OffLotCalls ==
    ASSUME NEW n \in 3 .. MaxNested PROVE OffLotOK(Nested[n])
<1>1. n \in 1 .. MaxNested /\ n - 1 \in 2 .. MaxNested
  BY CommodityAssumption
<1>2. CallOK(Nested[n - 1], Kind \ {"offlot"})
  BY <1>1, PlainCalls
<1>3. ASSUME NEW s \in StatRecord, Callable(s, "offlot"), Compare(OffLotThreshold, Current(s))
      PROVE  Keeps(s, Nested[n]["offlot"][s]) /\ Does(s, Nested[n]["offlot"][s], "offlot")
  <2>1. Nested[n]["offlot"][s] = Handle(Nested[n - 1], s, "offlot")
    BY <1>1, NestedCall, Kinds
  <2> QED
    BY <1>2, <1>3, <2>1, OffLotHandler
<1> QED
  BY <1>3 DEF OffLotOK

\* Every callback is as it should be, at the depth the commodity is run with.
LEMMA CallsAreOK ==
    CallOK(Calls, Kind) /\ OffLotOK(Calls)
<1>1. MaxNested \in 1 .. MaxNested /\ MaxNested \in 2 .. MaxNested /\ MaxNested \in 3 .. MaxNested
      /\ MaxNested - 1 \in 2 .. MaxNested /\ MaxNested - 1 \in 3 .. MaxNested
  BY CommodityAssumption
<1>2. CallOK(Calls, Kind \ {"offlot"}) /\ OffLotOK(Calls)
  BY <1>1, PlainCalls, OffLotCalls DEF Calls
<1>3. CallOK(Nested[MaxNested - 1], Kind \ {"offlot"}) /\ OffLotOK(Nested[MaxNested - 1])
  BY <1>1, PlainCalls, OffLotCalls
<1>4. ASSUME NEW s \in StatRecord, Callable(s, "offlot")
      PROVE  Keeps(s, Calls["offlot"][s]) /\ Does(s, Calls["offlot"][s], "offlot")
  <2>1. Calls["offlot"][s] = Handle(Nested[MaxNested - 1], s, "offlot")
    BY <1>1, NestedCall, Kinds DEF Calls
  <2>2. /\ Keeps(s, Handle(Nested[MaxNested - 1], s, "offlot"))
        /\ Does(s, Handle(Nested[MaxNested - 1], s, "offlot"), "offlot")
    BY <1>3, <1>4, OffLotHandler
  <2> QED
    BY <2>1, <2>2
<1> QED
  BY <1>2, <1>4 DEF CallOK

-----------------------------------------------------------------------------
(***************************************************************************)
(* The alarm.                                                              *)
(***************************************************************************)

\* _trigger_callback, after the call.
LEMMA RequeueIs ==
    ASSUME NEW u, Good(u), NEW k \in Kind, NEW datum, Exact(u, k) \/ u.data[k] = datum, NEW call
    PROVE  LET w == Requeue(call, u, k, datum) IN
           /\ Good(w) /\ SameSelf(u, w) /\ Current(w) = Current(u)
           /\ \A j \in Kind : Kept(u, w, j)
           /\ \A j \in Kind : Exact(u, j) => Exact(w, j)
           /\ Exact(w, k)
           /\ u.suppress /\ Ordered(u) => Ordered(w)
<1> DEFINE w == Requeue(call, u, k, datum)
<1>1. CASE ~(Registered(u, k) /\ u.data[k] = datum)
  <2>1. w = u
    BY <1>1 DEF Requeue
  <2> HIDE DEF w
  <2>2. Exact(u, k)
    BY <1>1 DEF Exact
  <2> QED
    BY <2>1, <2>2 DEF w, SameSelf, Kept
<1>2. CASE Registered(u, k) /\ u.data[k] = datum
  <2> DEFINE r == RemoveCallback(call, u, k)
  <2>1. w = InsertCallback(r, k)
    BY <1>2 DEF Requeue
  <2>2. u.data[k] # NoData /\ (k \in {"up", "down"} => u.state # None)
    BY <1>2 DEF Good, Sound
  <2>3. /\ Step(u, r, {k}) /\ ~Registered(r, k) /\ r.data = u.data
        /\ SameValue(u, r) /\ SameSelf(u, r)
    BY RemoveCallbackStep
  <2> HIDE DEF r, w
  <2>4. /\ Good(r) /\ Current(r) = Current(u) /\ (\A j \in Kind : Fresh(u, r, j))
        /\ (\A j \in Kind \ {k} : Kept(u, r, j)) /\ (u.suppress /\ Ordered(u) => Ordered(r))
    BY <2>3 DEF Step, Tight
  <2>5. r.data[k] # NoData /\ (k \in {"up", "down"} => r.state # None)
    BY <2>2, <2>3 DEF SameSelf
  <2>6. /\ Good(w) /\ Registered(w, k) /\ Exact(w, k) /\ OthersKept(r, w, k)
        /\ w.data = r.data /\ Current(w) = Current(r)
        /\ SameSelf(r, w) /\ (Ordered(r) => Ordered(w))
        /\ \A j \in Kind : Exact(r, j) => Exact(w, j)
    BY <2>1, <2>3, <2>4, <2>5, InsertCallbackIs
  <2>7. \A j \in Kind : Kept(u, w, j)
    BY <1>2, <2>3, <2>4, <2>6 DEF Kept, OthersKept
  <2>8. SameSelf(u, w)
    BY <2>3, <2>6 DEF SameSelf
  <2>9. \A j \in Kind : Exact(u, j) => Exact(w, j)
    BY <2>4, <2>6 DEF Fresh
  <2> QED
    BY <2>4, <2>6, <2>7, <2>8, <2>9 DEF w
<1> QED
  BY <1>1, <1>2

\* _alarm_callback, before it looks for the next: what is due is called.
LEMMA CallAllIs ==
    ASSUME NEW x, Good(x), Phased(x), x.suppress = TRUE, Ordered(x), NEW v \in Value, Current(x) = v,
           NEW q \in Seq(Kind), Once(q),
           \A k \in Kind : Contains(q, k) => Registered(x, k),
           \A k \in Kind : Registered(x, k) => Contains(q, k) \/ Exact(x, k),
           NEW follows \in BOOLEAN,
           follows /\ x.phase = "regular" =>
               /\ x.state < FindState(v) /\ Registered(x, "up") => Contains(q, "up")
               /\ x.state > FindState(v) /\ Registered(x, "down") => Contains(q, "down")
               /\ v > DistressThreshold /\ x.distressBuff /\ Registered(x, "exit") => Contains(q, "exit")
               /\ Contains(q, "distress") => v <= DistressThreshold,
           BuffTuning => \A k \in {"up", "down", "buff"} : Contains(q, k) => Compare(x.data[k], v)
    PROVE  LET t == CallAll(x, q) IN
           /\ Lasting(x, t) /\ Ordered(t) /\ (\A k \in Kind : Exact(t, k)) /\ (follows => Follows(t))
           /\ Leakless(x, t)
<1> DEFINE f == [k \in Kind |-> [t \in StatRecord |-> Trigger(Calls, t, k)]]
           d(n) == {t \in StatRecord : Ordered(t) /\ Underway(x, t, v, follows, q, n)}
           D == [n \in 0 .. Len(q) |-> d(n)]
<1>1. x \in StatRecord
  BY DEF Good, Sound
<1>2. CallAll(x, q) = Through(f, x, q)
  BY DEF CallAll
<1>3. Len(q) \in Nat /\ \A n \in 0 .. Len(q) : D[n] = d(n)
  OBVIOUS
<1>4. \A k \in Kind : \A t \in StatRecord : f[k][t] = Trigger(Calls, t, k)
  OBVIOUS
<1> HIDE DEF f, D
<1>5. x \in d(0)
  <2>1. Underway(x, x, v, follows, q, 0)
    BY SetOut
  <2> QED
    BY <1>1, <2>1
<1>6. ASSUME NEW n \in 1 .. Len(q), NEW t \in d(n - 1) PROVE f[q[n]][t] \in d(n)
  <2> DEFINE k == q[n]
             u == Calls[k][t]
             w == Requeue(Calls, u, k, t.data[k])
  <2>1. t \in StatRecord /\ Ordered(t) /\ Underway(x, t, v, follows, q, n - 1)
    BY <1>6
  <2>2. k \in Kind /\ Rest(q, n - 1) = Rest(q, n) \cup {k} /\ k \notin Rest(q, n) /\ Contains(q, k)
    BY RestIs DEF Contains
  <2>3. f[k][t] = w
    BY <1>4, <2>1, <2>2 DEF Trigger
  <2>4. Registered(x, k)
    BY <2>2
  <2> HIDE DEF d
  <2>5. Calling(x, t, v, follows, q, n, Calls)
    <3>1. CallOK(Calls, Kind) /\ CallOK(Calls, Kind \ {"offlot"})
      BY CallsAreOK DEF CallOK
    <3>2. Callable(t, "offlot") => Keeps(t, Calls["offlot"][t]) /\ Does(t, Calls["offlot"][t], "offlot")
      BY <2>1, <3>1, Kinds DEF CallOK
    <3>3. follows /\ x.phase = "regular" /\ q[n] = "distress" => v <= DistressThreshold
      BY <2>2
    <3>4. Registered(x, q[n])
      BY <2>4
    <3>5. BuffTuning /\ q[n] \in {"up", "down", "buff"} => Compare(x.data[q[n]], v)
      BY <2>2
    <3> QED
      BY <2>1, <3>1, <3>2, <3>3, <3>4, <3>5 DEF Calling
  <2>6. u = Calls[q[n]][t]
    OBVIOUS
  <2> HIDE DEF k, u, w
  <2>7. /\ Keeps(t, u) /\ Lasting(x, u)
        /\ \A j \in Kind : j \in Rest(q, n) \/ j = q[n] \/ Exact(u, j)
        /\ Current(u) = v \/ "offlot" \notin Rest(q, n)
        /\ follows => OnCourse(x, u, v, Rest(q, n))
        /\ BuffTuning => NoLeak(x, u, v, Rest(q, n))
    BY <2>5, <2>6, CalledOnTheWay
  <2>8. Good(u) /\ u.suppress = TRUE /\ t.suppress = TRUE
    BY <2>1, <2>7 DEF Lasting, Underway
  <2>9. Ordered(u) /\ (Exact(u, k) \/ u.data[k] = t.data[k])
    BY <2>1, <2>2, <2>7, <2>8 DEF Keeps, Tight, Fresh
  <2>10. /\ Good(w) /\ SameSelf(u, w) /\ Current(w) = Current(u)
         /\ \A j \in Kind : Kept(u, w, j)
         /\ \A j \in Kind : Exact(u, j) => Exact(w, j)
         /\ Exact(w, k)
         /\ u.suppress /\ Ordered(u) => Ordered(w)
    BY <2>2, <2>8, <2>9, RequeueIs DEF w
  <2>11. \A j \in Kind : j \in Rest(q, n) \/ j = k \/ Exact(u, j)
    BY <2>7 DEF k
  <2>12. Underway(x, w, v, follows, q, n)
    BY <2>2, <2>7, <2>10, <2>11, QueuedOnTheWay
  <2> QED
    BY <2>3, <2>8, <2>9, <2>10, <2>12 DEF d, Good, Sound, k
<1> HIDE DEF d
<1>7. Through(f, x, q) \in D[Len(q)]
  <2>1. x \in D[0]
    BY <1>3, <1>5
  <2>2. \A n \in 1 .. Len(q) : \A t \in D[n - 1] : f[q[n]][t] \in D[n]
    <3>1. \A n \in 1 .. Len(q) : n \in 0 .. Len(q) /\ n - 1 \in 0 .. Len(q)
      BY <1>3
    <3> QED
      BY <1>3, <1>6, <3>1
  <2> QED
    BY <1>3, <2>1, <2>2, ThroughKeeps
<1> DEFINE r == Through(f, x, q)
<1>8. Ordered(r) /\ Underway(x, r, v, follows, q, Len(q))
  <2>1. r \in d(Len(q))
    BY <1>3, <1>7
  <2> QED
    BY <2>1 DEF d
<1> HIDE DEF r
<1>9. Lasting(x, r) /\ (\A k \in Kind : Exact(r, k)) /\ (follows => Follows(r)) /\ Leakless(x, r)
  BY <1>8, Arrived
<1> QED
  BY <1>2, <1>8, <1>9 DEF r

-----------------------------------------------------------------------------
(***************************************************************************)
(* Between handlers.                                                       *)
(***************************************************************************)

\* k is due: the value has met its threshold. (A value that is read in steps
\* may pass a threshold it is to equal.)
Due(s, k) == s.trigger[k] = 0 /\ (s.data[k].cmp # "eq" => Compare(s.data[k], Current(s)))

\* What holds between handlers, also in the tick of an alarm.
Idle(s) ==
    /\ Sound(s) /\ ~s.suppress /\ Tight(s) /\ Phased(s)
    /\ \A k \in Kind : Registered(s, k) => Exact(s, k) \/ Due(s, k)

\* What the value has met by now is due now.
Unmet(s) ==
    s.phase = "regular" =>
        \A k \in {"up", "down"} \cup (IF s.distressBuff THEN {"exit"} ELSE {}) :
            Registered(s, k) /\ s.trigger[k] > 0 => ~Compare(s.data[k], Current(s))

\* What holds when no alarm is due, and so of the statistic a handler finds.
Ready(s) ==
    /\ Good(s) /\ ~s.suppress /\ Tight(s) /\ Phased(s)
    /\ \A k \in Kind : Exact(s, k)

\* A statistic that is ready is idle,
LEMMA ReadyIsIdle ==
    ASSUME NEW s, Ready(s) PROVE Idle(s)
<1>1. s.trigger \in [Kind -> Int]
  BY Fields DEF Ready, Good, Sound
<1> QED
  BY <1>1 DEF Ready, Idle, Good, Exact

\* and one that is idle and has no alarm due is ready.
LEMMA IdleIsReady ==
    ASSUME NEW s, Idle(s), s.alarm # 0 PROVE Ready(s)
<1>1. /\ s \in StatRecord /\ s.callbacks \in Seq(Kind) /\ s.trigger \in [Kind -> Int]
      /\ Sound(s) /\ AlarmSet(s) /\ Ordered(s)
  BY Fields DEF Idle, Tight, Sound
<1>2. ASSUME NEW k \in Kind, Registered(s, k) PROVE s.trigger[k] > 0
  <2>1. PICK i \in 1 .. Len(s.callbacks) : s.callbacks[i] = k
    BY <1>2 DEF Registered, Contains
  <2>2. s.callbacks # <<>>
    BY <1>1, <2>1
  <2>3. /\ Head(s.callbacks) \in Kind /\ Registered(s, Head(s.callbacks))
        /\ Len(s.callbacks) \in Nat \ {0} /\ Head(s.callbacks) = s.callbacks[1]
    BY <1>1, <2>2, HeadIsFirst
  <2>4. s.trigger[Head(s.callbacks)] # 0 /\ s.trigger[Head(s.callbacks)] >= 0
    BY <1>1, <2>2, <2>3, NeverIsLate DEF AlarmSet, Idle, Exact, Due
  <2>5. s.trigger[s.callbacks[1]] <= s.trigger[s.callbacks[i]]
    <3>1. i = 1 \/ 1 < i
      BY <2>1
    <3> QED
      BY <1>1, <2>1, <2>3, <3>1 DEF Ordered, Sorting
  <2> QED
    BY <1>1, <2>1, <2>3, <2>4, <2>5
<1>3. \A k \in Kind : Exact(s, k)
  BY <1>2 DEF Idle, Due, Exact
<1> QED
  BY <1>1, <1>2, <1>3 DEF Idle, Ready, Good, Calm

\* What a simulated commodity waits for, and the value it waits for it at.
LEMMA BoundsAre ==
    ASSUME NEW s, Sound(s), Phased(s), s.phase = "regular"
    PROVE  /\ s.state \in States /\ FindState(Current(s)) \in States
           /\ s.state \in Int /\ FindState(Current(s)) \in Int
           /\ s.state < FindState(Current(s)) => Registered(s, "up")
           /\ Registered(s, "up") =>
                 (Compare(s.data["up"], Current(s)) <=> s.state < FindState(Current(s)))
           /\ s.state > FindState(Current(s)) => Registered(s, "down")
           /\ Registered(s, "down") =>
                 (Compare(s.data["down"], Current(s)) <=> s.state > FindState(Current(s)))
           /\ s.distressBuff => Registered(s, "exit")
           /\ Registered(s, "exit") =>
                 (Compare(s.data["exit"], Current(s)) <=> ~(Current(s) <= DistressThreshold))
<1> DEFINE c == Current(s)
           F == FindState(c)
           i == s.state
<1>1. c \in Value /\ c \in Int /\ DistressThreshold \in Int
  <2>1. s \in StatRecord
    BY DEF Sound
  <2>2. c \in Value
    BY <2>1, Reading
  <2> HIDE DEF c
  <2> QED
    BY <2>2, ValueAssumption, CommodityAssumption DEF Value
<1> HIDE DEF c
<1>2. /\ i \in States /\ i \in Int /\ F \in States /\ F \in Int
      /\ StateBounds[F] <= c /\ (\A j \in States : StateBounds[j] <= c <=> j <= F)
      /\ \A j \in States : StateBounds[j] \in Int /\ MinValue <= StateBounds[j]
  <2>1. i \in States
    BY DEF Phased
  <2>2. F \in States /\ StateBounds[F] <= c /\ (\A j \in States : StateBounds[j] <= c <=> j <= F)
    BY <1>1, FindStateIs
  <2>3. \A j \in States : j \in Int /\ StateBounds[j] \in Int /\ MinValue <= StateBounds[j]
    BY StatesAre, ValueAssumption DEF Value
  <2> HIDE DEF F
  <2> QED
    BY <2>1, <2>2, <2>3
<1>3. StatePlaced(s) /\ (s.distressBuff => Registered(s, "exit"))
  BY DEF Phased
<1> HIDE DEF F, i
<1>4. i < F => Registered(s, "up")
  <2>1. i < F => i + 1 \in States
    BY <1>2, StatesAre
  <2> QED
    BY <1>3, <2>1 DEF StatePlaced, i
<1>5. ASSUME Registered(s, "up") PROVE Compare(s.data["up"], c) <=> i < F
  <2>1. i + 1 \in States /\ s.data["up"] = UpDatum(i)
    BY <1>3, <1>5 DEF StatePlaced, i
  <2>2. Compare(s.data["up"], c) <=> StateBounds[i + 1] <= c
    BY <1>1, <1>2, <2>1 DEF UpDatum, Compare
  <2> QED
    BY <1>2, <2>1, <2>2
<1>6. i > F => Registered(s, "down")
  <2>1. i > F => StateBounds[F] < StateBounds[i]
    BY <1>2, CommodityAssumption
  <2>2. MinValue \in Int
    BY ValueAssumption
  <2>3. i > F => StateBounds[i] > MinValue
    BY <1>2, <2>1, <2>2
  <2> QED
    BY <1>3, <2>3 DEF StatePlaced, i
<1>7. ASSUME Registered(s, "down") PROVE Compare(s.data["down"], c) <=> i > F
  <2>1. s.data["down"] = DownDatum(i)
    BY <1>3, <1>7 DEF StatePlaced, i
  <2>2. Compare(s.data["down"], c) <=> ~(StateBounds[i] <= c)
    BY <1>1, <1>2, <2>1 DEF DownDatum, Compare
  <2> QED
    BY <1>2, <2>2
<1>8. ASSUME Registered(s, "exit") PROVE Compare(s.data["exit"], c) <=> ~(c <= DistressThreshold)
  <2>1. s.data["exit"] = ExitDatum
    BY <1>8, Kinds DEF Sound
  <2> QED
    BY <1>1, <2>1 DEF ExitDatum, Compare
<1> QED
  BY <1>2, <1>3, <1>4, <1>5, <1>6, <1>7, <1>8 DEF c, F, i

\* A value that the state follows has met none of its bounds,
LEMMA FollowsIsUnmet ==
    ASSUME NEW s, Sound(s), Phased(s), Follows(s) PROVE Unmet(s)
<1> SUFFICES ASSUME s.phase = "regular", NEW k \in {"up", "down"} \cup (IF s.distressBuff THEN {"exit"} ELSE {}),
                    Registered(s, k)
             PROVE  ~Compare(s.data[k], Current(s))
  BY DEF Unmet
<1>1. s.state = FindState(Current(s)) /\ (s.distressBuff => Current(s) <= DistressThreshold)
  BY DEF Follows
<1>2. k \in {"up", "down"} \/ (k = "exit" /\ s.distressBuff)
  OBVIOUS
<1> QED
  BY <1>1, <1>2, BoundsAre

\* and the state follows a value that has met none of its bounds.
LEMMA UnmetFollows ==
    ASSUME NEW s, Ready(s), Unmet(s) PROVE Follows(s)
<1> SUFFICES ASSUME s.phase = "regular"
             PROVE  s.state = FindState(Current(s)) /\ (s.distressBuff => Current(s) <= DistressThreshold)
  BY DEF Follows
<1>1. Sound(s) /\ Phased(s) /\ \A k \in Kind : Registered(s, k) => s.trigger[k] > 0
  BY DEF Ready, Good, Exact
<1>2. /\ Registered(s, "up") => ~Compare(s.data["up"], Current(s))
      /\ Registered(s, "down") => ~Compare(s.data["down"], Current(s))
      /\ s.distressBuff /\ Registered(s, "exit") => ~Compare(s.data["exit"], Current(s))
  BY <1>1, Kinds DEF Unmet
<1> QED
  BY <1>1, <1>2, BoundsAre

\* A callback that is due is called at a value that meets its threshold.
LEMMA DueIsMet ==
    ASSUME NEW s \in StatRecord, NEW k \in Kind, s.data[k] \in Threshold(Value),
           s.data[k].cmp # "eq", Right(s, k), s.trigger[k] = 0
    PROVE  Compare(s.data[k], Current(s))
<1> DEFINE th == s.data[k]
           T == TriggerTime(s, th)
<1>1. IsStat(s) /\ s.lag \in Nat
  BY StatRecordIsStat, Fields
<1>2. T \in 1 .. Never
  BY <1>1, TriggerTimeRange
<1>3. T # Never /\ T = s.lag
  BY <1>1, <1>2, NeverIsLate DEF Right
<1>4. After(s, s.lag) = s
  BY DEF After, StatRecord
<1> HIDE DEF th
<1>5. CASE Compare(th, s.value)
  <2>1. T = Never
    BY <1>5 DEF TriggerTime, UnitsUntil
  <2> QED
    BY <1>3, <2>1
<1>6. CASE ~Compare(th, s.value)
  <2>1. th \in Threshold(Value) /\ th.cmp # "eq"
    BY DEF th
  <2>2. Compare(th, DecayedValue(After(s, s.lag))) <=> T # Never /\ T <= s.lag
    BY <1>1, <1>6, <2>1, MetFromTriggerTimeOn
  <2> QED
    BY <1>1, <1>3, <1>4, <2>2 DEF Current, th
<1> QED
  BY <1>5, <1>6

\* A trigger time depends on the course of the value only, not on the lag.
LEMMA CourseOnly ==
    ASSUME NEW s, NEW t, t.value = s.value, t.decay = s.decay, t.convergence = s.convergence
    PROVE  \A th : TriggerTime(t, th) = TriggerTime(s, th)
<1>1. Rate(t) = Rate(s)
  BY DEF Rate
<1> QED
  BY <1>1 DEF TriggerTime, UnitsUntil

\* A unit of time.
Ticked(s) ==
    [s EXCEPT !.leaked = FALSE, !.lag = IF @ = LagBound THEN @ ELSE @ + 1, !.alarm = Later(@),
              !.trigger = [k \in Kind |-> Later(@[k])]]

\* What is as it was, but for what was noted of the last handler.
Forgets(s, t) ==
    /\ t.suppress = s.suppress /\ t.state = s.state /\ t.distressBuff = s.distressBuff
    /\ t.activatable = s.activatable /\ t.phase = s.phase /\ t.tooDeep = s.tooDeep
    /\ t.buff = s.buff /\ ~t.leaked

\* The record a unit of time later.
LEMMA TickedIs ==
    ASSUME NEW s \in StatRecord, \A k \in Kind : s.trigger[k] <= Never
    PROVE  LET t == Ticked(s) IN
           /\ t \in StatRecord
           /\ t.value = s.value /\ t.decay = s.decay /\ t.convergence = s.convergence
           /\ t.lag = (IF s.lag = LagBound THEN s.lag ELSE s.lag + 1)
           /\ t.callbacks = s.callbacks /\ t.data = s.data /\ Forgets(s, t)
           /\ t.alarm = Later(s.alarm) /\ t.active = s.active
           /\ \A k \in Kind : t.trigger[k] = Later(s.trigger[k]) /\ t.trigger[k] <= Never
<1> DEFINE trig == [k \in Kind |-> Later(s.trigger[k])]
           n == IF s.lag = LagBound THEN s.lag ELSE s.lag + 1
           a == Later(s.alarm)
           t == Ticked(s)
<1>1. /\ s.trigger \in [Kind -> Int] /\ s.lag \in Nat /\ s.alarm \in Int
  BY Fields
<1>2. trig \in [Kind -> Int] /\ (\A k \in Kind : trig[k] = Later(s.trigger[k]) /\ trig[k] <= Never)
  BY <1>1, NeverIsLate DEF Later
<1>3. n \in Nat /\ a \in Int
  BY <1>1 DEF Later
<1>4. t = [s EXCEPT !.leaked = FALSE, !.lag = n, !.alarm = a, !.trigger = trig]
  BY DEF Ticked, StatRecord
<1> HIDE DEF t, n, a, trig
<1>5. /\ t \in StatRecord
      /\ t.value = s.value /\ t.decay = s.decay /\ t.convergence = s.convergence
      /\ t.lag = n /\ t.callbacks = s.callbacks /\ t.data = s.data /\ Forgets(s, t)
      /\ t.alarm = a /\ t.active = s.active /\ t.trigger = trig
  BY <1>2, <1>3, <1>4 DEF StatRecord, Forgets
<1> QED
  BY <1>2, <1>5 DEF t, n, a

\* Time brings the trigger times nearer, and the thresholds the value has not met.
LEMMA TickIs ==
    ASSUME NEW s, Ready(s)
    PROVE  Idle(Ticked(s)) /\ (Unmet(s) => Unmet(Ticked(s))) /\ ~Ticked(s).leaked
<1> DEFINE t == Ticked(s)
<1>1. /\ s \in StatRecord /\ Sound(s) /\ s.trigger \in [Kind -> Int] /\ s.lag \in Nat
      /\ s.callbacks \in Seq(Kind) /\ \A k \in Kind : s.trigger[k] <= Never
  BY Fields DEF Ready, Good, Sound
<1>2. /\ t \in StatRecord
      /\ t.value = s.value /\ t.decay = s.decay /\ t.convergence = s.convergence
      /\ t.lag = (IF s.lag = LagBound THEN s.lag ELSE s.lag + 1)
      /\ t.callbacks = s.callbacks /\ t.data = s.data /\ Forgets(s, t)
      /\ t.alarm = Later(s.alarm) /\ t.active = s.active
      /\ \A k \in Kind : t.trigger[k] = Later(s.trigger[k]) /\ t.trigger[k] <= Never
  BY <1>1, TickedIs
<1> HIDE DEF t
<1>3. \A k : Registered(t, k) <=> Registered(s, k)
  BY <1>2 DEF Registered
<1>4. Sound(t)
  BY <1>1, <1>2, <1>3 DEF Sound, Forgets
<1>5. ~t.suppress /\ ~s.suppress
  BY <1>2 DEF Ready, Forgets
<1>6. Phased(t)
  BY <1>2, <1>3 DEF Ready, Phased, Dressed, Fitting, StatePlaced, Forgets
<1>7. ASSUME NEW k \in Kind, Registered(s, k)
      PROVE  /\ s.trigger[k] > 0 /\ t.trigger[k] >= 0 /\ Right(t, k)
             /\ s.data[k] \in Threshold(Value)
             /\ TriggerTime(s, s.data[k]) = Never \/ s.lag < TriggerTime(s, s.data[k])
             /\ s.trigger[k] = IF TriggerTime(s, s.data[k]) = Never THEN Never
                               ELSE TriggerTime(s, s.data[k]) - s.lag
             /\ t.trigger[k] = IF s.trigger[k] = Never THEN Never ELSE s.trigger[k] - 1
             /\ s.trigger[k] # Never => t.lag = s.lag + 1
  <2> DEFINE T == TriggerTime(s, s.data[k])
  <2>1. s.data[k] \in Threshold(Value)
    BY <1>1, <1>7, Fields DEF Sound
  <2>2. T \in 1 .. Never /\ Never = LagBound + 1 /\ Never \in Nat /\ LagBound \in Int
    BY <1>1, <2>1, StatRecordIsStat, TriggerTimeRange, NeverIsLate, ValueAssumption DEF Never, LagBound
  <2>3. s.trigger[k] \in Int /\ s.trigger[k] > 0 /\ s.trigger[k] = IF T = Never THEN Never ELSE T - s.lag
    BY <1>1, <1>7 DEF Ready, Exact, Right
  <2>4. TriggerTime(t, t.data[k]) = T
    BY <1>2, CourseOnly
  <2>5. t.trigger[k] = IF s.trigger[k] = Never THEN Never ELSE s.trigger[k] - 1
    BY <1>2, <2>3 DEF Later
  <2>6. T # Never => t.lag = s.lag + 1 /\ s.trigger[k] # Never /\ s.lag < T
    BY <1>1, <1>2, <2>2, <2>3
  <2> HIDE DEF T
  <2>7. Right(t, k)
    BY <1>1, <2>2, <2>3, <2>4, <2>5, <2>6 DEF Right
  <2> QED
    BY <2>1, <2>2, <2>3, <2>5, <2>6, <2>7 DEF T
<1>8. Ordered(t)
  <2> SUFFICES ASSUME NEW i \in 1 .. Len(s.callbacks), NEW j \in 1 .. Len(s.callbacks), i < j
               PROVE  t.trigger[s.callbacks[i]] <= t.trigger[s.callbacks[j]]
    BY <1>2 DEF Ordered, Sorting
  <2> DEFINE a == s.callbacks[i]
             b == s.callbacks[j]
  <2>1. a \in Kind /\ b \in Kind /\ Registered(s, a) /\ Registered(s, b)
    BY <1>1 DEF Registered, Contains
  <2>2. s.trigger[a] <= s.trigger[b]
    BY DEF Ready, Tight, Ordered, Sorting
  <2> HIDE DEF a, b
  <2>3. t.trigger[a] <= t.trigger[b]
    <3>1. \A k \in Kind : Registered(s, k) =>
             /\ s.trigger[k] \in Int /\ s.trigger[k] <= Never
             /\ t.trigger[k] = IF s.trigger[k] = Never THEN Never ELSE s.trigger[k] - 1
      BY <1>1, <1>7
    <3> DEFINE sa == s.trigger[a]
               sb == s.trigger[b]
    <3>2. /\ sa \in Int /\ sa <= Never /\ t.trigger[a] = IF sa = Never THEN Never ELSE sa - 1
          /\ sb \in Int /\ sb <= Never /\ t.trigger[b] = IF sb = Never THEN Never ELSE sb - 1
          /\ sa <= sb
      BY <2>1, <2>2, <3>1
    <3> HIDE DEF sa, sb
    <3> QED
      BY <3>2, NeverIsLate
  <2> QED
    BY <2>3 DEF a, b
<1>9. AlarmSet(t)
  <2>1. AlarmSet(s)
    BY <1>5 DEF Ready, Tight
  <2>2. CASE s.callbacks = <<>>
    <3>1. s.alarm = Never /\ s.active = "none"
      BY <2>1, <2>2 DEF AlarmSet
    <3>2. t.alarm = Never /\ t.active = "none" /\ t.callbacks = <<>>
      BY <1>2, <2>2, <3>1 DEF Later
    <3> QED
      BY <3>2 DEF AlarmSet
  <2>3. CASE s.callbacks # <<>>
    <3> DEFINE h == Head(s.callbacks)
    <3>1. h \in Kind /\ Registered(s, h)
      BY <1>1, <2>3, HeadIsFirst
    <3> HIDE DEF h
    <3>2. s.trigger[h] \in Int /\ s.trigger[h] > 0 /\ s.trigger[h] <= Never
          /\ t.trigger[h] = (IF s.trigger[h] = Never THEN Never ELSE s.trigger[h] - 1)
      BY <1>1, <1>7, <3>1
    <3>3. CASE s.trigger[h] = Never
      BY <1>2, <2>1, <2>3, <3>2, <3>3 DEF AlarmSet, Later, h
    <3>4. CASE s.trigger[h] # Never
      <4>1. s.alarm = s.trigger[h] /\ s.active = h
        BY <2>1, <2>3, <3>4 DEF AlarmSet, h
      <4>2. t.alarm = t.trigger[h] /\ t.active = h
        BY <1>2, <3>1, <4>1
      <4>3. t.trigger[h] # Never
        BY <3>2, <3>4, NeverIsLate
      <4> QED
        BY <1>2, <2>3, <4>2, <4>3 DEF AlarmSet, h
    <3> QED
      BY <3>3, <3>4
  <2> QED
    BY <2>2, <2>3
<1>10. ASSUME Unmet(s) PROVE Unmet(t)
  <2> SUFFICES ASSUME t.phase = "regular",
                      NEW k \in {"up", "down"} \cup (IF t.distressBuff THEN {"exit"} ELSE {}),
                      Registered(t, k), t.trigger[k] > 0, Compare(t.data[k], Current(t))
               PROVE  FALSE
    BY DEF Unmet
  <2> DEFINE th == s.data[k]
             u == UpdateValue(s)
  <2>1. /\ k \in Kind /\ k \in {"up", "down", "exit"}
        /\ k \in {"up", "down"} \cup (IF s.distressBuff THEN {"exit"} ELSE {})
        /\ Registered(s, k) /\ s.phase = "regular"
    BY <1>2, <1>3, Kinds DEF Forgets
  <2>2. ~Compare(th, Current(s))
    BY <1>7, <1>10, <2>1 DEF Unmet
  <2>3. /\ s.trigger[k] > 0 /\ th \in Threshold(Value)
        /\ TriggerTime(s, th) = Never \/ s.lag < TriggerTime(s, th)
        /\ s.trigger[k] = IF TriggerTime(s, th) = Never THEN Never ELSE TriggerTime(s, th) - s.lag
        /\ t.trigger[k] = IF s.trigger[k] = Never THEN Never ELSE s.trigger[k] - 1
        /\ s.trigger[k] \in Int
    BY <1>1, <1>7, <2>1
  <2>4. th.cmp # "eq"
    <3>1. CASE k = "up"
      BY <1>6, <2>1, <3>1, <1>2, <1>3 DEF Phased, StatePlaced, UpDatum
    <3>2. CASE k = "down"
      BY <1>6, <2>1, <3>2, <1>2, <1>3 DEF Phased, StatePlaced, DownDatum
    <3>3. CASE k = "exit"
      BY <1>1, <2>1, <3>3 DEF Sound, ExitDatum
    <3> QED
      BY <2>1, <3>1, <3>2, <3>3
  <2>5. Compare(th, Current(t))
    BY <1>2
  <2> HIDE DEF th
  <2>6. CASE t.lag = s.lag
    <3>1. Current(t) = Current(s)
      BY <1>2, <2>6, SameCourse DEF SameValue
    <3> QED
      BY <2>2, <2>5, <3>1
  <2>7. CASE t.lag = s.lag + 1
    <3>1. u \in StatRecord /\ u.value = Current(s)
      BY <1>1, Reading
    <3>2. TriggerTime(u, th) = s.trigger[k]
      BY <1>1, <2>3, StatRecordIsStat, ReadingKeepsTriggerTimes
    <3>3. DecayedValue(After(u, 1)) = DecayedValue(After(s, s.lag + 1))
      BY <1>1, StatRecordIsStat, ReadingChangesNothing
    <3>4. Current(t) = DecayedValue(After(s, s.lag + 1))
      <4> DEFINE w == After(s, s.lag + 1)
      <4>1. w.value = s.value /\ w.decay = s.decay /\ w.convergence = s.convergence /\ w.lag = s.lag + 1
        BY <1>1 DEF After, StatRecord
      <4> HIDE DEF w
      <4>2. Current(t) = Current(w)
        BY <1>2, <2>7, <4>1, SameCourse DEF SameValue
      <4> QED
        BY <4>2 DEF Current, w
    <3> HIDE DEF u
    <3>5. Compare(th, DecayedValue(After(u, 1))) <=> TriggerTime(u, th) # Never /\ TriggerTime(u, th) <= 1
      <4>1. ~Compare(th, u.value) /\ IsStat(u)
        BY <2>2, <3>1, StatRecordIsStat
      <4> QED
        BY <2>3, <2>4, <4>1, MetFromTriggerTimeOn
    <3> QED
      BY <2>3, <2>5, <3>2, <3>3, <3>4, <3>5
  <2> QED
    BY <1>2, <2>6, <2>7
<1>11. ASSUME NEW k \in Kind, Registered(t, k) PROVE Exact(t, k) \/ Due(t, k)
  <2>1. t.trigger[k] \in Int /\ t.trigger[k] >= 0 /\ Right(t, k) /\ t.data[k] \in Threshold(Value)
    BY <1>2, <1>3, <1>7, <1>11, Fields
  <2>2. CASE t.trigger[k] > 0
    BY <2>1, <2>2 DEF Exact
  <2>3. CASE t.trigger[k] = 0
    BY <1>2, <2>1, <2>3, DueIsMet DEF Due
  <2> QED
    BY <2>1, <2>2, <2>3
<1> QED
  BY <1>2, <1>3, <1>4, <1>5, <1>6, <1>8, <1>9, <1>10, <1>11 DEF Idle, Tight, Forgets, t

\* A reading leaves due what is due.
LEMMA ReadingIdle ==
    ASSUME NEW s, Idle(s)
    PROVE  LET t == UpdateValue([s EXCEPT !.leaked = FALSE]) IN
           Idle(t) /\ (Unmet(s) => Unmet(t)) /\ ~t.leaked
<1> DEFINE x == [s EXCEPT !.leaked = FALSE]
           t == UpdateValue(x)
<1>1. s \in StatRecord
  BY DEF Idle, Sound
<1>2. x \in StatRecord /\ SameValue(s, x) /\ SameQueue(s, x) /\ SameAlarm(s, x) /\ Forgets(s, x)
  BY <1>1 DEF StatRecord, SameValue, SameQueue, SameAlarm, Forgets
<1> HIDE DEF x
<1>3. \A k : Registered(x, k) <=> Registered(s, k)
  BY <1>2 DEF SameQueue, Registered
<1>4. Sound(x) /\ Current(x) = Current(s)
  BY <1>2, <1>3, SameCourse DEF Idle, Sound, SameQueue, Forgets
<1>5. /\ Sound(t) /\ Current(t) = Current(x)
      /\ SameQueue(x, t) /\ SameSelf(x, t) /\ SameAlarm(x, t)
  BY <1>4, ReadingIsSound
<1>6. ASSUME NEW k \in Kind, Registered(t, k) PROVE Exact(t, k) \/ Due(t, k)
  <2>1. Registered(s, k)
    BY <1>3, <1>5, <1>6 DEF SameQueue, Registered
  <2>2. CASE Exact(s, k)
    <3>1. Exact(x, k)
      BY <1>2, <1>3, <2>2, SameExact DEF SameQueue
    <3> QED
      BY <1>4, <3>1, ReadingKeepsExact
  <2>3. CASE Due(s, k)
    BY <1>2, <1>4, <1>5, <2>3 DEF Due, SameQueue
  <2> QED
    BY <2>1, <2>2, <2>3 DEF Idle
<1> HIDE DEF t
<1>7. \A k : Registered(t, k) <=> Registered(s, k)
  BY <1>3, <1>5 DEF SameQueue, Registered
<1>8. ~t.suppress /\ Tight(t)
  BY <1>2, <1>5 DEF Idle, Tight, Ordered, AlarmSet, SameQueue, SameAlarm, SameSelf, Forgets
<1>9. Phased(t)
  BY <1>2, <1>5, <1>7 DEF Idle, Phased, Dressed, Fitting, StatePlaced, SameQueue, SameSelf, Forgets
<1>10. Unmet(s) => Unmet(t)
  BY <1>2, <1>4, <1>5, <1>7 DEF Unmet, SameQueue, SameSelf, Forgets
<1> QED
  BY <1>2, <1>5, <1>6, <1>8, <1>9, <1>10 DEF Idle, SameSelf, Forgets, x, t

-----------------------------------------------------------------------------
(***************************************************************************)
(* What the rest of the simulation does, one handler after the other.      *)
(***************************************************************************)

\* A handler finds the statistic ready and leaves it ready, its state and
\* distress follow the value if they did, and no buff is left on the Sim.
Handles(s, t) == Ready(t) /\ (Follows(s) => Follows(t)) /\ Leakless(s, t)

\* A step leaves a statistic ready that was.
LEMMA StepReady ==
    ASSUME NEW s, NEW t, NEW m, Ready(s), Step(s, t, m), Phased(t)
    PROVE  Ready(t)
BY DEF Ready, Step, Fresh

\* So it is a handler, when it leaves the state and the distress alone.
LEMMA StepHandles ==
    ASSUME NEW s, NEW t, NEW m, Ready(s), Step(s, t, m), Phased(t),
           "state" \notin m, "distressBuff" \notin m, "phase" \notin m, "leak" \notin m
    PROVE  Handles(s, t)
<1>1. /\ t.state = s.state /\ t.distressBuff = s.distressBuff /\ t.phase = s.phase
      /\ t.leaked = s.leaked /\ Current(t) = Current(s)
  BY DEF Step
<1> QED
  BY <1>1, StepReady DEF Handles, Follows, Leakless

\* A handler may do one thing after another.
LEMMA HandlesTrans ==
    ASSUME NEW s, NEW t, NEW u, Handles(s, t), Handles(t, u) PROVE Handles(s, u)
BY DEF Handles, Leakless

\* What was noted of the last handler is gone.
LEMMA FoundIs ==
    ASSUME NEW s, Ready(s)
    PROVE  LET t == [s EXCEPT !.leaked = FALSE] IN
           Handles(s, t) /\ t.phase = s.phase /\ t.lag = s.lag /\ ~t.leaked
<1> DEFINE t == [s EXCEPT !.leaked = FALSE]
<1>1. s \in StatRecord /\ Good(s) /\ ~s.tooDeep /\ Phased(s) /\ Sound(s)
  BY DEF Ready, Good, Sound
<1>2. t \in StatRecord /\ SameValue(s, t) /\ SameQueue(s, t) /\ SameAlarm(s, t) /\ Forgets(s, t)
  BY <1>1 DEF StatRecord, SameValue, SameQueue, SameAlarm, Forgets
<1> HIDE DEF t
<1>3. Step(s, t, {"leak"})
  <2>1. Registered(s, "up") \/ Registered(s, "down") => t.state # None
    BY <1>1, <1>2 DEF Sound, Forgets
  <2>2. /\ t.suppress = s.suppress /\ t.state = s.state /\ t.distressBuff = s.distressBuff
        /\ t.activatable = s.activatable /\ t.phase = s.phase /\ t.buff = s.buff /\ ~t.tooDeep
    BY <1>1, <1>2 DEF Forgets
  <2> QED
    BY <1>1, <1>2, <2>1, <2>2, FieldStep
<1>4. Phased(t)
  BY <1>1, <1>3, StepPhased
<1>5. Ready(t) /\ (Follows(s) => Follows(t))
  BY <1>2, <1>3, <1>4, StepReady DEF Step, Follows, Forgets
<1> QED
  BY <1>2, <1>5 DEF Handles, Leakless, Forgets, SameValue, t

\* A commodity that is removed.
LEMMA RemoveHandles ==
    ASSUME NEW s, Ready(s), NEW call PROVE Handles(s, RemoveStatistic(call, s))
<1> DEFINE t == RemoveStatistic(call, s)
<1>1. CASE s.phase = "removed"
  <2>1. t = s
    BY <1>1 DEF RemoveStatistic
  <2> HIDE DEF t
  <2> QED
    BY <2>1 DEF Handles, Leakless, t
<1>2. CASE s.phase # "removed"
  <2>1. /\ Good(t) /\ Tight(t) /\ t.phase = "removed" /\ \A k \in Kind : ~Registered(t, k)
        /\ t.suppress = s.suppress /\ t.buff = None /\ t.leaked = s.leaked
    BY <1>2, RemoveStatisticIs DEF Ready
  <2> HIDE DEF t
  <2>2. Phased(t)
    BY <2>1, Kinds DEF Phased, Dressed, Fitting
  <2> QED
    BY <2>1, <2>2 DEF Ready, Handles, Exact, Follows, Leakless, t
<1> QED
  BY <1>1, <1>2

\* ChangeValue
LEMMA ChangeValueHandles ==
    ASSUME NEW s, Ready(s), NEW v \in Int PROVE Handles(s, CleanUp(SetValue(Calls, s, v)))
<1> DEFINE t == SetValue(Calls, s, v)
<1>1. Good(s) /\ Phased(s) /\ ~s.suppress
  BY DEF Ready
<1>2. CallOK(Calls, Kind \ {"offlot"}) /\ OffLotOK(Calls)
  BY CallsAreOK DEF CallOK
<1>3. \A follows \in BOOLEAN : (follows => Follows(s)) =>
         Keeps(s, t) /\ Tight(t) /\ (\A k \in Kind : Exact(t, k)) /\ (follows => Follows(t)) /\ Leakless(s, t)
  BY <1>1, <1>2, SetValueIs
<1> HIDE DEF t
<1>4. Keeps(s, t) /\ Tight(t) /\ (\A k \in Kind : Exact(t, k)) /\ (Follows(s) => Follows(t)) /\ Leakless(s, t)
  <2>1. CASE Follows(s)
    <3>1. (TRUE => Follows(s)) =>
             Keeps(s, t) /\ Tight(t) /\ (\A k \in Kind : Exact(t, k)) /\ (TRUE => Follows(t)) /\ Leakless(s, t)
      BY <1>3
    <3> QED
      BY <2>1, <3>1
  <2>2. CASE ~Follows(s)
    <3>1. (FALSE => Follows(s)) =>
             Keeps(s, t) /\ Tight(t) /\ (\A k \in Kind : Exact(t, k)) /\ (FALSE => Follows(t)) /\ Leakless(s, t)
      BY <1>3
    <3> QED
      BY <2>2, <3>1
  <2> QED
    BY <2>1, <2>2
<1>5. Ready(t)
  BY <1>1, <1>4 DEF Ready, Keeps
<1>6. Handles(s, t)
  BY <1>4, <1>5 DEF Handles
<1>7. Handles(t, RemoveStatistic(Calls, t))
  BY <1>5, RemoveHandles
<1>8. CleanUp(t) = t \/ CleanUp(t) = RemoveStatistic(Calls, t)
  BY DEF CleanUp
<1>9. Handles(s, CleanUp(t))
  BY <1>6, <1>7, <1>8, HandlesTrans
<1> QED
  BY <1>9 DEF t

\* ChangeDecay
LEMMA ChangeDecayHandles ==
    ASSUME NEW s, Ready(s), NEW enabled \in BOOLEAN PROVE Handles(s, SetDecay(Calls, s, enabled))
<1> DEFINE t == SetDecay(Calls, s, enabled)
<1>1. Step(s, t, {}) /\ Phased(s)
  BY SetDecayStep DEF Ready
<1> HIDE DEF t
<1>2. Phased(t)
  BY <1>1, StepPhased
<1>3. Handles(s, t)
  BY <1>1, <1>2, StepHandles
<1> QED
  BY <1>3 DEF t

\* What _update_callbacks leaves behind that called nothing.
LEMMA RefreshHandles ==
    ASSUME NEW s, NEW t, Phased(s), ~s.suppress, Good(t), Tight(t), \A k \in Kind : Exact(t, k),
           \A k \in Kind : Kept(s, t, k), SameSelf(s, t)
    PROVE  Ready(t)
<1>1. Phased(t)
  BY DEF Phased, Kept, Dressed, Fitting, StatePlaced, SameSelf, Kind
<1> QED
  BY <1>1 DEF Ready, SameSelf

\* ChangeConvergence: of a value that was not read, nothing is said.
LEMMA ChangeConvergenceHandles ==
    ASSUME NEW s, Ready(s), NEW v \in Value
    PROVE  /\ Ready(SetConvergence(Calls, s, v)) /\ Leakless(s, SetConvergence(Calls, s, v))
           /\ DecayedValue([s EXCEPT !.convergence = v]) = DecayedValue(s)
                 => Handles(s, SetConvergence(Calls, s, v))
<1> DEFINE x == [s EXCEPT !.convergence = v]
           t == SetConvergence(Calls, s, v)
<1>1. s \in StatRecord /\ Sound(s) /\ Phased(s) /\ ~s.suppress
  BY DEF Ready, Good, Sound
<1>2. /\ x \in StatRecord /\ x.value = s.value /\ x.lag = s.lag /\ SameQueue(s, x) /\ SameSelf(s, x)
  BY <1>1 DEF StatRecord, SameQueue, SameSelf
<1>3. t = RefreshCallbacks(Calls, x)
  BY DEF SetConvergence
<1>4. DecayedValue([s EXCEPT !.convergence = v]) = Current(x)
  BY DEF Current
<1> HIDE DEF t, x
<1>5. \A k : Registered(x, k) <=> Registered(s, k)
  BY <1>2 DEF SameQueue, Registered
<1>6. Sound(x) /\ Phased(x) /\ ~x.suppress
  BY <1>1, <1>2, <1>5 DEF Sound, Phased, Dressed, Fitting, StatePlaced, SameQueue, SameSelf
<1>7. /\ Good(t) /\ Tight(t) /\ \A k \in Kind : Exact(t, k)
      /\ \A k \in Kind : Kept(x, t, k)
      /\ t.lag = 0 /\ Current(t) = Current(x) /\ SameSelf(x, t)
  BY <1>3, <1>6, RefreshCallbacksIs
<1>8. Ready(t)
  BY <1>6, <1>7, RefreshHandles
<1>9. ASSUME Current(x) = Current(s), Follows(s) PROVE Follows(t)
  BY <1>2, <1>7, <1>9 DEF Follows, SameSelf
<1>10. Leakless(s, t)
  BY <1>2, <1>7 DEF Leakless, SameSelf
<1> QED
  BY <1>8, <1>9, <1>10, <1>4 DEF Handles, Current, t

\* ChangeModifiers
LEMMA ChangeModifiersHandles ==
    ASSUME NEW s, Ready(s)
    PROVE  Handles(s, ActivateConvergence(Calls, RefreshCallbacks(Calls, s)))
<1> DEFINE u == RefreshCallbacks(Calls, s)
           t == ActivateConvergence(Calls, u)
<1>1. Sound(s) /\ Phased(s) /\ ~s.suppress
  BY DEF Ready, Good
<1>2. /\ Good(u) /\ Tight(u) /\ \A k \in Kind : Exact(u, k)
      /\ \A k \in Kind : Kept(s, u, k)
      /\ u.lag = 0 /\ Current(u) = Current(s) /\ SameSelf(s, u)
  BY <1>1, RefreshCallbacksIs
<1> HIDE DEF u
<1>3. Ready(u) /\ Phased(u)
  BY <1>1, <1>2, RefreshHandles DEF Ready
<1>4. Handles(s, u)
  BY <1>2, <1>3 DEF Handles, Follows, Leakless, SameSelf
<1>5. Step(u, t, {"converge", "activatable"}) /\ t.activatable = FALSE
  BY <1>2, <1>3, ActivateConvergenceStep DEF Phased
<1> HIDE DEF t
<1>6. Phased(t)
  <2>1. /\ t.state = u.state /\ t.distressBuff = u.distressBuff /\ t.phase = u.phase
        /\ t.buff = u.buff
        /\ \A k \in {"up", "down", "buff", "distress", "exit", "failure", "offlot"} : Kept(u, t, k)
    BY <1>5, Kinds DEF Step
  <2> QED
    BY <1>3, <1>5, <2>1 DEF Phased, Dressed, Fitting, StatePlaced, Kept
<1>7. Handles(u, t)
  BY <1>3, <1>5, <1>6, StepHandles
<1>8. Handles(s, t)
  BY <1>4, <1>7, HandlesTrans
<1> QED
  BY <1>8 DEF t, u

\* GetValue
LEMMA GetValueHandles ==
    ASSUME NEW s, Ready(s) PROVE Handles(s, UpdateValue(s))
<1> DEFINE t == UpdateValue(s)
<1>1. Step(s, t, {}) /\ Phased(s)
  BY UpdateValueStep DEF Ready
<1> HIDE DEF t
<1>2. Phased(t)
  BY <1>1, StepPhased
<1>3. Handles(s, t)
  BY <1>1, <1>2, StepHandles
<1> QED
  BY <1>3 DEF t

\* ChangeDecayRate: the trigger times are those a new rate is asked for.
LEMMA ChangeDecayRateHandles ==
    ASSUME NEW s, Ready(s)
    PROVE  Handles(s, UpdateActive(Calls, RefreshAll(UpdateValue(s))))
<1> DEFINE u == UpdateValue(s)
           t == UpdateActive(Calls, u)
<1>1. Handles(s, u) /\ u.lag = 0
  BY GetValueHandles, UpdateValueStep DEF Ready
<1> HIDE DEF u
<1>2. Ready(u) /\ Good(u) /\ u \in StatRecord /\ u.trigger \in [Kind -> Int] /\ Phased(u)
  BY <1>1, Fields DEF Handles, Ready, Good, Sound
<1>3. RefreshAll(u) = u
  <2> DEFINE trig == [k \in Kind |-> IF Registered(u, k) THEN TriggerTime(u, u.data[k]) ELSE u.trigger[k]]
  <2>1. ASSUME NEW k \in Kind, Registered(u, k) PROVE TriggerTime(u, u.data[k]) = u.trigger[k]
    <3>1. TriggerTime(u, u.data[k]) \in Int
      BY <1>2, <2>1, ResetIsLater DEF Good, Sound
    <3> QED
      BY <1>1, <1>2, <2>1, <3>1 DEF Ready, Exact, Right
  <2>2. trig = u.trigger
    BY <1>2, <2>1
  <2>3. RefreshAll(u) = [u EXCEPT !.trigger = trig]
    BY <1>2 DEF RefreshAll, StatRecord
  <2> HIDE DEF trig
  <2> QED
    BY <1>2, <2>2, <2>3 DEF StatRecord
<1>4. Step(u, t, {})
  BY <1>2, UpdateActiveStep
<1> HIDE DEF t
<1>5. Phased(t)
  BY <1>2, <1>4, StepPhased
<1>6. Handles(s, t)
  BY <1>1, <1>2, <1>4, <1>5, StepHandles, HandlesTrans
<1> QED
  BY <1>3, <1>6 DEF t, u

\* on_initial_startup, of a commodity that is not simulated.
LEMMA StartupReady ==
    ASSUME NEW s, Ready(s), ~Registered(s, "distress"), ~Registered(s, "failure"),
           ~Registered(s, "offlot"), s.data["exit"] = NoData, ~s.distressBuff,
           s.phase # "removed", NEW activate, NEW call
    PROVE  LET t == OnInitialStartup(call, s, activate) IN
           Ready(t) /\ Follows(t) /\ t.leaked = s.leaked
<1> DEFINE t == OnInitialStartup(call, s, activate)
<1>1. Good(s) /\ Dressed(s) /\ (s.activatable => ~Registered(s, "converge"))
  BY DEF Ready, Phased
<1>2. /\ Step(s, t, StartFields) /\ t.phase = "regular"
      /\ t.state = FindState(Current(s)) /\ t.state \in States /\ StatePlaced(t)
      /\ Registered(t, "distress") /\ Registered(t, "failure")
      /\ Dressed(t) /\ (t.activatable => ~Registered(t, "converge"))
  BY <1>1, OnInitialStartupStep
<1> HIDE DEF t
<1>3. /\ ~Registered(t, "offlot") /\ t.data["exit"] = NoData /\ ~t.distressBuff
      /\ Current(t) = Current(s) /\ t.leaked = s.leaked
  BY <1>2, Kinds DEF Step, StartFields, Kept
<1>4. Phased(t)
  BY <1>2, <1>3 DEF Phased, Fitting, StatePlaced
<1>5. Ready(t)
  BY <1>2, <1>4, StepReady
<1>6. Follows(t)
  BY <1>2, <1>3 DEF Follows
<1> QED
  BY <1>3, <1>5, <1>6 DEF t

\* StartRegularSimulation
LEMMA StartRegularHandles ==
    ASSUME NEW s, Ready(s), s.phase \in {"stopped", "low"}
    PROVE  Handles(s, StartRegular(Calls, s))
<1> DEFINE u == StopLowLevel(Calls, s)
           t == OnInitialStartup(Calls, u, TRUE)
<1>1. Step(s, u, {"offlot"}) /\ ~Registered(u, "offlot") /\ Phased(s)
  BY StopLowLevelStep DEF Ready
<1> HIDE DEF u
<1>2. /\ u.state = s.state /\ u.distressBuff = s.distressBuff /\ u.activatable = s.activatable
      /\ u.phase = s.phase /\ u.buff = s.buff /\ u.leaked = s.leaked
      /\ \A k \in {"up", "down", "buff", "distress", "exit", "failure", "converge"} : Kept(s, u, k)
  BY <1>1, Kinds DEF Step
<1>3. Phased(u)
  BY <1>1, <1>2 DEF Phased, Dressed, Fitting, Kept
<1>4. Ready(u)
  BY <1>1, <1>3, StepReady
<1>5. ~Registered(u, "distress") /\ ~Registered(u, "failure") /\ u.data["exit"] = NoData /\ ~u.distressBuff
  BY <1>2, <1>3 DEF Phased
<1>6. Ready(t) /\ Follows(t) /\ t.leaked = u.leaked
  BY <1>1, <1>2, <1>4, <1>5, StartupReady
<1>7. StartRegular(Calls, s) = t
  BY <1>2 DEF StartRegular, t, u
<1> QED
  BY <1>2, <1>6, <1>7 DEF Handles, Leakless

\* StopRegularSimulation
LEMMA StopRegularHandles ==
    ASSUME NEW s, Ready(s), s.phase = "regular"
    PROVE  Handles(s, StopRegular(Calls, s))
<1> DEFINE t == StopRegular(Calls, s)
<1>1. /\ Step(s, t, StopFields) /\ t.phase = "stopped" /\ t.distressBuff = FALSE
      /\ t.data["exit"] = NoData
      /\ \A k \in {"up", "down", "buff", "converge", "distress", "exit", "failure"} :
            ~Registered(t, k)
  BY StopRegularStep DEF Ready
<1> HIDE DEF t
<1>2. Kept(s, t, "offlot") /\ ~Registered(s, "offlot")
  BY <1>1, Kinds DEF Step, StopFields, Ready, Phased
<1>3. Phased(t) /\ t.leaked = s.leaked
  <2>1. Dressed(t)
    BY <1>1, PhaseDressed DEF StopFields, Ready, Phased
  <2>2. t.leaked = s.leaked
    BY <1>1 DEF Step, StopFields
  <2> QED
    BY <1>1, <1>2, <2>1, <2>2 DEF Step, StopFields, Phased, Fitting, Kept
<1>4. Ready(t)
  BY <1>1, <1>3, StepReady
<1> QED
  BY <1>1, <1>3, <1>4 DEF Handles, Follows, Leakless, t

\* StartLowLevelSimulation
LEMMA StartLowLevelHandles ==
    ASSUME NEW s, Ready(s), s.phase \in {"stopped", "regular"}
    PROVE  Handles(s, StartLowLevel(Calls, s))
<1> DEFINE t == StartLowLevel(Calls, s)
<1>1. Good(s) /\ ~Registered(s, "offlot")
  BY DEF Ready, Phased
<1>2. /\ Step(s, t, StopFields \cup {"offlot"}) /\ t.phase = "low" /\ t.distressBuff = FALSE
      /\ t.data["exit"] = NoData
      /\ \A k \in {"up", "down", "buff", "distress", "failure", "converge"} : ~Registered(t, k)
  BY <1>1, StartLowLevelStep
<1> HIDE DEF t
<1>3. Phased(t) /\ t.leaked = s.leaked
  <2>1. Dressed(t)
    BY <1>2, PhaseDressed DEF StopFields, Ready, Phased
  <2>2. t.leaked = s.leaked
    BY <1>2 DEF Step, StopFields
  <2> QED
    BY <1>2, <2>1, <2>2 DEF Phased, Fitting
<1>4. Ready(t)
  BY <1>2, <1>3, StepReady
<1> QED
  BY <1>2, <1>3, <1>4 DEF Handles, Follows, Leakless, t

\* A statistic that was just made.
LEMMA ConstructedIs ==
    ASSUME NEW simulating, NEW removes \in BOOLEAN
    PROVE  /\ Ready(Constructed(simulating, removes)) /\ Follows(Constructed(simulating, removes))
           /\ ~Constructed(simulating, removes).leaked
<1> DEFINE s == [ value |-> InitialValue, lag |-> 0, decay |-> FALSE,
               convergence |-> DefaultConvergence,
               data |-> [k \in Kind |-> NoData], callbacks |-> <<>>,
               trigger |-> [k \in Kind |-> Never], alarm |-> Never, active |-> "none",
               suppress |-> FALSE, state |-> None, buff |-> None, distressBuff |-> FALSE,
               activatable |-> FALSE, phase |-> "stopped", removes |-> removes,
               leaked |-> FALSE, tooDeep |-> FALSE ]
<1>1. InitialValue \in Value /\ DefaultConvergence \in Value /\ Never \in Int
  BY CommodityAssumption, NeverIsLate
<1>2. s \in StatRecord
  BY <1>1 DEF StatRecord
<1>3. /\ s.callbacks = <<>> /\ s.alarm = Never /\ s.active = "none" /\ s.suppress = FALSE
      /\ s.distressBuff = FALSE /\ s.activatable = FALSE /\ s.phase = "stopped" /\ s.tooDeep = FALSE
      /\ s.state = None /\ s.buff = None /\ s.leaked = FALSE
      /\ \A k \in Kind : s.data[k] = NoData /\ s.trigger[k] = Never
  OBVIOUS
<1>4. Constructed(simulating, removes) =
         IF simulating THEN OnInitialStartup(Calls, s, InitialValue # DefaultConvergence) ELSE s
  BY DEF Constructed
<1> HIDE DEF s
<1>5. \A k : ~Registered(s, k)
  BY <1>3 DEF Registered, Contains
<1>6. Sound(s)
  BY <1>2, <1>3, <1>5, NeverIsLate, Kinds DEF Sound, Once
<1>7. Good(s) /\ \A k \in Kind : Exact(s, k)
  BY <1>5, <1>6 DEF Good, Calm, Exact
<1>8. Tight(s)
  BY <1>3 DEF Tight, Ordered, Sorting, AlarmSet
<1>9. Phased(s)
  BY <1>3, <1>5, Kinds DEF Phased, Dressed, Fitting
<1>10. Ready(s)
  BY <1>3, <1>7, <1>8, <1>9 DEF Ready
<1>11. ASSUME NEW activate
       PROVE  /\ Ready(OnInitialStartup(Calls, s, activate)) /\ Follows(OnInitialStartup(Calls, s, activate))
              /\ ~OnInitialStartup(Calls, s, activate).leaked
  BY <1>3, <1>5, <1>10, Kinds, StartupReady
<1>12. Follows(s)
  BY <1>3 DEF Follows
<1> QED
  BY <1>3, <1>4, <1>10, <1>11, <1>12

\* What an alarm finds: what is due is what waits at the time of the first.
LEMMA DueTogetherIs ==
    ASSUME NEW s, Idle(s), s.alarm = 0
    PROVE  LET q == DueTogether(s) IN
           /\ q \in Seq(Kind) /\ Once(q)
           /\ \A k \in Kind : Contains(q, k) <=> Registered(s, k) /\ s.trigger[k] = 0
<1> DEFINE due == {k \in Kind : s.trigger[k] # Never /\ s.trigger[k] = s.trigger[s.active]}
           q == DueTogether(s)
<1>1. /\ s \in StatRecord /\ s.callbacks \in Seq(Kind) /\ s.trigger \in [Kind -> Int]
      /\ Once(s.callbacks) /\ AlarmSet(s)
  BY Fields DEF Idle, Sound, Tight
<1>2. s.trigger[s.active] = 0
  BY <1>1, NeverIsLate DEF AlarmSet
<1>3. /\ q \in Seq(Kind) /\ Once(q)
      /\ \A k \in Kind : Contains(q, k) <=> Contains(s.callbacks, k) /\ k \in due
  BY <1>1, SelectedIs DEF DueTogether
<1>4. \A k \in Kind : k \in due <=> s.trigger[k] = 0
  BY <1>2, NeverIsLate
<1> QED
  BY <1>3, <1>4 DEF Registered

\* _alarm_callback
LEMMA AlarmIs ==
    ASSUME NEW s, Idle(s), s.alarm = 0
    PROVE  LET x == [[s EXCEPT !.leaked = FALSE] EXCEPT !.alarm = Never, !.suppress = TRUE]
               t == UpdateActive(Calls, [CallAll(x, DueTogether(s)) EXCEPT !.suppress = FALSE])
           IN  Ready(t) /\ (Unmet(s) => Follows(t)) /\ (BuffTuning => ~t.leaked)
<1> DEFINE x == [[s EXCEPT !.leaked = FALSE] EXCEPT !.alarm = Never, !.suppress = TRUE]
           q == DueTogether(s)
           r == CallAll(x, q)
           y == [r EXCEPT !.suppress = FALSE]
           t == UpdateActive(Calls, y)
           v == Current(s)
<1>1. /\ s \in StatRecord /\ Sound(s) /\ Phased(s) /\ Ordered(s) /\ s.trigger \in [Kind -> Int]
      /\ v \in Value
  <2>1. s \in StatRecord /\ Sound(s) /\ Phased(s) /\ Ordered(s)
    BY DEF Idle, Sound, Tight
  <2> QED
    BY <2>1, Fields, Reading
<1>2. /\ q \in Seq(Kind) /\ Once(q)
      /\ \A k \in Kind : Contains(q, k) <=> Registered(s, k) /\ s.trigger[k] = 0
  BY DueTogetherIs
<1>3. /\ x \in StatRecord /\ SameValue(s, x) /\ SameQueue(s, x) /\ x.suppress = TRUE
      /\ x.state = s.state /\ x.distressBuff = s.distressBuff
      /\ x.activatable = s.activatable /\ x.phase = s.phase /\ x.tooDeep = s.tooDeep
      /\ x.buff = s.buff /\ ~x.leaked
  <2> DEFINE w == [s EXCEPT !.leaked = FALSE]
  <2>1. /\ w \in StatRecord /\ SameValue(s, w) /\ SameQueue(s, w) /\ Forgets(s, w)
    BY <1>1 DEF StatRecord, SameValue, SameQueue, Forgets
  <2>2. x = [w EXCEPT !.alarm = Never, !.suppress = TRUE]
    OBVIOUS
  <2> HIDE DEF w, x
  <2>3. /\ x \in StatRecord /\ SameValue(w, x) /\ SameQueue(w, x) /\ x.suppress = TRUE
        /\ x.state = w.state /\ x.distressBuff = w.distressBuff
        /\ x.activatable = w.activatable /\ x.phase = w.phase /\ x.tooDeep = w.tooDeep
        /\ x.buff = w.buff /\ x.leaked = w.leaked
    <3>1. w \in StatRecord /\ Never \in Int
      BY <2>1, NeverIsLate
    <3> QED
      BY <2>2, <3>1 DEF StatRecord, SameValue, SameQueue
  <2> QED
    BY <2>1, <2>3 DEF SameValue, SameQueue, Forgets
<1> HIDE DEF x, q, v
<1>4. \A k : Registered(x, k) <=> Registered(s, k)
  BY <1>3 DEF SameQueue, Registered
<1>5. Good(x) /\ Phased(x) /\ Ordered(x)
  BY <1>1, <1>3, <1>4 DEF Good, Sound, Phased, Dressed, Fitting, StatePlaced, SameQueue, Ordered
<1>6. Current(x) = v
  BY <1>3, SameCourse DEF v
<1>7. \A k \in Kind : Registered(x, k) => Contains(q, k) \/ Exact(x, k)
  <2> SUFFICES ASSUME NEW k \in Kind, Registered(s, k), s.trigger[k] # 0 PROVE Exact(x, k)
    BY <1>2, <1>4
  <2>1. Exact(s, k)
    BY DEF Idle, Due
  <2> QED
    BY <1>3, <1>4, <2>1, SameExact DEF SameQueue
<1>8. \A k \in Kind : Contains(q, k) => Registered(x, k)
  BY <1>2, <1>4
<1>9. ASSUME Unmet(s), s.phase = "regular"
      PROVE  /\ s.state < FindState(v) /\ Registered(s, "up") => Contains(q, "up")
             /\ s.state > FindState(v) /\ Registered(s, "down") => Contains(q, "down")
             /\ v > DistressThreshold /\ s.distressBuff /\ Registered(s, "exit") => Contains(q, "exit")
             /\ Contains(q, "distress") => v <= DistressThreshold
  <2>1. \A k \in {"up", "down"} \cup (IF s.distressBuff THEN {"exit"} ELSE {}) :
           Registered(s, k) /\ Compare(s.data[k], v) => Contains(q, k)
    <3> SUFFICES ASSUME NEW k \in {"up", "down"} \cup (IF s.distressBuff THEN {"exit"} ELSE {}),
                        Registered(s, k), Compare(s.data[k], v)
                 PROVE  Contains(q, k)
      OBVIOUS
    <3>1. ~(s.trigger[k] > 0)
      BY <1>9 DEF Unmet, v
    <3>2. k \in Kind
      BY Kinds
    <3>3. s.trigger[k] = 0
      BY <1>1, <3>1, <3>2 DEF Idle, Exact, Due
    <3> QED
      BY <1>2, <3>2, <3>3
  <2>2. v \in Int /\ DistressThreshold \in Int
    BY <1>1, ValueAssumption, CommodityAssumption DEF Value
  <2>3. /\ Registered(s, "up") => (Compare(s.data["up"], v) <=> s.state < FindState(v))
        /\ Registered(s, "down") => (Compare(s.data["down"], v) <=> s.state > FindState(v))
        /\ Registered(s, "exit") => (Compare(s.data["exit"], v) <=> ~(v <= DistressThreshold))
    BY <1>1, <1>9, BoundsAre DEF v
  <2>4. Contains(q, "distress") => v <= DistressThreshold
    <3> SUFFICES ASSUME Contains(q, "distress") PROVE v <= DistressThreshold
      OBVIOUS
    <3>1. Registered(s, "distress") /\ s.trigger["distress"] = 0 /\ Due(s, "distress")
      BY <1>2, Kinds DEF Idle, Exact
    <3>2. s.data["distress"] = DistressDatum
      BY <1>1, <3>1, Kinds DEF Sound
    <3>3. DistressDatum.cmp # "eq"
      BY DEF DistressDatum
    <3>4. Compare(DistressDatum, v)
      BY <3>1, <3>2, <3>3 DEF Due, v
    <3> QED
      BY <3>4 DEF Compare, DistressDatum
  <2> QED
    BY <2>1, <2>2, <2>3, <2>4
<1>10. BuffTuning => \A k \in {"up", "down", "buff"} : Contains(q, k) => Compare(x.data[k], v)
  <2> SUFFICES ASSUME BuffTuning, NEW k \in {"up", "down", "buff"}, Contains(q, k)
               PROVE  Compare(s.data[k], v)
    BY <1>3 DEF SameQueue
  <2>1. k \in Kind /\ Registered(s, k) /\ s.trigger[k] = 0 /\ Due(s, k)
    BY <1>2, Kinds DEF Idle, Exact
  <2>2. s.data[k] \in Threshold(Value)
    BY <1>1, <2>1, Fields DEF Sound
  <2>3. s.data[k].cmp # "eq"
    <3>1. CASE k \in {"up", "down"}
      BY <1>1, <2>1, <3>1 DEF Phased, Fitting, UpDatum, DownDatum
    <3>2. CASE k = "buff"
      <4>1. s.state # None /\ s.data["buff"] = BuffAddThreshold[s.state]
        BY <1>1, <2>1, <3>2 DEF Phased, Dressed
      <4>2. s.state \in States /\ BuffAddThreshold[s.state] # NoData
        BY <1>1, <2>1, <2>2, <3>2, <4>1, Fields DEF NoData, Threshold, Comparison
      <4> QED
        BY <3>2, <4>1, <4>2 DEF BuffTuning
    <3> QED
      BY <3>1, <3>2
  <2> QED
    BY <2>1, <2>3 DEF Due, v
<1> HIDE DEF r
<1>11. /\ Lasting(x, r) /\ Ordered(r) /\ (\A k \in Kind : Exact(r, k)) /\ (Unmet(s) => Follows(r))
       /\ Leakless(x, r)
  <2>1. ASSUME NEW follows \in BOOLEAN, follows => Unmet(s)
        PROVE  /\ Lasting(x, r) /\ Ordered(r) /\ (\A k \in Kind : Exact(r, k)) /\ (follows => Follows(r))
               /\ Leakless(x, r)
    <3>1. follows /\ x.phase = "regular" =>
             /\ x.state < FindState(v) /\ Registered(x, "up") => Contains(q, "up")
             /\ x.state > FindState(v) /\ Registered(x, "down") => Contains(q, "down")
             /\ v > DistressThreshold /\ x.distressBuff /\ Registered(x, "exit") => Contains(q, "exit")
             /\ Contains(q, "distress") => v <= DistressThreshold
      BY <1>3, <1>4, <1>9, <2>1
    <3> QED
      BY <1>1, <1>2, <1>3, <1>5, <1>6, <1>7, <1>8, <1>10, <3>1, CallAllIs DEF r
  <2>2. CASE Unmet(s)
    <3>1. TRUE \in BOOLEAN /\ (TRUE => Unmet(s))
      BY <2>2
    <3>2. /\ Lasting(x, r) /\ Ordered(r) /\ (\A k \in Kind : Exact(r, k)) /\ (TRUE => Follows(r))
          /\ Leakless(x, r)
      BY <2>1, <3>1
    <3> QED
      BY <3>2
  <2>3. CASE ~Unmet(s)
    <3>1. FALSE \in BOOLEAN /\ (FALSE => Unmet(s))
      OBVIOUS
    <3>2. Lasting(x, r) /\ Ordered(r) /\ (\A k \in Kind : Exact(r, k)) /\ Leakless(x, r)
      BY <2>1, <3>1
    <3> QED
      BY <2>3, <3>2
  <2> QED
    BY <2>2, <2>3
<1>12. /\ y \in StatRecord /\ SameValue(r, y) /\ SameQueue(r, y) /\ y.suppress = FALSE
       /\ y.state = r.state /\ y.distressBuff = r.distressBuff
       /\ y.activatable = r.activatable /\ y.phase = r.phase /\ y.tooDeep = r.tooDeep
       /\ y.buff = r.buff /\ y.leaked = r.leaked
  <2>1. r \in StatRecord
    BY <1>11 DEF Lasting, Good, Sound
  <2> QED
    BY <2>1 DEF StatRecord, SameValue, SameQueue
<1> HIDE DEF y
<1>13. \A k : Registered(y, k) <=> Registered(r, k)
  BY <1>12 DEF SameQueue, Registered
<1>14. \A k \in Kind : Exact(y, k)
  BY <1>11, <1>12, <1>13, SameExact DEF SameQueue
<1>15. Good(y) /\ Ordered(y) /\ Phased(y)
  <2>1. Good(r) /\ Phased(r)
    BY <1>11 DEF Lasting
  <2>2. Sound(y)
    BY <1>12, <1>13, <2>1 DEF Good, Sound, SameQueue
  <2>3. Good(y)
    BY <1>14, <2>2 DEF Good, Exact, Calm
  <2>4. Ordered(y)
    BY <1>11, <1>12 DEF Ordered, SameQueue
  <2>5. Phased(y)
    BY <1>12, <1>13, <2>1 DEF Phased, Dressed, Fitting, StatePlaced, SameQueue
  <2> QED
    BY <2>3, <2>4, <2>5
<1>16. /\ Step(y, t, {}) /\ Tight(t) /\ SameSelf(y, t)
  BY <1>15, UpdateActiveStep
<1> HIDE DEF t
<1>17. Phased(t)
  BY <1>15, <1>16, StepPhased
<1>18. Ready(t)
  BY <1>12, <1>14, <1>16, <1>17 DEF Ready, Step, Fresh, SameSelf
<1>19. Unmet(s) => Follows(t)
  <2>1. Current(t) = Current(r)
    BY <1>12, <1>16, SameCourse DEF Step
  <2> QED
    BY <1>11, <1>12, <1>16, <2>1 DEF Follows, SameSelf
<1>20. BuffTuning => ~t.leaked
  BY <1>3, <1>11, <1>12, <1>16 DEF Leakless, SameSelf
<1> QED
  BY <1>18, <1>19, <1>20 DEF t, y, r, q, x

-----------------------------------------------------------------------------
(***************************************************************************)
(* What every method keeps, in whatever order the handlers of a tick run:  *)
(* also when a handler overtook an alarm, and the queue is not sorted any  *)
(* more and callbacks are called that are overdue.                         *)
(***************************************************************************)

\* The fields are what they should be, and only a commodity that has a state
\* waits for the bounds of it.
WellFormed(s) ==
    /\ s \in StatRecord
    /\ Registered(s, "up") \/ Registered(s, "down") => s.state # None

\* s becomes t. A commodity that has a state keeps having one.
Leads(s, t) == WellFormed(t) /\ (s.state # None => t.state # None)

\* The callbacks of a state need a state.
Stateful(s, k) == k \in {"up", "down"} => s.state # None

TypedCall(call) ==
    /\ \A k \in Kind : \A s : WellFormed(s) /\ Stateful(s, k) => Leads(s, call[k][s])
    /\ \A s : WellFormed(s) /\ s.callbacks # <<>> => Leads(s, call["overdue"][s])

LEMMA LeadsTrans ==
    ASSUME NEW s, NEW t, NEW u, Leads(s, t), Leads(t, u) PROVE Leads(s, u)
BY DEF Leads

LEMMA LeadsRefl ==
    ASSUME NEW s, WellFormed(s) PROVE Leads(s, s)
BY DEF Leads

\* A method that leaves the queue alone.
LEMMA LeadsSame ==
    ASSUME NEW s, WellFormed(s), NEW t \in StatRecord, t.callbacks = s.callbacks,
           s.state # None => t.state # None
    PROVE  Leads(s, t)
BY DEF Leads, WellFormed, Registered

\* Who is registered has a state if it needs one.
LEMMA RegisteredStateful ==
    ASSUME NEW s, WellFormed(s), NEW k, Registered(s, k) PROVE Stateful(s, k)
BY DEF WellFormed, Stateful

\* A trigger time is a number, also of a slot that has no datum.
LEMMA TimeIsInt ==
    ASSUME NEW s \in StatRecord, NEW th \in {NoData} \cup Threshold(Value)
    PROVE  TriggerTime(s, th) \in Int
<1>1. s.value \in Int /\ s.convergence \in Int /\ th.val \in Int /\ DecayRate \in Nat \ {0}
  BY Fields, ValueAssumption DEF Value, Threshold, NoData
<1> DEFINE target == HalfTarget(th)
           d == Distance(target, 2 * s.value)
<1>2. target \in Int
  BY <1>1 DEF HalfTarget
<1>3. d \in Nat
  BY <1>1, <1>2 DEF Distance
<1>4. 2 * DecayRate \in Nat \ {0}
  BY <1>1
<1>5. CeilDiv(d, 2 * DecayRate) \in Nat
  <2> HIDE DEF d
  <2> QED
    BY <1>3, <1>4, CeilDivRoundsUp
<1>6. UnitsUntil(s, th) \in {0, Never, CeilDiv(d, 2 * DecayRate)}
  BY DEF UnitsUntil
<1>7. UnitsUntil(s, th) \in Int
  BY <1>5, <1>6, NeverIsLate
<1> QED
  BY <1>7, NeverIsLate DEF TriggerTime

\* _update_value
LEMMA UpdateValueTyped ==
    ASSUME NEW s, WellFormed(s)
    PROVE  /\ Leads(s, UpdateValue(s)) /\ UpdateValue(s).state = s.state
           /\ UpdateValue(s).callbacks = s.callbacks /\ UpdateValue(s).data = s.data
<1>1. s \in StatRecord
  BY DEF WellFormed
<1>2. UpdateValue(s) \in StatRecord /\ UpdateValue(s) = [s EXCEPT !.lag = 0, !.value = Current(s)]
  BY <1>1, Reading
<1>3. /\ UpdateValue(s).state = s.state /\ UpdateValue(s).callbacks = s.callbacks
      /\ UpdateValue(s).data = s.data
  BY <1>1, <1>2 DEF StatRecord
<1> QED
  BY <1>2, <1>3, LeadsSame

\* _update_active_callback, which may call what is overdue.
LEMMA UpdateActiveTyped ==
    ASSUME NEW s, WellFormed(s), NEW call, TypedCall(call) PROVE Leads(s, UpdateActive(call, s))
<1> DEFINE k == Head(s.callbacks)
           idle == [s EXCEPT !.alarm = Never, !.active = "none"]
           called == [s EXCEPT !.alarm = Never]
           set == [s EXCEPT !.alarm = s.trigger[k], !.active = k]
<1>1. s \in StatRecord /\ Never \in Int /\ s.callbacks \in Seq(Kind) /\ s.trigger \in [Kind -> Int]
  BY NeverIsLate, Fields DEF WellFormed
<1>2. s.callbacks # <<>> => k \in Kind /\ s.trigger[k] \in Int
  BY <1>1
<1>3. Leads(s, idle)
  <2>1. idle \in StatRecord /\ idle.callbacks = s.callbacks /\ idle.state = s.state
    BY <1>1 DEF StatRecord
  <2> HIDE DEF idle
  <2> QED
    BY <2>1, LeadsSame
<1>4. Leads(s, called) /\ called.callbacks = s.callbacks
  <2>1. called \in StatRecord /\ called.callbacks = s.callbacks /\ called.state = s.state
    BY <1>1 DEF StatRecord
  <2> HIDE DEF called
  <2> QED
    BY <2>1, LeadsSame
<1>5. s.callbacks # <<>> => Leads(called, call["overdue"][called])
  <2> HIDE DEF called
  <2> QED
    BY <1>4 DEF TypedCall, Leads
<1>6. s.callbacks # <<>> => Leads(s, call["overdue"][called])
  <2> HIDE DEF called
  <2> QED
    BY <1>4, <1>5, LeadsTrans
<1>7. s.callbacks # <<>> => Leads(s, set)
  <2> SUFFICES ASSUME s.callbacks # <<>> PROVE Leads(s, set)
    OBVIOUS
  <2>1. k \in Kind /\ s.trigger[k] \in Int
    BY <1>2
  <2>2. set \in StatRecord /\ set.callbacks = s.callbacks /\ set.state = s.state
    <3> HIDE DEF k
    <3> QED
      BY <1>1, <2>1 DEF StatRecord
  <2> HIDE DEF set
  <2> QED
    BY <2>2, LeadsSame
<1>8. UpdateActive(call, s) \in {s, idle, call["overdue"][called], set}
      /\ (s.callbacks = <<>> => UpdateActive(call, s) \in {s, idle})
  BY DEF UpdateActive
<1> HIDE DEF idle, called, set
<1> QED
  BY <1>3, <1>6, <1>7, <1>8, LeadsRefl

\* remove_callback, without its alarm
LEMMA UnlinkedTyped ==
    ASSUME NEW s, WellFormed(s), NEW k \in Kind PROVE Leads(s, Unlinked(s, k))
<1> DEFINE q == Selected(s.callbacks, Kind \ {k})
           t == Unlinked(s, k)
<1>1. s \in StatRecord /\ s.callbacks \in Seq(Kind) /\ s.trigger \in [Kind -> Int] /\ Never \in Int
  BY NeverIsLate, Fields DEF WellFormed
<1>2. q \in Seq(Kind) /\ \A j \in Kind : Contains(q, j) <=> Contains(s.callbacks, j) /\ j # k
  <2> DEFINE kinds == Kind \ {k}
  <2>1. \A j \in Kind : j \in kinds <=> j # k
    OBVIOUS
  <2> HIDE DEF kinds
  <2>2. /\ Selected(s.callbacks, kinds) \in Seq(Kind)
        /\ \A j \in Kind : Contains(Selected(s.callbacks, kinds), j)
                            <=> Contains(s.callbacks, j) /\ j \in kinds
    BY <1>1, SelectedIs
  <2> QED
    BY <2>1, <2>2 DEF kinds
<1> HIDE DEF q
<1>3. t \in StatRecord /\ t.callbacks = q /\ t.state = s.state
  <2>1. t = [s EXCEPT !.callbacks = q, !.trigger[k] = Never]
    BY DEF Unlinked, q
  <2> HIDE DEF t
  <2> QED
    BY <1>1, <1>2, <2>1 DEF StatRecord
<1>4. \A j \in Kind : Registered(t, j) => Registered(s, j)
  BY <1>2, <1>3 DEF Registered
<1> HIDE DEF t
<1> QED
  BY <1>3, <1>4, Kinds DEF WellFormed, Leads, t

\* remove_callback
LEMMA RemoveCallbackTyped ==
    ASSUME NEW s, WellFormed(s), NEW k \in Kind, NEW call, TypedCall(call)
    PROVE  Leads(s, RemoveCallback(call, s, k))
<1>1. Leads(s, s) /\ Leads(s, Unlinked(s, k))
  BY LeadsRefl, UnlinkedTyped
<1>2. Leads(s, UpdateActive(call, Unlinked(s, k)))
  <2>1. Leads(Unlinked(s, k), UpdateActive(call, Unlinked(s, k)))
    BY <1>1, UpdateActiveTyped DEF Leads
  <2> QED
    BY <1>1, <2>1, LeadsTrans
<1> QED
  BY <1>1, <1>2 DEF RemoveCallback

LEMMA DropTyped ==
    ASSUME NEW s, WellFormed(s), NEW k \in Kind, NEW call, TypedCall(call)
    PROVE  Leads(s, Drop(call, s, k))
<1> DEFINE t == RemoveCallback(call, s, k)
           u == Drop(call, s, k)
<1>1. Leads(s, t)
  BY RemoveCallbackTyped
<1>2. u = [t EXCEPT !.data[k] = NoData]
  BY DEF Drop
<1> HIDE DEF t, u
<1>3. u \in StatRecord /\ u.callbacks = t.callbacks /\ u.state = t.state
  BY <1>1, <1>2 DEF StatRecord, Leads, WellFormed
<1>4. Leads(t, u)
  BY <1>1, <1>3, LeadsSame DEF Leads
<1> QED
  BY <1>1, <1>4, LeadsTrans DEF u

\* reset_trigger_time
LEMMA ResetTriggerTyped ==
    ASSUME NEW s, WellFormed(s), NEW k \in Kind
    PROVE  Leads(s, ResetTrigger(s, k)) /\ ResetTrigger(s, k).state = s.state
<1> DEFINE t == ResetTrigger(s, k)
           time == TriggerTime(s, s.data[k])
<1>1. s \in StatRecord /\ s.data[k] \in {NoData} \cup Threshold(Value)
  BY Fields DEF WellFormed
<1>2. time \in Int
  BY <1>1, TimeIsInt
<1>3. t = [s EXCEPT !.trigger[k] = time]
  BY DEF ResetTrigger
<1> HIDE DEF t, time
<1>4. t \in StatRecord /\ t.callbacks = s.callbacks /\ t.state = s.state
  BY <1>1, <1>2, <1>3 DEF StatRecord
<1> QED
  BY <1>4, LeadsSame DEF t

\* _insert_callback_data
LEMMA InsertCallbackTyped ==
    ASSUME NEW s, WellFormed(s), NEW k \in Kind, Stateful(s, k)
    PROVE  Leads(s, InsertCallback(s, k))
<1> DEFINE u == ResetTrigger(UpdateValue(s), k)
           p == InsertionPoint(u, k)
           q == InsertAt(u.callbacks, p + 1, k)
           t == Insert(u, k)
<1>1. Leads(s, u) /\ u.state = s.state
  <2>1. Leads(s, UpdateValue(s)) /\ UpdateValue(s).state = s.state
    BY UpdateValueTyped
  <2>2. Leads(UpdateValue(s), u) /\ u.state = UpdateValue(s).state
    BY <2>1, ResetTriggerTyped DEF Leads
  <2> HIDE DEF u
  <2> QED
    BY <2>1, <2>2, LeadsTrans
<1> HIDE DEF u
<1>2. u \in StatRecord /\ u.callbacks \in Seq(Kind) /\ u.trigger \in [Kind -> Int]
  BY <1>1, Fields DEF Leads, WellFormed
<1>3. p \in 0 .. Len(u.callbacks)
  BY <1>2, InsertionPointIs
<1> HIDE DEF p
<1>4. q \in Seq(Kind) /\ \A j \in Kind : Contains(q, j) <=> Contains(u.callbacks, j) \/ j = k
  BY <1>2, <1>3, InsertAtIs
<1>5. t = [u EXCEPT !.callbacks = q]
  BY DEF Insert, p
<1> HIDE DEF q, t
<1>6. t \in StatRecord /\ t.callbacks = q /\ t.state = s.state
  BY <1>1, <1>2, <1>4, <1>5 DEF StatRecord
<1>7. \A j \in Kind : Registered(t, j) => Registered(u, j) \/ j = k
  BY <1>4, <1>6 DEF Registered
<1>8. Leads(s, t)
  BY <1>1, <1>6, <1>7, Kinds DEF WellFormed, Leads, Stateful
<1> QED
  BY <1>8 DEF InsertCallback, t, u

\* add_callback_data, and add_callback
LEMMA AddCallbackTyped ==
    ASSUME NEW s, WellFormed(s), NEW k \in Kind, Stateful(s, k), NEW call, TypedCall(call)
    PROVE  Leads(s, AddCallback(call, s, k))
<1> DEFINE t == InsertCallback(s, k)
<1>1. Leads(s, t)
  BY InsertCallbackTyped
<1> HIDE DEF t
<1>2. Leads(t, UpdateActive(call, t)) /\ Leads(t, t)
  BY <1>1, UpdateActiveTyped, LeadsRefl DEF Leads
<1>3. Leads(t, AlarmFor(call, t, k))
  BY <1>2 DEF AlarmFor
<1>4. Leads(s, AlarmFor(call, t, k))
  BY <1>1, <1>3, LeadsTrans
<1> QED
  BY <1>4 DEF AddCallback, t

LEMMA AddTyped ==
    ASSUME NEW s, WellFormed(s), NEW k \in Kind, Stateful(s, k), NEW call, TypedCall(call),
           NEW threshold \in Threshold(Value)
    PROVE  Leads(s, Add(call, s, k, threshold))
<1> DEFINE t == [s EXCEPT !.data[k] = threshold]
<1>1. t \in StatRecord /\ t.callbacks = s.callbacks /\ t.state = s.state
  BY DEF StatRecord, WellFormed
<1> HIDE DEF t
<1>2. Leads(s, t) /\ Stateful(t, k)
  BY <1>1, LeadsSame DEF Stateful
<1>3. Leads(t, AddCallback(call, t, k))
  BY <1>2, AddCallbackTyped DEF Leads
<1>4. Leads(s, AddCallback(call, t, k))
  BY <1>2, <1>3, LeadsTrans
<1> QED
  BY <1>4 DEF Add, t

\* _trigger_callback
LEMMA TriggerTyped ==
    ASSUME NEW s, WellFormed(s), NEW k \in Kind, Stateful(s, k), NEW call, TypedCall(call)
    PROVE  Leads(s, Trigger(call, s, k))
<1> DEFINE t == call[k][s]
           u == RemoveCallback(call, t, k)
           w == Requeue(call, t, k, s.data[k])
<1>1. Leads(s, t)
  BY DEF TypedCall
<1> HIDE DEF t
<1>2. Leads(t, t)
  BY <1>1, LeadsRefl DEF Leads
<1>3. ASSUME Registered(t, k) PROVE Leads(t, InsertCallback(u, k))
  <2>1. Leads(t, u)
    BY <1>1, RemoveCallbackTyped DEF Leads
  <2>2. Stateful(t, k)
    BY <1>1, <1>3, RegisteredStateful DEF Leads
  <2> HIDE DEF u
  <2>3. Leads(u, InsertCallback(u, k))
    BY <2>1, <2>2, InsertCallbackTyped DEF Leads, Stateful
  <2> QED
    BY <2>1, <2>3, LeadsTrans
<1>4. Leads(t, w)
  BY <1>2, <1>3 DEF Requeue
<1> HIDE DEF w
<1>5. Leads(s, w)
  BY <1>1, <1>4, LeadsTrans
<1> QED
  BY <1>5 DEF Trigger, t, w

\* What _update_active_callback does about a head that is overdue.
LEMMA CallOverdueTyped ==
    ASSUME NEW s, WellFormed(s), s.callbacks # <<>>, NEW call, TypedCall(call)
    PROVE  Leads(s, CallOverdue(call, s))
<1> DEFINE k == Head(s.callbacks)
           t == Trigger(call, s, k)
<1>1. k \in Kind /\ Registered(s, k)
  BY HeadIsFirst, Fields DEF WellFormed
<1>2. Stateful(s, k)
  BY <1>1, RegisteredStateful
<1>3. Leads(s, t)
  BY <1>1, <1>2, TriggerTyped
<1> HIDE DEF t
<1>4. Leads(t, UpdateActive(call, t))
  BY <1>3, UpdateActiveTyped DEF Leads
<1>5. Leads(s, UpdateActive(call, t))
  BY <1>3, <1>4, LeadsTrans
<1> QED
  BY <1>5 DEF CallOverdue, t

-----------------------------------------------------------------------------

\* _update_callbacks: the times of all.
LEMMA RefreshTyped ==
    ASSUME NEW s, WellFormed(s), NEW k \in Kind PROVE Leads(s, Refresh(s, k))
BY ResetTriggerTyped, LeadsRefl DEF Refresh

LEMMA RefreshAllTyped ==
    ASSUME NEW s, WellFormed(s) PROVE Leads(s, RefreshAll(s))
<1> DEFINE time(k) == IF Registered(s, k) THEN TriggerTime(s, s.data[k]) ELSE s.trigger[k]
           times == [k \in Kind |-> time(k)]
           t == RefreshAll(s)
<1>1. s \in StatRecord /\ s.trigger \in [Kind -> Int]
      /\ \A k \in Kind : s.data[k] \in {NoData} \cup Threshold(Value)
  BY Fields DEF WellFormed
<1>2. \A k \in Kind : time(k) \in Int
  BY <1>1, TimeIsInt
<1>3. t = [s EXCEPT !.trigger = times]
  BY DEF RefreshAll
<1>4. times \in [Kind -> Int]
  BY <1>2
<1> HIDE DEF times, t
<1>5. t \in StatRecord /\ t.callbacks = s.callbacks /\ t.state = s.state
  BY <1>1, <1>3, <1>4 DEF StatRecord
<1> QED
  BY <1>5, LeadsSame DEF t

LEMMA SortedTyped ==
    ASSUME NEW s, WellFormed(s) PROVE Leads(s, Sorted(s))
<1>1. s \in StatRecord /\ s.callbacks \in Seq(Kind) /\ s.trigger \in [Kind -> Int]
  BY Fields DEF WellFormed
<1>2. PICK r \in Seq(Kind) : /\ Sorted(s) = [s EXCEPT !.callbacks = r]
                             /\ \A k \in Kind : Contains(r, k) <=> Contains(s.callbacks, k)
  BY <1>1, SortedIs
<1>3. Sorted(s) \in StatRecord /\ Sorted(s).callbacks = r /\ Sorted(s).state = s.state
  BY <1>1, <1>2 DEF StatRecord
<1>4. \A k \in Kind : Registered(Sorted(s), k) <=> Registered(s, k)
  BY <1>2, <1>3 DEF Registered
<1> QED
  BY <1>3, <1>4, Kinds DEF WellFormed, Leads

\* The alarm of a queue put in order.
LEMMA AlarmOfSortedTyped ==
    ASSUME NEW s, WellFormed(s), NEW call, TypedCall(call)
    PROVE  Leads(s, UpdateActive(call, Sorted(s)))
<1>1. Leads(s, Sorted(s))
  BY SortedTyped
<1>2. Leads(Sorted(s), UpdateActive(call, Sorted(s)))
  BY <1>1, UpdateActiveTyped DEF Leads
<1> QED
  BY <1>1, <1>2, LeadsTrans

LEMMA RefreshCallbacksTyped ==
    ASSUME NEW s, WellFormed(s), NEW call, TypedCall(call) PROVE Leads(s, RefreshCallbacks(call, s))
<1> DEFINE t == UpdateValue(s)
           u == RefreshAll(t)
<1>1. Leads(s, t)
  BY UpdateValueTyped
<1>2. Leads(t, u)
  BY <1>1, RefreshAllTyped DEF Leads
<1>3. Leads(u, UpdateActive(call, Sorted(u)))
  BY <1>2, AlarmOfSortedTyped DEF Leads
<1>4. RefreshCallbacks(call, s) = UpdateActive(call, Sorted(u))
  BY DEF RefreshCallbacks
<1> HIDE DEF t, u
<1>5. Leads(s, u)
  BY <1>1, <1>2, LeadsTrans
<1> QED
  BY <1>3, <1>4, <1>5, LeadsTrans

\* decay_enabled and convergence_value
LEMMA SetDecayTyped ==
    ASSUME NEW s, WellFormed(s), NEW enabled \in BOOLEAN, NEW call, TypedCall(call)
    PROVE  Leads(s, SetDecay(call, s, enabled))
<1> DEFINE t == UpdateValue(s)
           u == [t EXCEPT !.decay = enabled]
<1>1. Leads(s, t)
  BY UpdateValueTyped
<1> HIDE DEF t
<1>2. u \in StatRecord /\ u.callbacks = t.callbacks /\ u.state = t.state
  BY <1>1 DEF StatRecord, Leads, WellFormed
<1>3. Leads(t, u)
  BY <1>1, <1>2, LeadsSame DEF Leads
<1> HIDE DEF u
<1>4. Leads(u, RefreshCallbacks(call, u))
  BY <1>3, RefreshCallbacksTyped DEF Leads
<1>5. Leads(s, RefreshCallbacks(call, u))
  BY <1>1, <1>3, <1>4, LeadsTrans
<1> QED
  BY <1>5, LeadsRefl DEF SetDecay, u, t

LEMMA SetConvergenceTyped ==
    ASSUME NEW s, WellFormed(s), NEW v \in Value, NEW call, TypedCall(call)
    PROVE  Leads(s, SetConvergence(call, s, v))
<1> DEFINE t == [s EXCEPT !.convergence = v]
<1>1. t \in StatRecord /\ t.callbacks = s.callbacks /\ t.state = s.state
  BY DEF StatRecord, WellFormed
<1> HIDE DEF t
<1>2. Leads(s, t)
  BY <1>1, LeadsSame
<1>3. Leads(t, RefreshCallbacks(call, t))
  BY <1>2, RefreshCallbacksTyped DEF Leads
<1>4. Leads(s, RefreshCallbacks(call, t))
  BY <1>2, <1>3, LeadsTrans
<1> QED
  BY <1>4 DEF SetConvergence, t

\* A loop of calls: each is one of a callback that had a state if it needs one
\* when the loop began.
LEMMA LoopTyped ==
    ASSUME NEW s, WellFormed(s), NEW K, NEW q \in Seq(K), NEW f,
           \A i \in 1 .. Len(q) : \A t : Leads(s, t) => Leads(t, f[q[i]][t])
    PROVE  Leads(s, Through(f, s, q))
<1> DEFINE D == [n \in 0 .. Len(q) |-> {t \in StatRecord : Leads(s, t)}]
<1>1. Len(q) \in Nat
  OBVIOUS
<1>2. \A n \in 0 .. Len(q) : D[n] = {t \in StatRecord : Leads(s, t)}
  OBVIOUS
<1> HIDE DEF D
<1>3. s \in D[0]
  BY <1>1, <1>2, LeadsRefl DEF WellFormed
<1>4. ASSUME NEW n \in 1 .. Len(q), NEW t \in D[n - 1] PROVE f[q[n]][t] \in D[n]
  <2>1. n \in 0 .. Len(q) /\ n - 1 \in 0 .. Len(q)
    BY <1>1
  <2>2. Leads(s, t)
    BY <1>2, <2>1
  <2>3. Leads(t, f[q[n]][t])
    BY <2>2
  <2>4. Leads(s, f[q[n]][t])
    BY <2>2, <2>3, LeadsTrans
  <2> QED
    BY <1>2, <2>1, <2>4 DEF Leads, WellFormed
<1>5. Through(f, s, q) \in D[Len(q)]
  BY <1>1, <1>3, <1>4, ThroughKeeps
<1>6. Len(q) \in 0 .. Len(q)
  BY <1>1
<1> QED
  BY <1>2, <1>5, <1>6

\* Those a change of value has crossed.
LEMMA CallCrossedTyped ==
    ASSUME NEW s, WellFormed(s), NEW old, NEW new, NEW call, TypedCall(call)
    PROVE  Leads(s, CallCrossed(call, s, old, new))
<1> DEFINE q == IF old <= new THEN s.callbacks ELSE Reverse(s.callbacks)
           visit(t, k) == Refresh(IF Crossed(s.data[k], old, new) THEN call[k][t] ELSE t, k)
           f == [k \in Kind |-> [t \in StatRecord |-> visit(t, k)]]
<1>1. s.callbacks \in Seq(Kind)
  BY Fields DEF WellFormed
<1>2. q \in Seq(Kind) /\ \A k \in Kind : Contains(q, k) => Contains(s.callbacks, k)
  BY <1>1, ReverseIs
<1>3. CallCrossed(call, s, old, new) = Through(f, s, q)
  BY DEF CallCrossed
<1>4. ASSUME NEW k \in Kind, Registered(s, k), NEW t, Leads(s, t) PROVE Leads(t, f[k][t])
  <2>1. Stateful(s, k)
    BY <1>4, RegisteredStateful
  <2>2. WellFormed(t) /\ Stateful(t, k)
    BY <1>4, <2>1 DEF Leads, Stateful
  <2>3. Leads(t, call[k][t]) /\ Leads(t, t)
    BY <2>2, LeadsRefl DEF TypedCall
  <2>4. PICK u : u = (IF Crossed(s.data[k], old, new) THEN call[k][t] ELSE t)
    OBVIOUS
  <2>5. Leads(t, u)
    BY <2>3, <2>4
  <2>6. Leads(u, Refresh(u, k))
    BY <2>5, RefreshTyped DEF Leads
  <2>7. f[k][t] = Refresh(u, k)
    BY <2>2, <2>4 DEF WellFormed
  <2> QED
    BY <2>5, <2>6, <2>7, LeadsTrans
<1>5. ASSUME NEW i \in 1 .. Len(q) PROVE q[i] \in Kind /\ Registered(s, q[i])
  <2>1. q[i] \in Kind /\ Contains(q, q[i])
    BY <1>2 DEF Contains
  <2> QED
    BY <1>2, <2>1 DEF Registered
<1> HIDE DEF f, q
<1>6. Leads(s, Through(f, s, q))
  BY <1>2, <1>4, <1>5, LoopTyped
<1> QED
  BY <1>3, <1>6

\* set_value
LEMMA AssignTyped ==
    ASSUME NEW s, WellFormed(s), NEW v \in Value, NEW call, TypedCall(call)
    PROVE  Leads(s, Assign(call, s, v))
<1> DEFINE t == [s EXCEPT !.value = v]
           u == UpdateValue(t)
           w == CallCrossed(call, u, s.value, v)
<1>1. t \in StatRecord /\ t.callbacks = s.callbacks /\ t.state = s.state
  BY DEF StatRecord, WellFormed
<1>2. Assign(call, s, v) = IF s.value = v THEN RefreshCallbacks(call, t)
                           ELSE UpdateActive(call, Sorted(w))
  BY DEF Assign, UpdateCallbacks
<1> HIDE DEF t
<1>3. Leads(s, t)
  BY <1>1, LeadsSame
<1>4. Leads(t, RefreshCallbacks(call, t))
  BY <1>3, RefreshCallbacksTyped DEF Leads
<1>5. Leads(t, u)
  BY <1>3, UpdateValueTyped DEF Leads
<1> HIDE DEF u
<1>6. Leads(u, w)
  BY <1>5, CallCrossedTyped DEF Leads
<1> HIDE DEF w
<1>7. Leads(w, UpdateActive(call, Sorted(w)))
  BY <1>6, AlarmOfSortedTyped DEF Leads
<1>8. Leads(s, w)
  BY <1>3, <1>5, <1>6, LeadsTrans
<1>9. Leads(s, RefreshCallbacks(call, t)) /\ Leads(s, UpdateActive(call, Sorted(w)))
  BY <1>3, <1>4, <1>7, <1>8, LeadsTrans
<1> QED
  BY <1>2, <1>9

LEMMA ActivateConvergenceTyped ==
    ASSUME NEW s, WellFormed(s), NEW call, TypedCall(call)
    PROVE  Leads(s, ActivateConvergence(call, s))
<1> DEFINE t == AddCallback(call, s, "converge")
<1>1. Stateful(s, "converge") /\ "converge" \in Kind
  BY Kinds DEF Stateful
<1>2. Leads(s, t) /\ Leads(s, s)
  BY <1>1, AddCallbackTyped, LeadsRefl
<1> HIDE DEF t
<1>3. ASSUME NEW u, Leads(s, u) PROVE Leads(s, [u EXCEPT !.activatable = FALSE])
  <2> DEFINE w == [u EXCEPT !.activatable = FALSE]
  <2>1. w \in StatRecord /\ w.callbacks = u.callbacks /\ w.state = u.state
    BY <1>3 DEF StatRecord, Leads, WellFormed
  <2> HIDE DEF w
  <2>2. Leads(u, w)
    BY <1>3, <2>1, LeadsSame DEF Leads
  <2>3. Leads(s, w)
    BY <1>3, <2>2, LeadsTrans
  <2> QED
    BY <2>3 DEF w
<1> QED
  BY <1>2, <1>3 DEF ActivateConvergence, t

LEMMA SetValueTyped ==
    ASSUME NEW s, WellFormed(s), NEW v \in Int, NEW call, TypedCall(call)
    PROVE  Leads(s, SetValue(call, s, v))
<1> DEFINE t == UpdateValue(s)
           u == Assign(call, t, Clamp(v))
<1>1. Leads(s, t)
  BY UpdateValueTyped
<1>2. Leads(t, u)
  BY <1>1, ClampIs, AssignTyped DEF Leads
<1> HIDE DEF t
<1> HIDE DEF u
<1>3. Leads(u, ActivateConvergence(call, u))
  BY <1>2, ActivateConvergenceTyped DEF Leads
<1>4. Leads(s, ActivateConvergence(call, u))
  BY <1>1, <1>2, <1>3, LeadsTrans
<1> QED
  BY <1>4 DEF SetValue, u, t

-----------------------------------------------------------------------------

\* _set_state
LEMMA DelayBuffTyped ==
    ASSUME NEW s, WellFormed(s), NEW i \in States, NEW v, NEW call, TypedCall(call)
    PROVE  Leads(s, DelayBuff(call, s, i, v))
<1> DEFINE t == [s EXCEPT !.buff = i]
<1>1. t \in StatRecord /\ t.callbacks = s.callbacks /\ t.state = s.state
  BY DEF StatRecord, WellFormed
<1>2. DelayBuff(call, s, i, v) = t
      \/ (BuffAddThreshold[i] # NoData
          /\ DelayBuff(call, s, i, v) = Add(call, s, "buff", BuffAddThreshold[i]))
  BY DEF DelayBuff
<1> HIDE DEF t
<1>3. Leads(s, t)
  BY <1>1, LeadsSame
<1>4. BuffAddThreshold[i] # NoData => BuffAddThreshold[i] \in Threshold(Value)
  BY CommodityAssumption
<1>5. Stateful(s, "buff") /\ "buff" \in Kind
  BY Kinds DEF Stateful
<1>6. BuffAddThreshold[i] # NoData => Leads(s, Add(call, s, "buff", BuffAddThreshold[i]))
  BY <1>4, <1>5, AddTyped
<1> QED
  BY <1>2, <1>3, <1>6

LEMMA SetStateTyped ==
    ASSUME NEW s, WellFormed(s), NEW i \in States, NEW v, NEW call, TypedCall(call)
    PROVE  Leads(s, SetState(call, s, i, v)) /\ SetState(call, s, i, v).state # None
<1> DEFINE t == [s EXCEPT !.state = i]
           u == Drop(call, t, "buff")
           w == [u EXCEPT !.buff = None]
<1>0. i # None
  BY StatesAre
<1>1. t \in StatRecord /\ t.callbacks = s.callbacks /\ t.state = i
  BY DEF StatRecord, WellFormed
<1> HIDE DEF t
<1>2. Leads(s, t)
  BY <1>0, <1>1, LeadsSame
<1>3. Leads(t, u)
  BY <1>2, Kinds, DropTyped DEF Leads
<1> HIDE DEF u
<1>4. w \in StatRecord /\ w.callbacks = u.callbacks /\ w.state = u.state
  BY <1>3 DEF StatRecord, Leads, WellFormed
<1> HIDE DEF w
<1>5. Leads(u, w)
  BY <1>3, <1>4, LeadsSame DEF Leads
<1>6. Leads(w, DelayBuff(call, w, i, v))
  BY <1>5, DelayBuffTyped DEF Leads
<1>7. Leads(t, DelayBuff(call, w, i, v))
  BY <1>3, <1>5, <1>6, LeadsTrans
<1>8. Leads(s, DelayBuff(call, w, i, v))
  BY <1>2, <1>7, LeadsTrans
<1>9. SetState(call, s, i, v) = DelayBuff(call, w, i, v)
  BY DEF SetState, w, u, t
<1> QED
  BY <1>0, <1>1, <1>7, <1>8, <1>9 DEF Leads

\* One state after the other.
LEMMA SetStatesTyped ==
    ASSUME NEW s, WellFormed(s), NEW desired \in States, NEW step \in {1, -1}, NEW call, TypedCall(call)
    PROVE  Leads(s, SetStates(call, s, desired, step))
<1> DEFINE f == [i \in States |-> [t \in StatRecord |-> SetState(call, t, i, s.value)]]
           m == step * (desired - s.state)
           q == [n \in 1 .. m |-> s.state + step * n]
<1>1. /\ States = 1 .. Len(StateBounds) /\ Len(StateBounds) \in Nat
      /\ desired \in Int /\ desired >= 1 /\ desired <= Len(StateBounds)
  BY StatesAre
<1>2. s.state \in Int /\ s.state >= 0 /\ s.state <= Len(StateBounds)
  BY <1>1, Fields DEF WellFormed, None
<1>3. m \in Int /\ \A n \in 1 .. m : s.state + step * n \in States
  <2>1. CASE step = 1
    BY <1>1, <1>2, <2>1
  <2>2. CASE step = -1
    BY <1>1, <1>2, <2>2
  <2> QED
    BY <2>1, <2>2
<1> HIDE DEF m
<1>4. q \in Seq(States)
  <2>1. CASE m >= 0
    BY <1>3, <2>1
  <2>2. CASE m < 0
    <3>1. 1 .. m = {} /\ 1 .. 0 = {}
      BY <1>3, <2>2
    <3>2. q = [n \in 1 .. 0 |-> s.state + step * n]
      BY <3>1
    <3>3. [n \in 1 .. 0 |-> s.state + step * n] \in Seq(States)
      BY <3>1
    <3> QED
      BY <3>2, <3>3
  <2> QED
    BY <1>3, <2>1, <2>2
<1>5. ASSUME NEW i \in States, NEW t, Leads(s, t) PROVE Leads(t, f[i][t])
  <2>1. f[i][t] = SetState(call, t, i, s.value)
    BY <1>5 DEF Leads, WellFormed
  <2> QED
    BY <1>5, <2>1, SetStateTyped DEF Leads
<1>6. SetStates(call, s, desired, step) = Through(f, s, q)
  BY DEF SetStates, m
<1> HIDE DEF f, q
<1>7. \A i \in 1 .. Len(q) : q[i] \in States
  BY <1>4
<1>8. Leads(s, Through(f, s, q))
  BY <1>4, <1>5, <1>7, LoopTyped
<1> QED
  BY <1>6, <1>8

\* _add_state_callback and _remove_state_callback
LEMMA AddStateCallbacksTyped ==
    ASSUME NEW s, WellFormed(s), s.state # None, NEW call, TypedCall(call)
    PROVE  Leads(s, AddStateCallbacks(call, s))
<1> DEFINE t == AddUp(call, s)
           u == AddDown(call, t)
<1>1. Leads(s, t)
  <2>1. CASE s.state + 1 \notin States
    BY <2>1, LeadsRefl DEF AddUp
  <2>2. CASE s.state + 1 \in States
    <3>1. [cmp |-> "ge", val |-> StateBounds[s.state + 1]] \in Threshold(Value)
      BY <2>2, StatesAre DEF Threshold, Comparison
    <3>2. Leads(s, Add(call, s, "up", [cmp |-> "ge", val |-> StateBounds[s.state + 1]]))
      BY <3>1, Kinds, AddTyped DEF Stateful
    <3> QED
      BY <2>2, <3>2 DEF AddUp
  <2> QED
    BY <2>1, <2>2
<1> HIDE DEF t
<1>2. WellFormed(t) /\ t.state \in States
  BY <1>1, Fields DEF Leads, WellFormed
<1>3. Leads(t, u)
  <2>1. [cmp |-> "lt", val |-> StateBounds[t.state]] \in Threshold(Value)
    BY <1>2, StatesAre DEF Threshold, Comparison
  <2>2. t.state # None
    BY <1>2, StatesAre
  <2>3. Leads(t, Add(call, t, "down", [cmp |-> "lt", val |-> StateBounds[t.state]]))
    BY <1>2, <2>1, <2>2, Kinds, AddTyped DEF Stateful
  <2> QED
    BY <1>2, <2>3, LeadsRefl DEF AddDown
<1> HIDE DEF u
<1>4. Leads(s, u)
  BY <1>1, <1>3, LeadsTrans
<1> QED
  BY <1>4 DEF AddStateCallbacks, u, t

LEMMA RemoveStateCallbacksTyped ==
    ASSUME NEW s, WellFormed(s), NEW call, TypedCall(call)
    PROVE  Leads(s, RemoveStateCallbacks(call, s))
<1> DEFINE t == Drop(call, s, "up")
           u == Drop(call, t, "down")
           w == Drop(call, u, "buff")
<1>0. {"up", "down", "buff"} \subseteq Kind
  BY Kinds
<1>1. Leads(s, t)
  BY <1>0, DropTyped
<1> HIDE DEF t
<1>2. Leads(t, u)
  BY <1>0, <1>1, DropTyped DEF Leads
<1> HIDE DEF u
<1>3. Leads(u, w)
  BY <1>0, <1>2, DropTyped DEF Leads
<1> HIDE DEF w
<1>4. Leads(s, w)
  BY <1>1, <1>2, <1>3, LeadsTrans
<1> QED
  BY <1>4 DEF RemoveStateCallbacks, w, u, t

\* _update_state_up and _update_state_down
LEMMA ChangeStateTyped ==
    ASSUME NEW s, WellFormed(s), s.state # None, NEW desired \in States, NEW step \in {1, -1},
           NEW call, TypedCall(call)
    PROVE  Leads(s, ChangeState(call, s, desired, step))
<1> DEFINE t == RemoveStateCallbacks(call, s)
           u == SetStates(call, t, desired, step)
           w == UpdateStateCallback(call, u, desired)
<1>1. Leads(s, t)
  BY RemoveStateCallbacksTyped
<1> HIDE DEF t
<1>2. Leads(t, u)
  BY <1>1, SetStatesTyped DEF Leads
<1> HIDE DEF u
<1>3. WellFormed(u) /\ u.state # None
  BY <1>1, <1>2 DEF Leads
<1>4. Leads(u, call["up"][u]) /\ Leads(u, call["down"][u]) /\ Leads(u, AddStateCallbacks(call, u))
  BY <1>3, Kinds, AddStateCallbacksTyped DEF TypedCall, Stateful
<1>5. Leads(u, w)
  BY <1>4 DEF UpdateStateCallback
<1> HIDE DEF w
<1>6. Leads(s, w)
  BY <1>1, <1>2, <1>5, LeadsTrans
<1> QED
  BY <1>6, LeadsRefl DEF ChangeState, w, u, t

LEMMA MoveStateTyped ==
    ASSUME NEW s, WellFormed(s), s.state # None, NEW step \in {1, -1}, NEW call, TypedCall(call)
    PROVE  Leads(s, MoveState(call, UpdateValue(s), step))
<1> DEFINE t == UpdateValue(s)
<1>1. Leads(s, t) /\ t.state # None
  BY UpdateValueTyped
<1> HIDE DEF t
<1>2. t.value \in Value /\ 2 * t.value + step \in Int
  <2>1. t.value \in Value /\ MinValue \in Int /\ MaxValue \in Int
    BY <1>1, Fields, ValueAssumption DEF Leads, WellFormed
  <2> QED
    BY <2>1 DEF Value
<1>3. Desired(t, step) \in States
  BY <1>2, FindStateIs, FindHalfIs DEF Desired
<1>4. Leads(t, ChangeState(call, t, Desired(t, step), step))
  BY <1>1, <1>3, ChangeStateTyped DEF Leads
<1>5. Leads(s, ChangeState(call, t, Desired(t, step), step))
  BY <1>1, <1>4, LeadsTrans
<1> QED
  BY <1>5 DEF MoveState, t

\* _add_buff_callback
LEMMA AddBuffTyped ==
    ASSUME NEW s, WellFormed(s), NEW call, TypedCall(call) PROVE Leads(s, AddBuff(call, s))
<1> DEFINE t == Drop(call, s, "buff")
           u == [t EXCEPT !.buff = s.state, !.leaked = @ \/ s.buff # None]
<1>1. Leads(s, t) /\ s.state \in {None} \cup States
  BY Kinds, DropTyped, Fields DEF WellFormed
<1> HIDE DEF t
<1>2. u \in StatRecord /\ u.callbacks = t.callbacks /\ u.state = t.state
  <2>1. t \in StatRecord
    BY <1>1 DEF Leads, WellFormed
  <2>2. (t.leaked \/ s.buff # None) \in BOOLEAN
    BY <2>1, Fields
  <2> QED
    BY <1>1, <2>1, <2>2 DEF StatRecord
<1> HIDE DEF u
<1>3. Leads(t, u)
  BY <1>1, <1>2, LeadsSame DEF Leads
<1>4. Leads(s, u)
  BY <1>1, <1>3, LeadsTrans
<1> QED
  BY <1>4 DEF AddBuff, u, t

\* _enter_distress and _exit_distress
LEMMA EnterDistressTyped ==
    ASSUME NEW s, WellFormed(s), NEW call, TypedCall(call) PROVE Leads(s, EnterDistress(call, s))
<1> DEFINE t == [s EXCEPT !.distressBuff = TRUE]
<1>1. t \in StatRecord /\ t.callbacks = s.callbacks /\ t.state = s.state
  BY DEF StatRecord, WellFormed
<1> HIDE DEF t
<1>2. Leads(s, t)
  BY <1>1, LeadsSame
<1>3. ExitDatum \in Threshold(Value)
  BY CommodityAssumption DEF ExitDatum, Threshold, Comparison
<1>4. Leads(t, Add(call, t, "exit", ExitDatum))
  BY <1>2, <1>3, Kinds, AddTyped DEF Stateful, Leads
<1>5. Leads(t, WaitToExit(call, t))
  BY <1>2, <1>4, LeadsRefl DEF WaitToExit, ExitDatum, Leads
<1>6. Leads(s, WaitToExit(call, t))
  BY <1>2, <1>5, LeadsTrans
<1> QED
  BY <1>6 DEF EnterDistress, t

LEMMA ExitDistressTyped ==
    ASSUME NEW s, WellFormed(s), NEW call, TypedCall(call) PROVE Leads(s, ExitDistress(call, s))
<1> DEFINE t == [s EXCEPT !.distressBuff = FALSE]
<1>1. t \in StatRecord /\ t.callbacks = s.callbacks /\ t.state = s.state
  BY DEF StatRecord, WellFormed
<1> HIDE DEF t
<1>2. Leads(s, t)
  BY <1>1, LeadsSame
<1>3. Leads(t, Drop(call, t, "exit"))
  BY <1>2, Kinds, DropTyped DEF Leads
<1>4. Leads(s, Drop(call, t, "exit"))
  BY <1>2, <1>3, LeadsTrans
<1> QED
  BY <1>4 DEF ExitDistress, t

-----------------------------------------------------------------------------

LEMMA InTyped ==
    ASSUME NEW s, WellFormed(s), NEW phase \in {"regular", "stopped", "low"}
    PROVE  Leads(s, In(phase, s))
<1> DEFINE t == [s EXCEPT !.phase = phase]
<1>1. t \in StatRecord /\ t.callbacks = s.callbacks /\ t.state = s.state
  BY DEF StatRecord, WellFormed
<1> HIDE DEF t
<1> QED
  BY <1>1, LeadsSame, LeadsRefl DEF In, t

\* stop_regular_simulation
LEMMA StopRegularTyped ==
    ASSUME NEW s, WellFormed(s), NEW call, TypedCall(call) PROVE Leads(s, StopRegular(call, s))
<1> DEFINE a == RemoveStateCallbacks(call, s)
           b == SetDecay(call, a, FALSE)
           c == Drop(call, b, "converge")
           d == Drop(call, c, "distress")
           e == ExitDistress(call, d)
           f == Drop(call, e, "failure")
<1>0. {"converge", "distress", "failure"} \subseteq Kind
  BY Kinds
<1>1. Leads(s, a)
  BY RemoveStateCallbacksTyped
<1> HIDE DEF a
<1>2. Leads(a, b)
  BY <1>1, SetDecayTyped DEF Leads
<1> HIDE DEF b
<1>3. Leads(b, c)
  BY <1>0, <1>2, DropTyped DEF Leads
<1> HIDE DEF c
<1>4. Leads(c, d)
  BY <1>0, <1>3, DropTyped DEF Leads
<1> HIDE DEF d
<1>5. Leads(d, e)
  BY <1>4, ExitDistressTyped DEF Leads
<1> HIDE DEF e
<1>6. Leads(e, f)
  BY <1>0, <1>5, DropTyped DEF Leads
<1> HIDE DEF f
<1>7. Leads(f, In("stopped", f))
  BY <1>6, InTyped DEF Leads
<1>8. StopRegular(call, s) = In("stopped", f)
  BY DEF StopRegular, StopDecay, DropDistress, a, b, c, d, e, f
<1> QED
  BY <1>1, <1>2, <1>3, <1>4, <1>5, <1>6, <1>7, <1>8, LeadsTrans

\* stop_low_level_simulation
LEMMA StopLowLevelTyped ==
    ASSUME NEW s, WellFormed(s), NEW call, TypedCall(call) PROVE Leads(s, StopLowLevel(call, s))
<1> DEFINE t == SetDecay(call, s, FALSE)
<1>1. Leads(s, t)
  BY SetDecayTyped
<1> HIDE DEF t
<1>2. Leads(t, RemoveCallback(call, t, "offlot"))
  BY <1>1, Kinds, RemoveCallbackTyped DEF Leads
<1>3. Leads(s, RemoveCallback(call, t, "offlot"))
  BY <1>1, <1>2, LeadsTrans
<1> QED
  BY <1>3 DEF StopLowLevel, t

\* start_low_level_simulation
LEMMA StartLowLevelTyped ==
    ASSUME NEW s, WellFormed(s), NEW call, TypedCall(call) PROVE Leads(s, StartLowLevel(call, s))
<1> DEFINE a == StopRegular(call, s)
           b == Add(call, a, "offlot", OffLotThreshold)
           c == SetDecay(call, b, TRUE)
<1>1. Leads(s, a)
  BY StopRegularTyped
<1> HIDE DEF a
<1>2. Leads(a, b)
  BY <1>1, Kinds, CommodityAssumption, AddTyped DEF Leads, Stateful
<1> HIDE DEF b
<1>3. Leads(b, c)
  BY <1>2, SetDecayTyped DEF Leads
<1> HIDE DEF c
<1>4. Leads(c, In("low", c))
  BY <1>3, InTyped DEF Leads
<1>5. Leads(s, In("low", c))
  BY <1>1, <1>2, <1>3, <1>4, LeadsTrans
<1>6. StartLowLevel(call, s) \in {a, In("low", c)}
  BY DEF StartLowLevel, SimulateLow, a, b, c
<1> QED
  BY <1>1, <1>5, <1>6

\* on_initial_startup
LEMMA AwaitConvergenceTyped ==
    ASSUME NEW s, WellFormed(s), NEW activate, NEW call, TypedCall(call)
    PROVE  Leads(s, AwaitConvergence(call, s, activate))
<1> DEFINE datum == [cmp |-> "eq", val |-> s.convergence]
           a == Add(call, s, "converge", datum)
           b == [a EXCEPT !.activatable = FALSE]
           c == [s EXCEPT !.data["converge"] = datum, !.activatable = TRUE]
<1>0. s \in StatRecord /\ datum \in Threshold(Value)
  BY Fields DEF WellFormed, Threshold, Comparison
<1> HIDE DEF datum
<1>1. Leads(s, a)
  BY <1>0, Kinds, AddTyped DEF Stateful
<1> HIDE DEF a
<1>2. b \in StatRecord /\ b.callbacks = a.callbacks /\ b.state = a.state
  BY <1>1 DEF StatRecord, Leads, WellFormed
<1>3. c \in StatRecord /\ c.callbacks = s.callbacks /\ c.state = s.state
  BY <1>0, Kinds DEF StatRecord
<1> HIDE DEF b, c
<1>4. Leads(a, b) /\ Leads(s, c)
  BY <1>1, <1>2, <1>3, LeadsSame DEF Leads
<1>5. Leads(s, b)
  BY <1>1, <1>4, LeadsTrans
<1>6. AwaitConvergence(call, s, activate) \in {s, b, c}
  BY DEF AwaitConvergence, a, b, c, datum
<1> QED
  BY <1>4, <1>5, <1>6, LeadsRefl

LEMMA EnterStateNowTyped ==
    ASSUME NEW s, WellFormed(s), NEW call, TypedCall(call) PROVE Leads(s, EnterStateNow(call, s))
<1> DEFINE a == RemoveStateCallbacks(call, s)
           b == UpdateValue(a)
           c == EnterState(call, b)
<1>1. Leads(s, a)
  BY RemoveStateCallbacksTyped
<1> HIDE DEF a
<1>2. Leads(a, b)
  BY <1>1, UpdateValueTyped DEF Leads
<1> HIDE DEF b
<1>3. WellFormed(b) /\ FindState(b.value) \in States /\ FindState(b.value) # None
  BY <1>2, Fields, FindStateIs, StatesAre DEF Leads, WellFormed
<1>4. Leads(b, c) /\ c.state # None
  BY <1>3, SetStateTyped, LeadsRefl DEF EnterState
<1> HIDE DEF c
<1>5. Leads(c, AddStateCallbacks(call, c))
  BY <1>4, AddStateCallbacksTyped DEF Leads
<1>6. Leads(s, AddStateCallbacks(call, c))
  BY <1>1, <1>2, <1>4, <1>5, LeadsTrans
<1> QED
  BY <1>6 DEF EnterStateNow, c, b, a

LEMMA OnInitialStartupTyped ==
    ASSUME NEW s, WellFormed(s), NEW activate, NEW call, TypedCall(call)
    PROVE  Leads(s, OnInitialStartup(call, s, activate))
<1> DEFINE a == Add(call, s, "distress", DistressDatum)
           b == Add(call, a, "failure", FailureThreshold)
           c == EnterStateNow(call, b)
           d == SetDecay(call, c, TRUE)
           e == AwaitConvergence(call, d, activate)
<1>0. /\ {"distress", "failure"} \subseteq Kind
      /\ DistressDatum \in Threshold(Value) /\ FailureThreshold \in Threshold(Value)
  BY Kinds, CommodityAssumption DEF DistressDatum, Threshold, Comparison
<1>1. Leads(s, a)
  BY <1>0, AddTyped DEF Stateful
<1> HIDE DEF a
<1>2. Leads(a, b)
  BY <1>0, <1>1, AddTyped DEF Stateful, Leads
<1> HIDE DEF b
<1>3. Leads(b, c)
  BY <1>2, EnterStateNowTyped DEF Leads
<1> HIDE DEF c
<1>4. Leads(c, d)
  BY <1>3, SetDecayTyped DEF Leads
<1> HIDE DEF d
<1>5. Leads(d, e)
  BY <1>4, AwaitConvergenceTyped DEF Leads
<1> HIDE DEF e
<1>6. Leads(e, In("regular", e))
  BY <1>5, InTyped DEF Leads
<1>7. OnInitialStartup(call, s, activate) = In("regular", e)
  BY DEF OnInitialStartup, AwaitBadNews, DistressDatum, a, b, c, d, e
<1> QED
  BY <1>1, <1>2, <1>3, <1>4, <1>5, <1>6, <1>7, LeadsTrans

\* start_regular_simulation
LEMMA StartRegularTyped ==
    ASSUME NEW s, WellFormed(s), NEW call, TypedCall(call) PROVE Leads(s, StartRegular(call, s))
<1> DEFINE t == StopLowLevel(call, s)
<1>1. Leads(s, t)
  BY StopLowLevelTyped
<1> HIDE DEF t
<1>2. Leads(t, OnInitialStartup(call, t, TRUE))
  BY <1>1, OnInitialStartupTyped DEF Leads
<1>3. Leads(s, OnInitialStartup(call, t, TRUE))
  BY <1>1, <1>2, LeadsTrans
<1> QED
  BY <1>1, <1>3 DEF StartRegular, t

\* remove_statistic
LEMMA RemoveStatisticTyped ==
    ASSUME NEW s, WellFormed(s), NEW call, TypedCall(call) PROVE Leads(s, RemoveStatistic(call, s))
<1> DEFINE a == Cleared(s)
           b == StopRegular(call, a)
           c == StopLowLevel(call, b)
           d == [c EXCEPT !.buff = None, !.distressBuff = FALSE, !.phase = "removed"]
<1>1. Leads(s, a)
  <2>1. s \in StatRecord /\ Never \in Int /\ <<>> \in Seq(Kind) /\ [k \in Kind |-> Never] \in [Kind -> Int]
    BY NeverIsLate DEF WellFormed
  <2>2. a \in StatRecord /\ a.callbacks = <<>> /\ a.state = s.state
    BY <2>1 DEF Cleared, StatRecord
  <2> HIDE DEF a
  <2>3. \A k \in Kind : ~Registered(a, k)
    BY <2>2 DEF Registered, Contains
  <2> QED
    BY <2>2, <2>3, Kinds DEF Leads, WellFormed
<1> HIDE DEF a
<1>2. Leads(a, b)
  BY <1>1, StopRegularTyped DEF Leads
<1> HIDE DEF b
<1>3. Leads(b, c)
  BY <1>2, StopLowLevelTyped DEF Leads
<1> HIDE DEF c
<1>4. d \in StatRecord /\ d.callbacks = c.callbacks /\ d.state = c.state
  BY <1>3 DEF StatRecord, Leads, WellFormed
<1> HIDE DEF d
<1>5. Leads(c, d)
  BY <1>3, <1>4, LeadsSame DEF Leads
<1>6. Leads(s, d)
  BY <1>1, <1>2, <1>3, <1>5, LeadsTrans
<1> QED
  BY <1>6, LeadsRefl DEF RemoveStatistic, d, c, b, a

\* The calls, one level after the other.
LEMMA HandleTyped ==
    ASSUME NEW call, TypedCall(call), NEW s, WellFormed(s)
    PROVE  /\ \A k \in Kind : Stateful(s, k) => Leads(s, Handle(call, s, k))
           /\ s.callbacks # <<>> => Leads(s, Handle(call, s, "overdue"))
<1>1. Stateful(s, "up") => Leads(s, Handle(call, s, "up"))
  BY MoveStateTyped DEF Handle, StateUp, Stateful
<1>2. Stateful(s, "down") => Leads(s, Handle(call, s, "down"))
  BY MoveStateTyped DEF Handle, StateDown, Stateful
<1>3. Leads(s, Handle(call, s, "buff"))
  BY AddBuffTyped DEF Handle
<1>4. Leads(s, Handle(call, s, "distress"))
  BY EnterDistressTyped DEF Handle
<1>5. Leads(s, Handle(call, s, "exit"))
  BY ExitDistressTyped DEF Handle
<1>6. Leads(s, Handle(call, s, "failure"))
  BY LeadsRefl DEF Handle
<1>7. Leads(s, Handle(call, s, "converge"))
  BY RemoveStatisticTyped DEF Handle
<1>8. Leads(s, Handle(call, s, "offlot"))
  <2>1. UpdateValue(s).value + OffLotValue \in Int
    <3>1. UpdateValue(s) \in StatRecord
      BY Reading DEF WellFormed
    <3>2. UpdateValue(s).value \in Value
      BY <3>1, Fields
    <3> QED
      BY <3>2, CommodityAssumption, ValueAssumption DEF Value
  <2> QED
    BY <2>1, SetValueTyped DEF Handle
<1>9. s.callbacks # <<>> => Leads(s, Handle(call, s, "overdue"))
  BY CallOverdueTyped DEF Handle
<1> QED
  BY <1>1, <1>2, <1>3, <1>4, <1>5, <1>6, <1>7, <1>8, <1>9 DEF Kind

LEMMA CallsTyped ==
    TypedCall(Calls)
<1> DEFINE S == {n \in Nat : n <= MaxNested => TypedCall(Nested[n])}
<1>1. ASSUME NEW n \in 0 .. MaxNested, n > 0 => TypedCall(Nested[n - 1]) PROVE TypedCall(Nested[n])
  <2>1. Nested[n] = Level(n, Nested[n - 1])
    BY NestedIs
  <2>2. ASSUME NEW s, WellFormed(s), NEW k \in Kind \cup {"overdue"}
        PROVE  Nested[n][k][s] = IF n = 0 THEN [s EXCEPT !.tooDeep = TRUE]
                                 ELSE Handle(Nested[n - 1], s, k)
    BY <2>1, <2>2 DEF Level, WellFormed
  <2>3. ASSUME NEW s, WellFormed(s) PROVE Leads(s, [s EXCEPT !.tooDeep = TRUE])
    <3> DEFINE t == [s EXCEPT !.tooDeep = TRUE]
    <3>1. t \in StatRecord /\ t.callbacks = s.callbacks /\ t.state = s.state
      BY <2>3 DEF StatRecord, WellFormed
    <3> HIDE DEF t
    <3>2. Leads(s, t)
      BY <2>3, <3>1, LeadsSame
    <3> QED
      BY <3>2 DEF t
  <2>4. CASE n = 0
    BY <2>2, <2>3, <2>4 DEF TypedCall
  <2>5. CASE n # 0
    <3>1. TypedCall(Nested[n - 1])
      BY <1>1, <2>5, CommodityAssumption
    <3>2. ASSUME NEW s, WellFormed(s)
          PROVE  /\ \A k \in Kind : Stateful(s, k) => Leads(s, Nested[n][k][s])
                 /\ s.callbacks # <<>> => Leads(s, Nested[n]["overdue"][s])
      <4>1. \A k \in Kind \cup {"overdue"} : Nested[n][k][s] = Handle(Nested[n - 1], s, k)
        BY <2>2, <2>5, <3>2
      <4>2. /\ \A k \in Kind : Stateful(s, k) => Leads(s, Handle(Nested[n - 1], s, k))
            /\ s.callbacks # <<>> => Leads(s, Handle(Nested[n - 1], s, "overdue"))
        BY <3>1, <3>2, HandleTyped
      <4> QED
        BY <4>1, <4>2
    <3> QED
      BY <3>2 DEF TypedCall
  <2> QED
    BY <2>4, <2>5
<1>2. MaxNested \in Nat
  BY CommodityAssumption
<1>3. 0 \in S
  BY <1>1, <1>2
<1>4. ASSUME NEW n \in Nat, n \in S PROVE n + 1 \in S
  <2> SUFFICES ASSUME n + 1 <= MaxNested PROVE TypedCall(Nested[n + 1])
    OBVIOUS
  <2>1. n + 1 \in 0 .. MaxNested /\ n + 1 - 1 = n /\ TypedCall(Nested[n])
    BY <1>2, <1>4
  <2> QED
    BY <1>1, <2>1
<1> HIDE DEF S
<1>5. MaxNested \in S
  BY <1>2, <1>3, <1>4, NatInd
<1> QED
  BY <1>2, <1>5 DEF S, Calls

\* The alarm, and a tick.
LEMMA AlarmTyped ==
    ASSUME NEW s, WellFormed(s), NEW q \in Seq(Kind),
           \A i \in 1 .. Len(q) : Registered(s, q[i])
    PROVE  Leads(s, UpdateActive(Calls,
              [CallAll([s EXCEPT !.alarm = Never, !.suppress = TRUE], q) EXCEPT !.suppress = FALSE]))
<1> DEFINE a == [s EXCEPT !.alarm = Never, !.suppress = TRUE]
           f == [k \in Kind |-> [t \in StatRecord |-> Trigger(Calls, t, k)]]
           b == CallAll(a, q)
           c == [b EXCEPT !.suppress = FALSE]
<1>0. s \in StatRecord /\ Never \in Int /\ a = [s EXCEPT !.alarm = Never, !.suppress = TRUE]
  BY NeverIsLate DEF WellFormed
<1> HIDE DEF f, b, c, a
<1>1. a \in StatRecord /\ a.callbacks = s.callbacks /\ a.state = s.state
  BY <1>0 DEF StatRecord
<1>2. Leads(s, a)
  BY <1>1, LeadsSame
<1>3. ASSUME NEW i \in 1 .. Len(q), NEW t, Leads(a, t) PROVE Leads(t, f[q[i]][t])
  <2> USE DEF f
  <2>1. q[i] \in Kind /\ Stateful(s, q[i])
    BY RegisteredStateful
  <2>2. WellFormed(t) /\ Stateful(t, q[i])
    BY <1>1, <1>3, <2>1 DEF Leads, Stateful
  <2>3. f[q[i]][t] = Trigger(Calls, t, q[i])
    BY <2>1, <2>2 DEF WellFormed
  <2> QED
    BY <2>1, <2>2, <2>3, CallsTyped, TriggerTyped
<1>4. b = Through(f, a, q)
  BY DEF CallAll, b, f
<1>5. Leads(a, b)
  BY <1>2, <1>3, <1>4, LoopTyped DEF Leads
<1>6. c \in StatRecord /\ c.callbacks = b.callbacks /\ c.state = b.state
  BY <1>5 DEF StatRecord, Leads, WellFormed, c
<1>7. Leads(b, c)
  BY <1>5, <1>6, LeadsSame DEF Leads
<1>8. Leads(c, UpdateActive(Calls, c))
  BY <1>7, CallsTyped, UpdateActiveTyped DEF Leads
<1>9. Leads(s, UpdateActive(Calls, c))
  BY <1>2, <1>5, <1>7, <1>8, LeadsTrans
<1> QED
  BY <1>9 DEF c, b, a

LEMMA TickTyped ==
    ASSUME NEW s, WellFormed(s)
    PROVE  WellFormed([s EXCEPT !.lag = IF @ = LagBound THEN @ ELSE @ + 1, !.alarm = Later(@),
                                !.trigger = [k \in Kind |-> Later(@[k])]])
<1> DEFINE lag == IF s.lag = LagBound THEN s.lag ELSE s.lag + 1
           times == [k \in Kind |-> Later(s.trigger[k])]
           t == [s EXCEPT !.lag = lag, !.alarm = Later(s.alarm), !.trigger = times]
<1>1. s \in StatRecord /\ s.lag \in Nat /\ s.alarm \in Int /\ s.trigger \in [Kind -> Int]
  BY Fields DEF WellFormed
<1>2. lag \in Nat
  BY <1>1
<1>3. \A i \in Int : Later(i) \in Int
  BY DEF Later
<1>4. times \in [Kind -> Int] /\ Later(s.alarm) \in Int
  BY <1>1, <1>3
<1> HIDE DEF lag, times
<1>5. t \in StatRecord /\ t.callbacks = s.callbacks /\ t.state = s.state
  BY <1>1, <1>2, <1>4 DEF StatRecord
<1> HIDE DEF t
<1>6. WellFormed(t)
  BY <1>5, LeadsSame DEF Leads
<1> QED
  BY <1>6 DEF t, lag, times

-----------------------------------------------------------------------------
(***************************************************************************)
(* The invariant, and what follows from it.                                *)
(***************************************************************************)

\* As long as no handler overtook the alarm, the statistic is idle; and what the
\* value has met is due, unless the value jumped. With the right tuning no
\* handler left a buff on the Sim.
Undisturbed ==
    /\ Idle(stat)
    /\ ~turned => Unmet(stat)
    /\ BuffTuning => ~stat.leaked

IndInv ==
    /\ WellFormed(stat) /\ {overtaken, turned} \subseteq BOOLEAN
    /\ ~overtaken => Undisturbed

\* What a handler leaves behind.
LEMMA HandledKeeps ==
    ASSUME Ready(stat'), ~turned' => Follows(stat'), BuffTuning => ~stat'.leaked
    PROVE  Undisturbed'
<1>1. Idle(stat') /\ Sound(stat') /\ Phased(stat')
  BY ReadyIsIdle DEF Ready, Good
<1>2. Follows(stat') => Unmet(stat')
  BY <1>1, FollowsIsUnmet
<1> QED
  BY <1>1, <1>2 DEF Undisturbed

\* The invariant holds at first,
LEMMA CommodityInit ==
    Init => IndInv
<1> SUFFICES ASSUME NEW simulating \in BOOLEAN, NEW removes \in RemoveOnConvergence,
                    stat = Constructed(simulating, removes), overtaken = FALSE, turned = FALSE
             PROVE  IndInv
  BY DEF Init
<1>1. removes \in BOOLEAN
  BY CommodityAssumption
<1>2. Ready(stat) /\ Follows(stat) /\ ~stat.leaked
  BY <1>1, ConstructedIs
<1>3. Idle(stat) /\ Sound(stat) /\ Phased(stat) /\ WellFormed(stat)
  BY <1>2, ReadyIsIdle DEF Ready, Good, Sound, WellFormed
<1> QED
  BY <1>2, <1>3, FollowsIsUnmet DEF IndInv, Undisturbed

\* and every step keeps it: the fields of the record,
LEMMA TypedStep ==
    ASSUME WellFormed(stat), Next PROVE WellFormed(stat')
<1> DEFINE s == Found
<1>1. WellFormed(s) /\ stat.removes \in BOOLEAN /\ TypedCall(Calls) /\ s.callbacks = stat.callbacks
  <2>1. s \in StatRecord /\ s.callbacks = stat.callbacks /\ s.state = stat.state
    BY DEF Found, StatRecord, WellFormed
  <2> HIDE DEF s
  <2> QED
    BY <2>1, LeadsSame, Fields, CallsTyped DEF Leads, WellFormed
<1> HIDE DEF s
<1>2. CASE Tick
  <2>1. stat' = [s EXCEPT !.lag = IF @ = LagBound THEN @ ELSE @ + 1, !.alarm = Later(@),
                          !.trigger = [k \in Kind |-> Later(@[k])]]
    BY <1>2 DEF Tick, s
  <2> QED
    BY <1>1, <2>1, TickTyped
<1>3. CASE Alarm
  <2> DEFINE q == DueTogether(stat)
  <2>1. stat' = UpdateActive(Calls,
                  [CallAll([s EXCEPT !.alarm = Never, !.suppress = TRUE], q) EXCEPT !.suppress = FALSE])
    BY <1>3 DEF Alarm, s
  <2>2. q \in Seq(Kind) /\ \A k \in Kind : Contains(q, k) => Contains(stat.callbacks, k)
    BY SelectedIs, Fields DEF DueTogether, WellFormed
  <2> HIDE DEF q
  <2>3. ASSUME NEW i \in 1 .. Len(q) PROVE Registered(s, q[i])
    <3>1. q[i] \in Kind /\ Contains(q, q[i])
      BY <2>2 DEF Contains
    <3> QED
      BY <1>1, <2>2, <3>1 DEF Registered
  <2>4. Leads(s, stat')
    BY <1>1, <2>1, <2>2, <2>3, AlarmTyped
  <2> QED
    BY <2>4 DEF Leads
<1>4. ASSUME NEW v \in ValueChoices, ChangeValue(v) PROVE WellFormed(stat')
  <2>1. v \in Int
    BY CommodityAssumption, ValueAssumption DEF Value
  <2>2. WellFormed(SetValue(Calls, s, v))
    BY <1>1, <2>1, SetValueTyped DEF Leads
  <2> QED
    BY <1>1, <1>4, <2>2, RemoveStatisticTyped DEF ChangeValue, CleanUp, s, Leads
<1>5. ASSUME NEW enabled \in BOOLEAN, ChangeDecay(enabled) PROVE WellFormed(stat')
  BY <1>1, <1>5, SetDecayTyped DEF ChangeDecay, s, Leads
<1>6. ASSUME NEW v \in ConvergenceChoices, ChangeConvergence(v) PROVE WellFormed(stat')
  <2>1. v \in Value
    BY CommodityAssumption
  <2> QED
    BY <1>1, <1>6, <2>1, SetConvergenceTyped DEF ChangeConvergence, s, Leads
<1>7. CASE ChangeModifiers
  BY <1>1, <1>7, RefreshCallbacksTyped, ActivateConvergenceTyped DEF ChangeModifiers, s, Leads
<1>8. CASE ChangeDecayRate
  BY <1>1, <1>8, UpdateValueTyped, RefreshAllTyped, UpdateActiveTyped DEF ChangeDecayRate, s, Leads
<1>9. CASE GetValue
  BY <1>1, <1>9, UpdateValueTyped DEF GetValue, s, Leads
<1>10. CASE StartRegularSimulation
  BY <1>1, <1>10, StartRegularTyped DEF StartRegularSimulation, s, Leads
<1>11. CASE StopRegularSimulation
  BY <1>1, <1>11, StopRegularTyped DEF StopRegularSimulation, s, Leads
<1>12. CASE StartLowLevelSimulation
  BY <1>1, <1>12, StartLowLevelTyped DEF StartLowLevelSimulation, s, Leads
<1>13. CASE RemoveCommodity
  BY <1>1, <1>13, RemoveStatisticTyped DEF RemoveCommodity, s, Leads
<1>14. ASSUME NEW simulating \in BOOLEAN, AddStatistic(simulating) PROVE WellFormed(stat')
  BY <1>1, <1>14, ConstructedIs DEF AddStatistic, Ready, Good, Sound, WellFormed
<1> QED
  BY <1>2, <1>3, <1>4, <1>5, <1>6, <1>7, <1>8, <1>9, <1>10, <1>11, <1>12, <1>13, <1>14 DEF Next

\* and the rest, if the alarm has not been overtaken.
LEMMA UndisturbedStep ==
    ASSUME IndInv, Next, ~overtaken' PROVE Undisturbed'
<1> USE DEF Exists
<1>1. stat \in StatRecord /\ stat.removes \in BOOLEAN /\ overtaken \in BOOLEAN /\ turned \in BOOLEAN
  BY Fields DEF IndInv, WellFormed
<1> DEFINE s == Found
<1>2. ASSUME ~overtaken PROVE Idle(stat) /\ (~turned => Unmet(stat))
  BY <1>2 DEF IndInv, Undisturbed
<1>3. ASSUME ~overtaken, stat.alarm # 0
      PROVE  /\ Ready(stat) /\ Ready(s) /\ s.phase = stat.phase /\ ~s.leaked
             /\ ~turned => Follows(s)
  <2>1. Ready(stat)
    BY <1>2, <1>3, IdleIsReady
  <2>2. Handles(stat, s) /\ s.phase = stat.phase /\ ~s.leaked
    BY <2>1, FoundIs DEF Found
  <2>3. ~turned => Follows(stat)
    BY <1>2, <1>3, <2>1, UnmetFollows
  <2> QED
    BY <2>1, <2>2, <2>3 DEF Handles
<1>4. ASSUME ~overtaken, stat.alarm # 0, Handles(s, stat'), turned' = turned PROVE Undisturbed'
  BY <1>3, <1>4, HandledKeeps DEF Handles, Leakless
<1>5. Overtakes => ~overtaken /\ stat.alarm # 0
  BY <1>1 DEF Overtakes
<1>6. CASE Tick
  <2>1. ~overtaken /\ turned' = turned /\ stat.alarm # 0 /\ stat' = Ticked(stat)
    BY <1>1, <1>6 DEF Tick, Ticked, Found, StatRecord
  <2>2. Idle(Ticked(stat)) /\ (Unmet(stat) => Unmet(Ticked(stat))) /\ ~Ticked(stat).leaked
    BY <1>3, <2>1, TickIs
  <2> QED
    BY <1>2, <2>1, <2>2 DEF Undisturbed
<1>7. CASE Alarm
  <2>1. /\ ~overtaken /\ turned' = turned /\ stat.alarm = 0
        /\ stat' = UpdateActive(Calls,
              [CallAll([[stat EXCEPT !.leaked = FALSE] EXCEPT !.alarm = Never, !.suppress = TRUE],
                       DueTogether(stat)) EXCEPT !.suppress = FALSE])
    BY <1>7 DEF Alarm, Found
  <2>2. Ready(stat') /\ (Unmet(stat) => Follows(stat')) /\ (BuffTuning => ~stat'.leaked)
    BY <1>2, <2>1, AlarmIs
  <2> QED
    BY <1>2, <2>1, <2>2, HandledKeeps
<1>8. CASE GetValue
  <2>1. ~overtaken /\ turned' = turned /\ stat' = UpdateValue([stat EXCEPT !.leaked = FALSE])
    BY <1>8 DEF GetValue, Found
  <2>2. Idle(stat') /\ (Unmet(stat) => Unmet(stat')) /\ ~stat'.leaked
    BY <1>2, <2>1, ReadingIdle
  <2> QED
    BY <1>2, <2>1, <2>2 DEF Undisturbed
<1> HIDE DEF s
<1>9. ASSUME NEW v \in ValueChoices, ChangeValue(v) PROVE Undisturbed'
  <2>1. v \in Int
    BY CommodityAssumption, ValueAssumption DEF Value
  <2>2. ~overtaken /\ stat.alarm # 0 /\ turned' = turned /\ stat' = CleanUp(SetValue(Calls, s, v))
    BY <1>5, <1>9 DEF ChangeValue, s
  <2>3. Handles(s, stat')
    BY <1>3, <2>1, <2>2, ChangeValueHandles
  <2> QED
    BY <1>4, <2>2, <2>3
<1>10. ASSUME NEW enabled \in BOOLEAN, ChangeDecay(enabled) PROVE Undisturbed'
  <2>1. ~overtaken /\ stat.alarm # 0 /\ turned' = turned /\ stat' = SetDecay(Calls, s, enabled)
    BY <1>5, <1>10 DEF ChangeDecay, s
  <2>2. Handles(s, stat')
    BY <1>3, <2>1, ChangeDecayHandles
  <2> QED
    BY <1>4, <2>1, <2>2
<1>11. ASSUME NEW v \in ConvergenceChoices, ChangeConvergence(v) PROVE Undisturbed'
  <2>1. v \in Value
    BY CommodityAssumption
  <2>2. /\ ~overtaken /\ stat.alarm # 0 /\ turned' = (turned \/ Jumps(v))
        /\ stat' = SetConvergence(Calls, s, v)
    BY <1>5, <1>11 DEF ChangeConvergence, s
  <2>3. Ready(stat') /\ Leakless(s, stat')
        /\ (DecayedValue([s EXCEPT !.convergence = v]) = DecayedValue(s) => Handles(s, stat'))
    BY <1>3, <2>1, <2>2, ChangeConvergenceHandles
  <2>4. ~Jumps(v) => DecayedValue([s EXCEPT !.convergence = v]) = DecayedValue(s)
    <3> DEFINE a == [stat EXCEPT !.convergence = v]
               b == [s EXCEPT !.convergence = v]
    <3>1. SameValue(stat, s) /\ SameValue(a, b)
      BY <1>1 DEF Found, SameValue, StatRecord, s
    <3> HIDE DEF a, b
    <3>2. Current(s) = Current(stat) /\ Current(b) = Current(a)
      BY <3>1, SameCourse
    <3> QED
      BY <3>2 DEF Jumps, Current, a, b
  <2>5. ~turned' => Follows(stat')
    BY <1>1, <1>3, <2>2, <2>3, <2>4 DEF Handles
  <2> QED
    BY <1>3, <2>2, <2>3, <2>5, HandledKeeps DEF Leakless
<1>12. CASE ChangeModifiers
  <2>1. /\ ~overtaken /\ stat.alarm # 0 /\ turned' = turned
        /\ stat' = ActivateConvergence(Calls, RefreshCallbacks(Calls, s))
    BY <1>5, <1>12 DEF ChangeModifiers, s
  <2> QED
    BY <1>3, <1>4, <2>1, ChangeModifiersHandles
<1>13. CASE ChangeDecayRate
  <2>1. /\ ~overtaken /\ stat.alarm # 0 /\ turned' = turned
        /\ stat' = UpdateActive(Calls, RefreshAll(UpdateValue(s)))
    BY <1>5, <1>13 DEF ChangeDecayRate, s
  <2> QED
    BY <1>3, <1>4, <2>1, ChangeDecayRateHandles
<1>14. CASE StartRegularSimulation
  <2>1. /\ ~overtaken /\ stat.alarm # 0 /\ turned' = turned /\ stat.phase \in {"stopped", "low"}
        /\ stat' = StartRegular(Calls, s)
    BY <1>5, <1>14 DEF StartRegularSimulation, s
  <2> QED
    BY <1>3, <1>4, <2>1, StartRegularHandles
<1>15. CASE StopRegularSimulation
  <2>1. /\ ~overtaken /\ stat.alarm # 0 /\ turned' = turned /\ stat.phase = "regular"
        /\ stat' = StopRegular(Calls, s)
    BY <1>5, <1>15 DEF StopRegularSimulation, s
  <2> QED
    BY <1>3, <1>4, <2>1, StopRegularHandles
<1>16. CASE StartLowLevelSimulation
  <2>1. /\ ~overtaken /\ stat.alarm # 0 /\ turned' = turned /\ stat.phase \in {"stopped", "regular"}
        /\ stat' = StartLowLevel(Calls, s)
    BY <1>5, <1>16 DEF StartLowLevelSimulation, s
  <2> QED
    BY <1>3, <1>4, <2>1, StartLowLevelHandles
<1>17. CASE RemoveCommodity
  <2>1. /\ ~overtaken /\ stat.alarm # 0 /\ turned' = turned /\ stat' = RemoveStatistic(Calls, s)
    BY <1>5, <1>17 DEF RemoveCommodity, s
  <2> QED
    BY <1>3, <1>4, <2>1, RemoveHandles
<1>18. ASSUME NEW simulating \in BOOLEAN, AddStatistic(simulating) PROVE Undisturbed'
  <2>1. stat' = Constructed(simulating, stat.removes)
    BY <1>18 DEF AddStatistic
  <2>2. Ready(stat') /\ Follows(stat') /\ ~stat'.leaked
    BY <1>1, <2>1, ConstructedIs
  <2> QED
    BY <2>2, HandledKeeps
<1> QED
  BY <1>6, <1>7, <1>8, <1>9, <1>10, <1>11, <1>12, <1>13, <1>14, <1>15, <1>16, <1>17, <1>18 DEF Next

LEMMA CommodityStep ==
    ASSUME IndInv, [Next]_vars PROVE IndInv'
<1>1. CASE UNCHANGED vars
  <2>1. stat' = stat /\ overtaken' = overtaken /\ turned' = turned
    BY <1>1 DEF vars
  <2> QED
    BY <2>1 DEF IndInv, Undisturbed, Idle, Sound, Tight, Phased, Dressed, Fitting, StatePlaced, Unmet, Due, WellFormed
<1>2. CASE Next
  <2>1. WellFormed(stat')
    BY <1>2, TypedStep DEF IndInv
  <2>2. {overtaken', turned'} \subseteq BOOLEAN
    BY <1>2 DEF IndInv, Next, Tick, Alarm, ChangeValue, ChangeDecay, ChangeConvergence, ChangeModifiers,
                ChangeDecayRate, GetValue, StartRegularSimulation, StopRegularSimulation,
                StartLowLevelSimulation, RemoveCommodity, AddStatistic, Overtakes
  <2> QED
    BY <1>2, <2>1, <2>2, UndisturbedStep DEF IndInv
<1> QED
  BY <1>1, <1>2

\* What the invariant holds together.
THEOREM CommodityInvariant == Spec => []IndInv
<1>1. Init => IndInv
  BY CommodityInit
<1>2. IndInv /\ [Next]_vars => IndInv'
  BY CommodityStep
<1> QED
  BY <1>1, <1>2, PTL DEF Spec

\* The record keeps its shape and the value its bounds, in whatever order the
\* handlers of a tick run. And until an alarm is overtaken no callback calls
\* callbacks deeper than four levels: _update_active_callback finds nothing
\* overdue, and only the callback of an object off the lot assigns a value.
THEOREM CommodityTypeCorrect ==
    Spec => [](stat \in StatRecord /\ (~overtaken => TypeOK))
<1>1. IndInv => stat \in StatRecord /\ (~overtaken => TypeOK)
  BY DEF IndInv, WellFormed, Undisturbed, Idle, Sound, TypeOK
<1> QED
  BY <1>1, CommodityInvariant, PTL

\* The alarm is set for the first of a sorted queue, whatever the callbacks of
\* an alarm or of a change of value add, remove and put back, until another
\* handler overtakes the alarm (_update_active_callback, _insert_callback_data).
THEOREM AlarmStaysOnEarliest == Spec => []AlarmOnEarliest
<1>1. IndInv => AlarmOnEarliest
  <2> SUFFICES ASSUME IndInv, ~overtaken PROVE AlarmOnEarliest
    BY DEF AlarmOnEarliest
  <2>1. /\ stat.callbacks \in Seq(Kind) /\ stat.trigger \in [Kind -> Int]
        /\ Ordered(stat) /\ AlarmSet(stat) /\ \A k \in Kind : stat.trigger[k] <= Never
    BY Fields DEF IndInv, WellFormed, Undisturbed, Idle, Sound, Tight
  <2>2. DOMAIN stat.callbacks = 1 .. Len(stat.callbacks) /\ Len(stat.callbacks) \in Nat
    BY <2>1
  <2>3. ASSUME NEW i \in 1 .. Len(stat.callbacks)
        PROVE  stat.alarm <= stat.trigger[stat.callbacks[i]]
    <3>1. stat.callbacks # <<>> /\ stat.callbacks[i] \in Kind /\ 1 \in 1 .. Len(stat.callbacks)
      BY <2>1, <2>2
    <3>2. Head(stat.callbacks) = stat.callbacks[1] /\ stat.callbacks[1] \in Kind
      BY <2>1, <3>1, HeadIsFirst
    <3>3. stat.alarm = stat.trigger[stat.callbacks[1]]
      BY <2>1, <3>1, <3>2 DEF AlarmSet
    <3>4. i = 1 \/ 1 < i
      OBVIOUS
    <3>5. stat.trigger[stat.callbacks[1]] <= stat.trigger[stat.callbacks[i]]
      BY <2>1, <3>1, <3>2, <3>4 DEF Ordered, Sorting
    <3> QED
      BY <3>3, <3>5
  <2>4. \A i, j \in 1 .. Len(stat.callbacks) :
           i < j => stat.trigger[stat.callbacks[i]] <= stat.trigger[stat.callbacks[j]]
    BY <2>1 DEF Ordered, Sorting
  <2> QED
    BY <2>2, <2>3, <2>4 DEF AlarmOnEarliest
<1> QED
  BY <1>1, CommodityInvariant, PTL

\* A simulated commodity waits for both bounds of the state it is in, and for
\* distress and failure, however its callbacks have called each other, until
\* another handler overtakes the alarm (_add_state_callback, on_initial_startup).
THEOREM CallbacksStayInPlace == Spec => [](~overtaken => CallbacksInPlace)
<1>1. IndInv => (~overtaken => CallbacksInPlace)
  BY DEF IndInv, Undisturbed, Idle, Phased, StatePlaced, CallbacksInPlace, UpDatum, DownDatum
<1> QED
  BY <1>1, CommodityInvariant, PTL

\* What it says of a tick in which no alarm is due.
LEMMA QuietFollows ==
    ASSUME IndInv, ~overtaken, ~turned, Quiet PROVE Follows(stat)
<1>1. Idle(stat) /\ Unmet(stat) /\ stat.alarm # 0
  BY DEF IndInv, Undisturbed, Quiet
<1>2. Ready(stat)
  BY <1>1, IdleIsReady
<1> QED
  BY <1>1, <1>2, UnmetFollows

\* The state is that of the value as it is by now, in every tick in which the
\* alarm has nothing left to do: the trigger times are those at which the value
\* meets the bounds (_update_state_up, _update_state_down).
THEOREM StateStaysFollowing == Spec => []StateFollowsValue
<1>1. IndInv => StateFollowsValue
  BY QuietFollows DEF StateFollowsValue, InStateOfValue, Follows, Current
<1> QED
  BY <1>1, CommodityInvariant, PTL

\* A Sim in distress waits to get over the threshold, until an alarm is
\* overtaken; and it has not got over it, with the exceptions of
\* StateStaysFollowing (_enter_distress, _exit_distress).
THEOREM DistressStaysReal == Spec => [](~overtaken => DistressIsReal)
<1>1. IndInv => (~overtaken => DistressIsReal)
  BY QuietFollows DEF DistressIsReal, Follows, Current, IndInv, Undisturbed, Idle, Phased
<1> QED
  BY <1>1, CommodityInvariant, PTL

\* The buff on the Sim is the one of the state the commodity is in, and no buff
\* is left there that nothing could remove any more, though _add_buff_callback
\* overwrites the handle of the last one: where only values of a state meet the
\* threshold of its buff, the Sim has no buff when the threshold is met, in
\* whatever order an alarm calls what else is due. Until an alarm is overtaken
\* (_set_state).
THEOREM BuffStaysOfCurrentState == Spec => [](~overtaken => BuffIsOfCurrentState)
<1>1. IndInv => (~overtaken => BuffIsOfCurrentState)
  <2> SUFFICES ASSUME IndInv, ~overtaken PROVE BuffIsOfCurrentState
    OBVIOUS
  <2>1. Phased(stat) /\ Dressed(stat) /\ (BuffTuning => ~stat.leaked)
    BY DEF IndInv, Undisturbed, Idle, Phased
  <2>2. stat.phase = "regular" => stat.state # None /\ stat.phase # "removed"
    BY <2>1, StatesAre DEF Phased
  <2> QED
    BY <2>1, <2>2 DEF BuffIsOfCurrentState, Dressed
<1> QED
  BY <1>1, CommodityInvariant, PTL
==============================================================================
