------------------------------ MODULE Commodity ------------------------------
(***************************************************************************)
(* One commodity of a Sim (statistics/commodity.py) on the machinery of    *)
(* continuous statistics (statistics/continuous_statistic.py): a queue of  *)
(* threshold callbacks ordered by the time at which the decaying value     *)
(* will meet them, a single alarm set for the first of them, and the       *)
(* callbacks by which the commodity changes state, puts buffs on the Sim,  *)
(* enters and leaves distress, fails, is topped up while off the lot and   *)
(* removes itself when it has converged.                                   *)
(*                                                                         *)
(* The object is a record, and its methods are operators from record to    *)
(* record: a handler runs to the end on one thread, and calls back into    *)
(* the statistic it was called from. What interleaves with the alarm, in   *)
(* any order and also within one tick of the timeline, are the handlers:   *)
(* one action for each. Times are kept relative to now.                    *)
(***************************************************************************)
EXTENDS ContinuousValue, Sequences, SequencesExt

CONSTANTS
    DefaultConvergence,     \* _default_convergence_value
    InitialValue,           \* get_initial_value()
    StateBounds,            \* commodity_states: their lower bounds, ascending
    BuffAddThreshold,       \* for each state, buff_add_threshold or NoData
    DistressThreshold,      \* commodity_distress.threshold_value
    FailureThreshold,       \* commodity_failure.threshold
    OffLotThreshold,        \* _off_lot_simulation.threshold
    OffLotValue,            \* _off_lot_simulation.value
    Core,                   \* core: a motive every Sim has
    RemoveOnConvergence,    \* the tunings of remove_on_convergence
    ValueChoices,           \* values others assign to the commodity
    ConvergenceChoices,     \* convergence values others give it
    MaxNested               \* how many calls of callbacks may be nested

VARIABLES
    stat,                   \* the statistic
    overtaken,              \* history, see Overtakes
    turned                  \* history, see ChangeConvergence

vars == <<stat, overtaken, turned>>

Kind == {"up", "down", "buff", "distress", "exit", "failure", "converge", "offlot"}

\* A callback datum that is None.
NoData == [cmp |-> "none", val |-> 0]

\* No state yet, or no buff: _current_state_index, _buff_handle are None.
None == 0

States == DOMAIN StateBounds

ASSUME CommodityAssumption ==
    /\ StateBounds \in Seq(Value) /\ StateBounds # <<>>
    /\ StateBounds[1] = MinValue
    /\ \A i, j \in States : i < j => StateBounds[i] < StateBounds[j]
    /\ \A i \in States : BuffAddThreshold[i] \in {NoData} \cup Threshold(Value)
    /\ {DefaultConvergence, InitialValue, DistressThreshold} \subseteq Value
    /\ {FailureThreshold, OffLotThreshold} \subseteq Threshold(Value)
    /\ OffLotValue \in Int
    /\ Core \in BOOLEAN /\ RemoveOnConvergence \subseteq BOOLEAN
    /\ ValueChoices \subseteq Value /\ ConvergenceChoices \subseteq Value
    /\ MaxNested \in Nat /\ MaxNested >= 4

(***************************************************************************)
(* The record of the statistic.                                            *)
(***************************************************************************)
StatRecord ==
    [ value : Value, lag : Nat, decay : BOOLEAN, convergence : Value,
      data : [Kind -> {NoData} \cup Threshold(Value)],  \* the callback slots
      callbacks : Seq(Kind),            \* _callbacks, soonest first
      trigger : [Kind -> Int],          \* _trigger_time, from now on
      alarm : Int, active : Kind \cup {"none"},
      suppress : BOOLEAN,               \* _suppress_update_active_callbacks
      state : {None} \cup States, buff : {None} \cup States,
      distressBuff : BOOLEAN,
      activatable : BOOLEAN,            \* _allow_convergence_callback_to_activate
      phase : {"regular", "stopped", "low", "removed"},
      removes : BOOLEAN,                \* remove_on_convergence of its tuning
      leaked : BOOLEAN,                 \* history: the handler that just ran
                                        \* left a buff on the Sim for good
      tooDeep : BOOLEAN ]               \* a call was left out, see Nested

Registered(s, k) == Contains(s.callbacks, k)

\* _find_state_index, of a value measured in halves.
FindHalf(half) ==
    LET reached == {i \in States : half >= 2 * StateBounds[i]}
    IN  IF reached = {} THEN 1 ELSE CHOOSE i \in reached : \A j \in reached : j <= i
FindState(v) == FindHalf(2 * v)

\* A loop: what is left of s when f, a function for each member of q, has been
\* applied in turn. (FoldLeft, as a recursive function that can be proved about.)
Through(f, s, q) ==
    LET after[n \in 0 .. Len(q)] == IF n = 0 THEN s ELSE f[q[n]][after[n - 1]]
    IN  after[Len(q)]

\* The members of q that are in a set, as they come.
Selected(q, kinds) ==
    Through([k \in Kind |-> [chosen \in Seq(Kind) |->
               IF k \in kinds THEN Append(chosen, k) ELSE chosen]], <<>>, q)

(***************************************************************************)
(* The queue: where a datum goes, literally as the code searches for it.   *)
(***************************************************************************)

\* One call of _find_insertion_point: what it calls itself with, or twice the
\* index it returns. Indices are from 0, as in the code.
Narrowed(s, k, range) ==
    LET start == range[1]
        end == range[2]
        index == (start + end) \div 2
        at(i) == s.trigger[s.callbacks[i + 1]]
    IN  IF start = end THEN range
        ELSE IF s.trigger[k] > at(index) THEN <<index + 1, end>>
        ELSE IF index = 0 \/ (s.trigger[k] < at(index) /\ s.trigger[k] < at(index - 1))
             THEN <<start, end - 1>>
        ELSE <<index, index>>

\* _find_insertion_point
InsertionPoint(s, k) ==
    LET count == Len(s.callbacks)
        call == [range \in (0 .. count) \X (0 .. count) |-> Narrowed(s, k, range)]
    IN  Through([i \in 1 .. count |-> call], <<0, count>>, [i \in 1 .. count |-> i])[1]

\* Mutant: the queue is left as it is.
Mutant_Unsorted(s) == s

\* list.sort(): stable, soonest first. A datum goes behind all that are not later.
Behind(s, done, k) ==
    CHOOSE i \in 0 .. Len(done) :
        /\ \A j \in 1 .. i : s.trigger[done[j]] <= s.trigger[k]
        /\ \A j \in i + 1 .. Len(done) : s.trigger[done[j]] > s.trigger[k]
Sorted(s) ==
    LET insert == [k \in Kind |-> [done \in Seq(Kind) |-> InsertAt(done, Behind(s, done, k) + 1, k)]]
    IN  [s EXCEPT !.callbacks = Through(insert, <<>>, @)]

ResetTrigger(s, k) == [s EXCEPT !.trigger[k] = TriggerTime(s, s.data[k])]

\* _insert_callback_data
Insert(s, k) == [s EXCEPT !.callbacks = InsertAt(@, InsertionPoint(s, k) + 1, k)]
InsertCallback(s, k) == Insert(ResetTrigger(UpdateValue(s), k), k)

\* The datum's place is left and its trigger time unset; no datum is active.
Unlinked(s, k) == [s EXCEPT !.callbacks = Selected(@, Kind \ {k}), !.trigger[k] = Never]

(***************************************************************************)
(* What a datum was made to call, and the alarm: they call each other, and *)
(* every operator is given what it may call. call[k] is a function from    *)
(* records to records, the call of callback k; call["overdue"] is what     *)
(* _update_active_callback does about a head of the queue that is overdue. *)
(***************************************************************************)

\* _update_active_callback: what is overdue is called, the alarm is set for
\* what is not. Nothing behind a datum without a trigger time is looked at.
UpdateActive(call, s) ==
    LET k == Head(s.callbacks)
    IN  IF s.suppress THEN s
        ELSE IF s.callbacks = <<>> \/ s.trigger[k] = Never
             THEN [s EXCEPT !.alarm = Never, !.active = "none"]
        ELSE IF s.trigger[k] <= 0 THEN call["overdue"][[s EXCEPT !.alarm = Never]]
        ELSE [s EXCEPT !.alarm = s.trigger[k], !.active = k]

\* remove_callback
RemoveCallback(call, s, k) ==
    IF ~Registered(s, k) THEN s
    ELSE IF s.active = k THEN UpdateActive(call, Unlinked(s, k)) ELSE Unlinked(s, k)

\* _trigger_callback: called, also when the datum was removed from the queue
\* while a copy of the queue is being gone through, and queued again unless the
\* call removed it, or put another datum in its slot.
Requeue(call, s, k, datum) ==
    IF Registered(s, k) /\ s.data[k] = datum
    THEN InsertCallback(RemoveCallback(call, s, k), k) ELSE s
Trigger(call, s, k) == Requeue(call, call[k][s], k, s.data[k])
CallOverdue(call, s) == UpdateActive(call, Trigger(call, s, Head(s.callbacks)))

\* remove_callback on a slot, which is then None.
Drop(call, s, k) == [RemoveCallback(call, s, k) EXCEPT !.data[k] = NoData]

\* add_callback_data
AlarmFor(call, s, k) == IF Head(s.callbacks) = k THEN UpdateActive(call, s) ELSE s
AddCallback(call, s, k) == AlarmFor(call, InsertCallback(s, k), k)

\* add_callback: a new datum in the slot, and in the queue.
Add(call, s, k, threshold) == AddCallback(call, [s EXCEPT !.data[k] = threshold], k)

\* _update_callbacks with equal values: new trigger times for all.
Refresh(s, k) == IF Registered(s, k) THEN ResetTrigger(s, k) ELSE s
RefreshAll(s) ==
    [s EXCEPT !.trigger = [k \in Kind |-> IF Registered(s, k) THEN TriggerTime(s, s.data[k])
                                          ELSE @[k]]]
RefreshCallbacks(call, s) == UpdateActive(call, Sorted(RefreshAll(UpdateValue(s))))

\* _update_callbacks: those a change of value has crossed are called, in the
\* order in which it crossed them. They, and their thresholds, are those of
\* before the first call.
Crossed(threshold, old, new) == ~Compare(threshold, old) /\ Compare(threshold, new)
CallCrossed(call, s, old, new) ==
    LET visit(t, k) == Refresh(IF Crossed(s.data[k], old, new) THEN call[k][t] ELSE t, k)
    IN  Through([k \in Kind |-> [t \in StatRecord |-> visit(t, k)]], s,
                IF old <= new THEN s.callbacks ELSE Reverse(s.callbacks))
UpdateCallbacks(call, s, old, new) ==
    IF old = new THEN RefreshCallbacks(call, s)
    ELSE UpdateActive(call, Sorted(CallCrossed(call, UpdateValue(s), old, new)))

\* decay_enabled
SetDecay(call, s, enabled) ==
    IF s.decay = enabled THEN s
    ELSE RefreshCallbacks(call, [UpdateValue(s) EXCEPT !.decay = enabled])

\* convergence_value: assigned first, so that the time since the last update
\* is decayed towards the new convergence value.
SetConvergence(call, s, v) == RefreshCallbacks(call, [s EXCEPT !.convergence = v])

\* _activate_convergence_callback
ActivateConvergence(call, s) ==
    IF s.activatable /\ s.data["converge"] # NoData
    THEN [AddCallback(call, s, "converge") EXCEPT !.activatable = FALSE]
    ELSE [s EXCEPT !.activatable = FALSE]

\* set_value
Assign(call, s, v) == UpdateCallbacks(call, [s EXCEPT !.value = v], s.value, v)
SetValue(call, s, v) == ActivateConvergence(call, Assign(call, UpdateValue(s), Clamp(v)))

(***************************************************************************)
(* States and their buffs.                                                 *)
(***************************************************************************)

\* ... the buff of a state is added at once, or when its threshold is met.
DelayBuff(call, s, i, v) ==
    IF BuffAddThreshold[i] # NoData /\ ~Compare(BuffAddThreshold[i], v)
    THEN Add(call, s, "buff", BuffAddThreshold[i]) ELSE [s EXCEPT !.buff = i]

\* Mutant: the buff of the state that is left is not removed.
Mutant_BuffStays(call, s, i, v) == DelayBuff(call, [s EXCEPT !.state = i], i, v)

\* _set_state
SetState(call, s, i, v) ==
    DelayBuff(call, [Drop(call, [s EXCEPT !.state = i], "buff") EXCEPT !.buff = None], i, v)

\* Mutant: a value that moved far moves the state by one.
Mutant_OneStateOnly(call, s, desired, step) == SetState(call, s, s.state + step, s.value)

\* One state after the other, up or down, to the desired one.
SetStates(call, s, desired, step) ==
    Through([i \in States |-> [t \in StatRecord |-> SetState(call, t, i, s.value)]], s,
            [n \in 1 .. step * (desired - s.state) |-> s.state + step * n])

AddUp(call, s) ==
    IF s.state + 1 \notin States THEN s
    ELSE Add(call, s, "up", [cmp |-> "ge", val |-> StateBounds[s.state + 1]])
AddDown(call, s) ==
    IF StateBounds[s.state] <= MinValue THEN s
    ELSE Add(call, s, "down", [cmp |-> "lt", val |-> StateBounds[s.state]])

\* Mutant: a state waits for the bound above it only.
Mutant_OnlyUp(call, s) == AddUp(call, s)

\* _add_state_callback
AddStateCallbacks(call, s) == AddDown(call, AddUp(call, s))

\* _remove_state_callback
RemoveStateCallbacks(call, s) == Drop(call, Drop(call, Drop(call, s, "up"), "down"), "buff")

\* _update_state_callback, of a value just read
UpdateStateCallback(call, s, desired) ==
    IF FindState(s.value) > desired THEN call["up"][s]
    ELSE IF FindState(s.value) < desired THEN call["down"][s]
    ELSE AddStateCallbacks(call, s)

\* _update_state_up and _update_state_down, of a value just read; EPSILON helps
\* a value that is on the bound over it.
Desired(s, step) ==
    IF FindState(s.value) = s.state THEN FindHalf(2 * s.value + step) ELSE FindState(s.value)
ChangeState(call, s, desired, step) ==
    IF desired = s.state THEN s
    ELSE UpdateStateCallback(
           call, SetStates(call, RemoveStateCallbacks(call, s), desired, step), desired)
MoveState(call, s, step) == ChangeState(call, s, Desired(s, step), step)

StateUp(call, s) == MoveState(call, UpdateValue(s), 1)
StateDown(call, s) == MoveState(call, UpdateValue(s), -1)

\* _add_buff_callback: the handle of a buff the Sim has already is forgotten.
AddBuff(call, s) ==
    [Drop(call, s, "buff") EXCEPT !.buff = s.state, !.leaked = @ \/ s.buff # None]

(***************************************************************************)
(* Distress. The Sim is instanced while its commodities are simulated.     *)
(***************************************************************************)

\* Mutant: no callback is added that ends the distress.
Mutant_NoWayOut(call, s) == [s EXCEPT !.distressBuff = TRUE]

\* _enter_distress
WaitToExit(call, s) ==
    IF s.data["exit"] # NoData THEN s
    ELSE Add(call, s, "exit", [cmp |-> "gt", val |-> DistressThreshold])
EnterDistress(call, s) == WaitToExit(call, [s EXCEPT !.distressBuff = TRUE])

\* _exit_distress
ExitDistress(call, s) == Drop(call, [s EXCEPT !.distressBuff = FALSE], "exit")

(***************************************************************************)
(* Starting and stopping.                                                  *)
(***************************************************************************)

\* A commodity that one of its callbacks removed on the way is out of the tracker.
In(phase, s) == IF s.phase = "removed" THEN s ELSE [s EXCEPT !.phase = phase]

\* stop_regular_simulation
DropDistress(call, s) == ExitDistress(call, Drop(call, s, "distress"))
StopDecay(call, s) == SetDecay(call, RemoveStateCallbacks(call, s), FALSE)
StopRegular(call, s) ==
    In("stopped",
       Drop(call, DropDistress(call, Drop(call, StopDecay(call, s), "converge")), "failure"))

\* stop_low_level_simulation: the slot keeps the datum.
StopLowLevel(call, s) == RemoveCallback(call, SetDecay(call, s, FALSE), "offlot")

\* start_low_level_simulation of the commodity, and of the tracker, for the
\* commodities it still has when it has stopped them.
SimulateLow(call, s) == SetDecay(call, Add(call, s, "offlot", OffLotThreshold), TRUE)
StartLowLevel(call, s) ==
    LET stopped == StopRegular(call, s)
    IN  IF stopped.phase = "removed" THEN stopped ELSE In("low", SimulateLow(call, stopped))

\* on_initial_startup
AwaitBadNews(call, s) ==
    Add(call, Add(call, s, "distress", [cmp |-> "le", val |-> DistressThreshold]),
        "failure", FailureThreshold)
EnterState(call, s) ==
    IF s.state = FindState(s.value) THEN s ELSE SetState(call, s, FindState(s.value), s.value)
AwaitConvergence(call, s, activate) ==
    IF ~s.removes \/ s.data["converge"] # NoData THEN s
    ELSE IF activate
         THEN [Add(call, s, "converge", [cmp |-> "eq", val |-> s.convergence])
                 EXCEPT !.activatable = FALSE]
         ELSE [s EXCEPT !.data["converge"] = [cmp |-> "eq", val |-> s.convergence],
                        !.activatable = TRUE]
EnterStateNow(call, s) ==
    AddStateCallbacks(call, EnterState(call, UpdateValue(RemoveStateCallbacks(call, s))))
OnInitialStartup(call, s, activate) ==
    In("regular",
       AwaitConvergence(call, SetDecay(call, EnterStateNow(call, AwaitBadNews(call, s)), TRUE),
                        activate))

\* start_regular_simulation of the tracker
StartRegular(call, s) ==
    LET stopped == StopLowLevel(call, s)
    IN  IF stopped.phase = "removed" THEN stopped ELSE OnInitialStartup(call, stopped, TRUE)

\* remove_statistic of the tracker, on_remove of the statistic
Cleared(s) ==
    [s EXCEPT !.alarm = Never, !.callbacks = <<>>, !.active = "none",
              !.trigger = [k \in Kind |-> Never]]
RemoveStatistic(call, s) ==
    IF s.phase = "removed" THEN s
    ELSE [StopLowLevel(call, StopRegular(call, Cleared(s)))
            EXCEPT !.buff = None, !.distressBuff = FALSE, !.phase = "removed"]

(***************************************************************************)
(* The calls. Nothing calls deeper than MaxNested, see tooDeep in TypeOK.  *)
(***************************************************************************)
Handle(call, s, k) ==
    CASE k = "up" -> StateUp(call, s)
      [] k = "down" -> StateDown(call, s)
      [] k = "buff" -> AddBuff(call, s)
      [] k = "distress" -> EnterDistress(call, s)
      [] k = "exit" -> ExitDistress(call, s)
      [] k = "failure" -> s
      [] k = "converge" -> RemoveStatistic(call, s)
      [] k = "offlot" -> SetValue(call, s, UpdateValue(s).value + OffLotValue)
      [] k = "overdue" -> CallOverdue(call, s)

Nested[n \in 0 .. MaxNested] ==
    [k \in Kind \cup {"overdue"} |-> [s \in StatRecord |->
        IF n = 0 THEN [s EXCEPT !.tooDeep = TRUE] ELSE Handle(Nested[n - 1], s, k)]]
Calls == Nested[MaxNested]

\* A statistic that was just made; add_statistic of the tracker.
Constructed(simulating, removes) ==
    LET s == [ value |-> InitialValue, lag |-> 0, decay |-> FALSE,
               convergence |-> DefaultConvergence,
               data |-> [k \in Kind |-> NoData], callbacks |-> <<>>,
               trigger |-> [k \in Kind |-> Never], alarm |-> Never, active |-> "none",
               suppress |-> FALSE, state |-> None, buff |-> None, distressBuff |-> FALSE,
               activatable |-> FALSE, phase |-> "stopped", removes |-> removes,
               leaked |-> FALSE, tooDeep |-> FALSE ]
    IN  IF simulating THEN OnInitialStartup(Calls, s, InitialValue # DefaultConvergence) ELSE s

Init ==
    /\ \E simulating \in BOOLEAN, removes \in RemoveOnConvergence :
          stat = Constructed(simulating, removes)
    /\ overtaken = FALSE /\ turned = FALSE

(***************************************************************************)
(* Time passes, in units of the timeline, and the alarm goes off.          *)
(***************************************************************************)

\* By then every value has reached every other: a longer lag is no different.
LagBound == MaxValue - MinValue + 1

Later(t) == IF t \in {Never, -1} THEN t ELSE t - 1

\* The statistic as a handler finds it: what was noted of the last one is gone.
Found == [stat EXCEPT !.leaked = FALSE]

Tick ==
    /\ stat.alarm # 0
    /\ stat' = [Found EXCEPT !.lag = IF @ = LagBound THEN @ ELSE @ + 1,
                            !.alarm = Later(@),
                            !.trigger = [k \in Kind |-> Later(@[k])]]
    /\ UNCHANGED <<overtaken, turned>>

\* _alarm_callback: everything due at the time of the active datum is called.
DueTogether(s) ==
    Selected(s.callbacks, {k \in Kind : /\ s.trigger[k] # Never
                                        /\ s.trigger[k] = s.trigger[s.active]})
CallAll(s, due) ==
    Through([k \in Kind |-> [t \in StatRecord |-> Trigger(Calls, t, k)]], s, due)
Alarm ==
    /\ stat.alarm = 0
    /\ stat' = UpdateActive(Calls,
                 [CallAll([Found EXCEPT !.alarm = Never, !.suppress = TRUE], DueTogether(stat))
                    EXCEPT !.suppress = FALSE])
    /\ UNCHANGED <<overtaken, turned>>

(***************************************************************************)
(* What the rest of the simulation does to the commodity, also in the tick *)
(* of an alarm before the alarm.                                           *)
(***************************************************************************)

\* The handler may find an alarm due, and what it changes may be what the alarm
\* is set for: the alarm of this commodity has been overtaken.
Overtakes == overtaken' = (overtaken \/ stat.alarm = 0)

Exists == stat.phase # "removed"

\* _cleanup_noncore_commodity
CleanUp(s) ==
    IF s.phase # "removed" /\ ~Core /\ s.removes
       /\ UpdateValue(s).value = s.convergence
    THEN RemoveStatistic(Calls, s) ELSE s

\* set_value and add_value of the tracker
ChangeValue(v) ==
    /\ Exists
    /\ stat' = CleanUp(SetValue(Calls, Found, v))
    /\ Overtakes /\ UNCHANGED turned

\* A Sim's lock on a commodity stops and starts its decay.
ChangeDecay(enabled) ==
    /\ stat.phase = "regular"
    /\ stat' = SetDecay(Calls, Found, enabled)
    /\ Overtakes /\ UNCHANGED turned

\* What has not been read yet of the decay is lost, or made, by a new
\* convergence value.
Jumps(v) == DecayedValue([stat EXCEPT !.convergence = v]) # DecayedValue(stat)

\* set_convergence and reset_convergence of the tracker
ChangeConvergence(v) ==
    /\ Exists
    /\ stat' = SetConvergence(Calls, Found, v)
    /\ Overtakes /\ turned' = (turned \/ Jumps(v))

\* add_statistic_modifier and remove_statistic_modifier
ChangeModifiers ==
    /\ Exists
    /\ stat' = ActivateConvergence(Calls, RefreshCallbacks(Calls, Found))
    /\ Overtakes /\ UNCHANGED turned

\* add_decay_rate_modifier and remove_decay_rate_modifier
ChangeDecayRate ==
    /\ Exists
    /\ stat' = UpdateActive(Calls, RefreshAll(UpdateValue(Found)))
    /\ Overtakes /\ UNCHANGED turned

\* get_value
GetValue ==
    /\ Exists
    /\ stat' = UpdateValue(Found)
    /\ UNCHANGED <<overtaken, turned>>

\* start_regular_simulation of the tracker
StartRegularSimulation ==
    /\ stat.phase \in {"stopped", "low"}
    /\ stat' = StartRegular(Calls, Found)
    /\ Overtakes /\ UNCHANGED turned

\* stop_regular_simulation of the tracker
StopRegularSimulation ==
    /\ stat.phase = "regular"
    /\ stat' = StopRegular(Calls, Found)
    /\ Overtakes /\ UNCHANGED turned

\* start_low_level_simulation of the tracker
StartLowLevelSimulation ==
    /\ stat.phase \in {"stopped", "regular"}
    /\ stat' = StartLowLevel(Calls, Found)
    /\ Overtakes /\ UNCHANGED turned

\* remove_statistic of the tracker: a buff that brought the commodity has gone.
RemoveCommodity ==
    /\ Exists /\ ~Core
    /\ stat' = RemoveStatistic(Calls, Found)
    /\ Overtakes /\ UNCHANGED turned

\* add_statistic of the tracker
AddStatistic(simulating) ==
    /\ ~Exists
    /\ stat' = Constructed(simulating, stat.removes)
    /\ overtaken' = FALSE /\ turned' = FALSE

Next ==
    \/ Tick \/ Alarm
    \/ \E v \in ValueChoices : ChangeValue(v)
    \/ \E enabled \in BOOLEAN : ChangeDecay(enabled)
    \/ \E v \in ConvergenceChoices : ChangeConvergence(v)
    \/ ChangeModifiers \/ ChangeDecayRate \/ GetValue
    \/ StartRegularSimulation \/ StopRegularSimulation \/ StartLowLevelSimulation
    \/ RemoveCommodity
    \/ \E simulating \in BOOLEAN : AddStatistic(simulating)

Spec == Init /\ [][Next]_vars

(***************************************************************************)
(* Properties.                                                             *)
(***************************************************************************)

\* The record keeps its shape, and the value its bounds: the decay stops at
\* the convergence value, and what is assigned is clamped.
TypeOK == stat \in StatRecord /\ ~stat.tooDeep

\* No callback is due in this tick, so the alarm has nothing left to do.
Quiet == stat.alarm # 0

\* _update_active_callback: the queue is in the order of the trigger times,
\* and the one alarm is set for the first of them, whatever the callbacks of
\* an alarm or of a change of value added, removed and put back. Not so any
\* more once another handler overtook the alarm in its tick: a threshold the
\* value has met has no trigger time (:390), and add_decay_rate_modifier does
\* not sort (:522).
AlarmOnEarliest ==
    ~overtaken =>
        /\ \A i, j \in DOMAIN stat.callbacks :
              i < j => stat.trigger[stat.callbacks[i]] <= stat.trigger[stat.callbacks[j]]
        /\ \A i \in DOMAIN stat.callbacks : stat.alarm <= stat.trigger[stat.callbacks[i]]

\* _add_state_callback: a simulated commodity waits for the bounds of the
\* state it is in, both of them and no others, and for distress and failure.
CallbacksInPlace ==
    stat.phase = "regular" =>
        /\ Registered(stat, "up") <=> stat.state + 1 \in States
        /\ Registered(stat, "down") <=> StateBounds[stat.state] > MinValue
        /\ Registered(stat, "distress") /\ Registered(stat, "failure")
        /\ Registered(stat, "up") => stat.data["up"].val = StateBounds[stat.state + 1]
        /\ Registered(stat, "down") => stat.data["down"].val = StateBounds[stat.state]

\* The state is the one of the value as it is by now, though nobody has read
\* the value since it began to decay.
InStateOfValue ==
    stat.phase = "regular" /\ Quiet => stat.state = FindState(DecayedValue(stat))

\* _update_state_up and _update_state_down: the state follows the value, whatever
\* changes the value, its decay or what it waits for, in whatever order with the
\* alarms; unless a handler overtook an alarm in its tick, or the value jumped
\* over a bound with the convergence value.
StateFollowsValue == ~overtaken /\ ~turned => InStateOfValue

\* A tuning by which only values of a state meet the threshold of its buff: it
\* "must be within this commodity state" (:97), the threshold and all above it.
BuffTuning ==
    \A i \in States : BuffAddThreshold[i] # NoData =>
        /\ BuffAddThreshold[i].cmp # "eq"
        /\ \A v \in Value : Compare(BuffAddThreshold[i], v) => FindState(v) = i

\* _set_state: the buff on the Sim is the one of the state the commodity is
\* in, from the start unless the state delays it by a threshold. And with such
\* a tuning the handle of a buff is not overwritten while the Sim has it, when
\* nothing could remove that buff any more.
BuffIsOfCurrentState ==
    /\ BuffTuning => ~stat.leaked
    /\ stat.buff \in {None, stat.state}
    /\ stat.phase = "regular" /\ BuffAddThreshold[stat.state] = NoData
          => stat.buff = stat.state

\* _exit_distress: a Sim in distress is waiting to leave it; and it has not got
\* over the threshold already, with the exceptions of StateFollowsValue.
DistressIsReal ==
    stat.phase = "regular" /\ Quiet /\ stat.distressBuff
        => /\ Registered(stat, "exit")
           /\ ~overtaken /\ ~turned => DecayedValue(stat) <= DistressThreshold

(***************************************************************************)
(* What the tuning says of a commodity and the code does not keep.         *)
(***************************************************************************)

\* A buff is on the Sim "when commodity is at this current state" (:97): not
\* when the commodity is gone, "removed when convergence is met" (:120).
RemovedLeavesNothing ==
    stat.phase = "removed" =>
        /\ stat.callbacks = <<>> /\ stat.alarm = Never
        /\ stat.buff = None /\ ~stat.distressBuff

\* A state has a "lower bound value", and its buff is on the Sim "when commodity
\* is at this current state" (:97). Also when the alarm of the bound is called
\* off by a handler that runs in its tick, before it: the value has met the
\* bound by then, and nobody looks at it again (continuous_statistic.py:390).
KeptWhenOvertaken == ~turned => InStateOfValue

\* The same, also when the convergence value changes before the value is read:
\* the setter assigns it first, so that the time since the last reading counts
\* for the new one (continuous_statistic.py:302).
KeptWhenTurned == ~overtaken => InStateOfValue
==============================================================================
