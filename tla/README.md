# TLA+ models of the Sims 4 game server

This directory holds TLA+ modules, TLC configurations and TLAPS proofs for
parts of the Python game server in `src/` (paths below are relative to `src/`).
`PROJECT.json` names, for every definition that models code, the lines it
stands for; this document says what the parts are, how they are modelled, what
was checked and proved, and what was left out.

Contents: 1 how the source was read; 2 the system and its parts; 3 the
modules; 4 the runs; 5 the proofs; 6 fairness; 7 where code and comments
disagree; 8 what is not modelled; 9 what is left.

## 1. How the source was read

The repository is decompiled bytecode: `base/lib` is the Python standard
library, `core/sims4` the engine utilities, `simulation/` the game. It has no
tests of the game and hardly any comments; what the code is meant to do is said
by tuning descriptions, docstrings, log messages and names. The decompiler left
four traces that matter to a model:

* `while c: ... return` or `... break` at the end of a loop body is printed for
  an `if`;
* an augmented assignment to an attribute (`self.x += ...`) is sometimes
  missing altogether. `GameClock.advance_for_hitting_their_marks` has no effect
  as printed, `FamilyFunds._reserved` never changes, and
  `BaseStatistic._statistic_modifier` is only ever assigned 0;
* `continue` is printed as a `pass` under its condition;
* `yield from g` is printed as `yield g`.

**Rule.** A module translates the text as it stands. A `while` whose body ends
by leaving the loop is an `if`; a literal endless loop is modelled as a hang
(`hung` in `ResetService`) or, when a whole component is nothing else, the
component is left out (section 8). What is reconstructed beyond that is this:

* *The delegation of generators*: `yield g` is read as running `g` to its end,
  which is what the elements of the timeline do with what they are given.
* *Two nested loops of `Timeline.simulate`* (`while self.heap: while
  self.heap[0].when <= until:`), with those of `soft_stop` and
  `_collect_element_tree`, which as printed would not end for any heap: the inner
  `while` is read as the condition of its loop, as the time slice and the lines
  after the loop require.
* *The loops of the whim tracker* that count, append or check inside a `for` and do
  not leave the loop (`whims_tracker.py:269, 292, 305, 353, 362, 425`): as printed
  nothing they count or append to changes their condition, and no whim could ever
  be offered. They are read as `if`, as are by the rule those at :118 and :276,
  which leave the loop.
* *The lost `continue`* (a `pass`, or nothing, at the end of a condition that has
  found an empty slot) in the loops of `_send_goals_update` and `_verify_goals` of
  the tracker: what comes next uses the whim that is not there, and is skipped.

## 2. The system and its parts

One process runs one zone on one thread. Native code calls
`c_api_server_tick` (`areaserver.py`), which updates the zone; the zone ticks
its clock, runs the elements that are due on the timeline (alarms, interactions
and routines are elements), and updates situations and broadcasters. There is
no parallelism; concurrency is that of *generators that wait on a timeline*, of
*callbacks into code that is still running*, and of *native calls that complete
later*.

| part | state it keeps | operations | interacts with | hard behaviour | what makes it correct |
|---|---|---|---|---|---|
| reset and delete service (`services/reset_and_delete_service.py`, `reset.py`) | one record for each object, in the list of its stage; the position of a loop; Sims to restart | ask for a reset or destruction of one object or a batch; process | calls back into objects at each stage; stops elements; holds up the master controller | re-entrance; exceptions and `HardStopError` out of the loop; upgrades of the record in process | records neither lost nor doubled; a complete reset under the final reason; everything worked off |
| persistence service (`services/persistence_service.py`) and leaving clients (`areaserver.py`) | save timeline, locks, cooldown, error code | lock, unlock, save, disconnect | native persistence module; server ticks; client messages | a save superseded while it waits; late completions; generators closed in the middle | results, codes, answers belong to the save they are about; the zone runs again |
| game clock (`clock.py`) | speed, remembered speed, pause requests, speed requests, rounding error | set speed, pause, request, tick, restore, disconnect | player, interactions, travel, loading | sources with different rights in any order; rounding carried for ever | pauses hold, unpausing unpauses, nothing but the error the clock counts again is lost of its time |
| adaptive clock speed (`adaptive_clock_speed.py`) | since when the simulation lags, or does not | update | game clock, sim timeline | stale times across speed changes and zones | switches only after a consistent lag |
| continuous statistics (`statistics/continuous_statistic.py`) | a value decaying lazily, a queue of thresholds, one alarm | assign, read, decay on/off, converge, add and remove callbacks | alarms; callbacks re-enter the statistic | queue changed while it is gone through; rounding; other handlers in the alarm's tick | every threshold reported when met, once, not earlier |
| commodities (`statistics/commodity.py`) | state, buff, distress, eight callback slots | start, stop, low-level simulation, remove | statistics, buffs, the Sim | callbacks that replace each other; restarts | state and buffs are those of the value |
| timeline and elements (`scheduling.py`, `elements.py`) | a heap of handles, the active element, trees of parents and children | schedule, run a child, hard stop, soft stop, simulate within a time slice | everybody | a callback stops, or raises in, the tree that is running; exceptions swallowed | no tree is left half stopped; what is due finally is called once |
| alarms (`alarms.py`) | handles, weakly registered; owners | set, cancel, collect, call | timeline | cancelled, collected or orphaned in its own callback | an alarm that is void is silent |
| careers (`careers/`, `scheduler.py`) | level, session, attendance, promotions, tones, history | join, quit, retire, attend, leave, promote, demote, load | schedules, alarms, interactions, away actions, travel, dialogs | three ways a shift ends, in any order; late answers; loading in the middle of a shift | a shift is paid once, at its end; a session ends |
| whims (`whims/whims_tracker.py`, `aspirations/`) | sets triggered, chained or cooling, an alarm each; whims offered and shown | trigger, time out, cool down, offer, complete, dismiss, load | milestones, moods, alarms, the client | timers against completed whims; moods against saved whims | a set has the alarm that ends what it is; what is shown is real |
| indexed and object managers (`indexed_manager.py`, `objects/object_manager.py`) | objects by id, ids being removed | add, remove, callbacks | reset service, zones | callbacks that raise or re-enter | an id names one live object |
| interactions, queue, super-interaction state (`interactions/`) | queue, running interactions, liabilities, finishers | append, run, cancel | timeline, postures, reservations | cancellation in every phase | liabilities released exactly once |
| reservations (`interactions/utils/reserve.py`, `objects/mixins.py`) | who uses an object | begin, end | interactions | nested and cancelled use | use lists empty in the end |
| postures and transitions (`postures/`) | posture state, transition plans | plan, push | routing, interactions | plans invalid when executed | a Sim is always in one body posture |
| autonomy (`autonomy/`) | requests, scores | score, choose | interactions | time-sliced over ticks | stale scores not acted on |
| situations and bouncer (`situations/`) | requests, jobs, states | create, fill, destroy | Sims, filters | Sims that leave between assignment and arrival | one situation job at a time |
| zone, spin-up, service manager (`zone.py`, `zone_spin_up_service.py`, `core/sims4/service_manager.py`) | zone state, services in order | start, stop, spin up | all services | a service that fails half-way | stopped in reverse order |
| master controller and Sims (`sims/`) | which Sims may run work | update, reset | queue, reset service | restart during a reset | no Sim runs two works |
| super speed three, funds and bills, inventories and live drag, distributor and dialogs, social groups, fire, broadcasters | various | various | various | see section 8 | |
| server commands, GSI handlers | none | cheats and debug views | all | | |
| tuning, standard library, protocol buffers | data | load | all | | third-party or generated |

## 3. The modules

Definitions whose names begin with `Mutant_` are deliberately wrong variants of
the definition next to them: each property is violated under one of them, which
shows that it can fail.

### Reset and delete service

`ResetService` models the whole of `ResetAndDeleteService` and the elements
that resume it.

* *State.* `reason`, `stage` and `elements` are the fields of the records
  (`reason[o] = NONE`: no record), `staged` the list of each stage, `processing`
  is `_is_processing`. Because the service is re-entered in the middle of its
  loop, the loop's position is state too: `cursor` (the `for stage`),
  `handling` (the record in process), `updateStage` (the local variable),
  `gathering`, and `hung` for the `while is_new` loops, which never end once a
  dependent is new. `pokedSims`, `resetInProgress` and `inManager` are what the
  service changes outside of itself. `handled` and `requests` are history.
* *Actions.* `TriggerNew`, `TriggerAgain` and `TriggerBatch` are requests, also
  from a callback while a record is handled (`CanCall`); `GatherKnown`,
  `GatherNew` and `EndGather` collect what depends on an object; `BeginPass`,
  `SkipStage`, `ProcessOneRecord`, `FinishProcessing` are the loop. A callback
  ends in `CallbackReturns` (which may poke a Sim or destroy the object),
  `CallbackRaises` or `HardStopEscapes`, after which `ResumeAfterHardStop` is the
  unwinding `ResettableElement`. `ScheduleElement` and `ElementResumes` are the
  life of a Sim's element.
* *Callbacks* of objects are modelled by what they can do to the service. The
  stages without a callback have none here either. It is assumed that
  notification and gathering callbacks neither ask for resets nor raise.

`ResetPromise` is what the rest of the zone may rely on, without records, lists
and loops: one pending reason for each object, which only grows; only what was
to be destroyed disappears, for good; the master controller waits until nothing
is pending. `KeepsPromise` is the refinement `pending <- reason, alive <-
inManager, busy <- resetInProgress`.

### Saving

`SaveGame` models the persistence service, the commands that call it and the
client that is saved before it leaves. Saves are numbered. `current` owns
`save_timeline`, `phase` is where its generator is, `woken` whether its element
was soft-stopped, `inFlight` holds the native operations not completed;
completions name the save that started them, which may be gone (`Complete`).
`SaveUsing` is one handler: it tears down the save before (`Superseding`,
`TearDown`: the `finally` clauses, and the bare `except` of the disconnect
generator, which also catches `GeneratorExit`) and schedules the new one. What a
save does between two yields is one action each: `FailLocked`, `FailOnCooldown`,
`WriteSlot`, `FailToStart`, `WriteAutosave`, `FailAutosave`, `Succeed`. A save
refused on cooldown ends without a report, as the code has it (section 7).
`LockSave`, `UnlockSave` and `SetReadWriteLock` come from gameplay and native
code at any time. `told` and `answers` record the messages. Assumed: the native
module completes an operation once, later than the call; the disconnect callback
does not raise.

### Game clock

`GameClock` models the clock with everybody who changes its speed. Multipliers
are whole numbers of parts of a tick (`D` parts), so that rounding is exact;
`exactTime` is the game time without rounding, and
`recounted` what the clock counts of its rounding errors more than once (section
7); `agreed` says that the speed in force is one the household requested together
(all three are history). `SetClockSpeed` is
`set_clock_speed` with its three sources; the player's, gameplay's, household's
and loading's actions call it as the code does. `TickGameClock` has the cap on
long steps, the rounding and the carried error. Super speed three is taken as
never active.

`AdaptiveClockSpeed` EXTENDS it with the update of a running zone: the tick and
the simulation (`TickAndSimulate`: the sim timeline catches up by some amount),
what the elements then do to the clock (`RunElements`), and
`UpdateAdaptiveSpeed`, called only if the clock is not paused. The ticks that it
remembers are globals of the module: a zone may start with one that an earlier
zone left there (`StaleTicks`; `inherited` says as long as it is in use).
`beyondSince` and `closeSince` record what the updates of this zone saw,
independently of what the code remembers. They are the lowest tick of the streak,
not the first, because game time may run backwards: with a negative rounding error
a tick of no length takes it back.

### Statistics and commodities

`ContinuousValue` is the arithmetic: where decay has brought a value
(`DecayedValue`), and after how many units it will meet a threshold
(`UnitsUntil`, `TriggerTime`). Values and times are whole numbers: floats and
minutes scaled. A strict comparison aims at a half value, as the code adds or
takes EPSILON.

`Commodity` is one commodity with its callback queue and alarm. The object is a
record (`stat`) and its methods are operators from record to record, because
they call each other through the queue: a callback assigns a value, which calls
callbacks. The methods that may call back have a parameter `call` for it, the
function from kinds of callbacks to what they do, and `Nested` ties the knot: a
call at depth n may call those of depth n - 1. A call below `MaxNested` levels
would be left out and set `tooDeep`; `TypeOK` says that there is none, so
nothing is lost. Loops over a copy of the queue are `Through`. An action is one
handler run to its end: `Alarm` for the alarm, `Tick` for time, and one for each
way the rest of the game touches a commodity (`ChangeValue`, `ChangeDecay`,
`ChangeConvergence`, `ChangeModifiers`, `ChangeDecayRate`, `GetValue`, starting
and stopping, `RemoveCommodity`, `AddStatistic`). All times are relative to now,
so there is no clock to bound; `lag` is capped at the number of units after
which every value has reached every other. The eight kinds of callback data are
the eight slots of `Commodity`. `leaked` is a note on the handler that just ran:
the handle of a buff was overwritten.

Within a tick handlers come in any order, also before the alarm that is due in it,
and the convergence value may change whether the value has been read or not. Two
pieces of history say that this has happened, since the code then does not keep all
its promises (section 7): `overtaken`, that a handler which sets trigger times anew
found the alarm due, and `turned`, that a change of the convergence value has made
the value jump.

### Timeline, elements and alarms

`Timeline` models `simulate`, the two ways of stopping, eight classes of
elements (`Kind`) and the alarms. The state `tl` is a record, because handlers
call each other and an exception leaves from the middle of them; `phase` says
where `simulate` is: between calls (`idle`), at the head of the heap (`pick`),
about to call `_run` or `_resume`, or inside a callback. `handle`, `when`,
`scheduled`, `parent` and `children` are the handles; times are relative to now,
so the model needs no clock.

* *Actions.* `Simulate` begins a call of `simulate`; `Pick` pops an element of
  the earliest time; `Run` and `Resume` are one turn of the inner loop, with
  `_run` and `_resume` of each class; `ExitEarly` and `Finish` end it. A callback
  ends in `CallbackReturns` or `CallbackRaises`. The actions of `Code` (schedule,
  hard and soft stop, add and cancel an alarm, drop its handle, lose its owner)
  happen between simulations or inside a callback.
* *Hard stops* (`StopTree`, `HardStop`, `Raise`): a stop takes the tree from its
  root. `_collect_element_tree` walks up the parent handles and then down the child
  handles; `Tree` says which elements that walk visits (those with no broken link
  between them and the element), so that it can be proved about. `MCTimeline` has
  the walk itself (`Root`, `Below`, RECURSIVE) and compares the two. Of the tree
  that is active it raises `HardStopError`, which the callback may swallow: then
  `pending` makes `simulate` raise it again.
* *Order.* Of elements of equal time any may come first: the counter that would
  order them is never incremented in this source.
* Assumed: what is called finally does not itself use the timeline.

### Careers

`WeeklySchedule` is the arithmetic of times of the week and of the next event.
`Career` is one Sim with the careers it may have: `job` for each (level,
session, attendance, alarms, registrations of the tones), `history`, `retired`,
open `dialogs`, the `work` interactions, the `away` action. The methods are
operators from one state of the Sim to the next (`StartSession`, `Attend`,
`CareerLoot`, `LeaveWork`, `Restart`, `Promote`, `Demote`, `RemoveCareer`), and
an action is a handler: the alarms (`WorkAlarm`, `EndAlarm`, `LateAlarm`), the
interaction (`InteractionStarts`, `InteractionDropped`, `InteractionEnds`), the
player and the dialogs (`Select`, `BranchChosen`, `Accept`, `Decline`, `Quit`,
`Retire`, `CallInSick`, `PickedLevel`, `GoToWork`, `LeaveEarly`, `ToneChosen`),
travel (`TravelToWork`, `SimReturns`) and the zone (`ReloadZone`,
`LoadingFinished`). Where the code raises in the middle of a handler the operator
stops there: `LeaveWork` without registered tones has paid and has not ended the
session. So it is with the command `careers.leave_work` for a Sim that has not come
(`LeaveEarly`, which asks nothing but that the Sim is there); `astray` counts these.
Travel with attendance has the three outcomes of `travel_tuning.py`: the Sim goes
alone, with the player, or stays (`TravelToWork`, `TravelAlong`, `TravelGivenUp`).
`evaluate_career_performance` is any `Verdict`. `pays`, `astray` and `untimed` are
history. It composes with `WeeklySchedule`, whose `NextAlarm` and `Beginning` say
when shifts begin.

### Whims

`Whims` is the tracker of one Sim: `active`, `chained`, `cooling` with the `alarm`
of each set, the `completed` milestones of the aspiration tracker that trigger
sets, the whims `realized`, those in the slots (`emotion`, `listed`), what was
last `shown`, and `delayed` offers. A whim is named by its set, since a set has
at most one whim on offer. `offer_goals` draws at random among goals that pass
their tests, so `Offers` is a set of outcomes. `SimAppears`, `StartLoading`,
`DismissStale` and `SimStarts` are the start of a Sim, where its buffs may change
the mood, and their events complete milestones, between the first offers and the
loading of the saved whims (`Hears`: only in the middle of the loading itself does
the tracker hear of nothing). A save is any set of whims, also more than there are
slots: since what loading overwrites stays realized, such saves exist. Then the
first normal whim too many takes the slot for an emotional one, and the rest is not
loaded (`LoadedSome`). `Save` resets the milestones of whim sets
(`aspirations.py:203`). `lost` is history: the sets whose alarm was taken away while
they cooled.

## 4. The runs

| run | instance | states | checks |
|---|---|---|---|
| `reset` | a Sim, an object, a part; two elements; five requests | 76 thousand | `TypeOK`, `RecordsStagedOnce`, `ElementsStoppedFirst`, `FullResetBeforeEnd`, `MasterControllerWaits`, `DestroyNeverRestarts`, `KeepsPromise`, `RecordsDrain` |
| `save_safety` | three saves, one lock, cooldown 1, clock to 2 | 2.8 million | `TypeOK`, `ErrorCodeIsCurrent`, `SuccessIsWritten`, `EveryoneAnswered`, `CooldownKept` |
| `save_liveness` | two saves, two holders, two locks | 96 thousand | `ShownUnlockedIsUnlocked`, `SimulationResumes` |
| `clock` | two Sims, two pause handles; fractional multipliers, ticks up to 2 with a cap of 1; symmetric | 174 thousand | `TypeOK`, `UnpauseUnpauses`, `HouseholdSpeedIsBacked`, `TimeOffByRecounting`, `PausesHold` |
| `adaptive_speed` | fractional multipliers, ticks up to 2 with a cap of 1, threshold and duration 1, a tick left by an earlier zone, three server ticks | 914 thousand | `SwitchesConsistently` |
| `commodity` | three states on 0..5, decaying in both directions, with and without removal on convergence, delayed top buff | 330 thousand | `TypeOK`, `AlarmOnEarliest`, `CallbacksInPlace`, `StateFollowsValue`, `BuffIsOfCurrentState`, `DistressIsReal` |
| `timeline` | a tree of eight elements, a one-shot and a repeating alarm | 115 thousand | `TypeOK`, `EveryWaitIsWoken`, `FinallyOnce`, `VoidAlarmsAreSilent`, `SoftStopEnds` |
| `career` | two careers, three tracks, a week of four ticks, one reload, one command to leave before the Sim has come | 356 thousand | `TypeOK`, `PaidOncePerShift`, `SessionWillEnd`, `RetiredHasNoCareer` |
| `career_live` | one career, a first day off, one reload | 33 thousand | `AtWorkEnds` |
| `whims` | four sets, two emotional; two moods, one slot beside the emotional one | 386 thousand | `TypeOK`, `SetsAccounted`, `OnOfferIsReal` |
| `clock_half_multiplier` | a multiplier of 1.5 | violated | `GameTimeKept` |
| `commodity_removed` | removal on convergence | violated | `RemovedLeavesNothing` |

What they show. *Reset*: `RecordsStagedOnce` to `MasterControllerWaits` are what
re-entrance and exceptions could break, `KeepsPromise` is the refinement,
`RecordsDrain` that every record is worked off and the master controller
released. *Saving*: the code and the answer of a save are its own
(`ErrorCodeIsCurrent`, `EveryoneAnswered`: the client that leaves and the one
that asked for a report), a success was written by that save, the cooldown is
kept, the lock shown to the player is the lock there is, and the zone runs
again. *Clock*: pauses hold against gameplay and unpausing unpauses; a fast
speed that the household got together ends when one of its Sims withdraws or
asks for less (`HouseholdSpeedIsBacked`), unless it does so behind a pause
request, where the clock stands and the speed is not given up (`clock.py:476`);
and over pauses and long ticks no time is lost or made but the errors that the
clock counts again (`TimeOffByRecounting`, section 7). `SwitchesConsistently`:
the multipliers change only after a lag as long as the reduced multiplier's
tuning says, and are the default ones at normal speed; only the first streak of
a zone may count from the tick of an earlier one. *Commodity*: state, buff and
distress are those of the value as decay has it by now, though nobody has read
it, in every order of the handlers of a tick. `AlarmOnEarliest`,
`StateFollowsValue` and the value in `DistressIsReal` except a commodity one of
whose alarms was overtaken, the latter two also a value that jumped with its
convergence value; the rest of the properties, and that the Sim in distress
waits to leave it, excepts neither. *Timeline*: nobody waits for an element that
is gone (`EveryWaitIsWoken`), `FinallyOnce`, `VoidAlarmsAreSilent`, and a soft
stop ends a tree. Before the run TLC evaluates an assumption of `MCTimeline`,
`CollectsTheTree`: in whatever part of the instance's tree is still live and
linked, the walk of `_collect_element_tree` visits what `Tree` says. *Career*:
the three ways a shift can end pay it once, at its end, and each command to
leave before the Sim has come pays once more in advance (`PaidOncePerShift`); an
open session has the alarm that will end it, through travel and reloads
(`SessionWillEnd`), and does end (`AtWorkEnds`); late dialogs do not give a
retired Sim a career. *Whims*: a set that is triggered has its timer, one that
cools the alarm that ends it unless its whim was completed or removed meanwhile,
and a completed milestone belongs to one of them (`SetsAccounted`: so a
milestone stays blocked only where the code loses an alarm); and nothing is
offered or shown that is not there or does not fit the mood (`OnOfferIsReal`).

Why the bounds are enough. *Reset*: three objects are one being processed, one
waiting and one asked for from a callback, and they cover the three kinds that
the code tells apart; five requests allow each reason to be upgraded twice while
another record is in process; two elements are one that is active on the stack
and one that is not. *Saving*: three saves are one torn down whose completion is
late, one that waits for its own, and one that supersedes it; a clock up to
twice the cooldown has times below, at and beyond it. *Clock*: every pair of
speed sources meets with two handles and two Sims, and nothing depends on a
third; ticks of length 0, 1 and 2 are below, at and beyond the cap, and with a
multiplier of 1.5 errors are carried and counted again, by ticks of no length,
too. The properties read only the difference of the two times, and so the states
are told apart by it (`VIEW`): no bound on game time is needed. *Adaptive*: a
lag can begin, persist beyond the duration and end within three ticks; states
are told apart by how long ago the remembered ticks are. Ticks of no length can
take game time back for ever, and `NotFarBack` bounds how far behind the
simulation it goes on being explored. *Commodity*: three states have a bottom, a
middle and a top; the rate of 2 leaves odd distances to be rounded up; the state
space is complete (there is no clock). Its `VIEW` only forgets `turned` of a
commodity that was overtaken, of which no property reads it. *Timeline*: the
tree is the shape of an interaction (a loop that sleeps beside a function, under
a critical section with a must-run cleanup, under a finally) and has every
class; the alarms meet it and each other in one callback; each root is scheduled
once, so what is scheduled twice is only the repeating alarm and what runs in
the loop. *Career*: one shift runs past the end of the week, one career can fire
and has a branch, the other cannot; with two careers a dialog can be open about
one while the other is left; a week of four ticks has times before, in and after
every shift; a second command to leave before the Sim has come would do what the
first does. *Whims*: one set is connected to another, one to itself; two have no
cooldown, one has a retest; two emotional ones can replace each other, and two
normal ones are one more than there are slots for. `ThreeSets` bounds the
exploration: a state in which all four are triggered, cool or have a whim
realized is checked, and not gone on from. Bounds on counters (`MaxRequests`,
`MaxSaves`, `MaxLocks`, `MaxTime`, `MaxServerTicks`, `MaxElapsed`, `MaxPauses`,
`MaxRuns`, `MaxAdvance`, `MaxOvertime`, `MaxListeners`, `MaxAstray`, `MaxLoads`,
`MaxDelayed`) are guards of the actions that count; `MaxNested` is a depth of
calls that is shown not to be reached (`TypeOK`); `DismissStale` has one more,
that a whim being loaded is not offered anew meanwhile. The `reset` run allows
deadlock: with its requests used up the service has nothing to do.

## 5. The proofs

`tlapm` checks every proof below from nothing; they hold for every value of
the constants that meets the named assumptions of the modules.

**`ResetServiceProofs`** (`ObjAssumption`, `BoundAssumption`). None of the
invariants is inductive alone: whether a record is staged once depends on where
the loop is. The inductive invariant is

    IInv == TypeOK /\ RecordsStagedOnce /\ ProcessingInv /\ ProgressInv /\ MasterControllerWaits

`ProcessingInv` says what the position of the loop means (a record is handled
only inside a pass, and has the stage the call gave it), `ProgressInv` which
stages a record has passed since it got its reason, and that its elements are
gone once it is past their stage. The lemmas about lists
(`AppendHolds` ... `RemoveFirstHolds`) say which elements the list operations
keep; one lemma for each action shows that it preserves `IInv`. From it follow
`TypeCorrect`, `StagedOnce`, `ElementsStopped`, `FullReset`, `ControllerWaits`,
the action property `DestroyedNotRestarted`, and `Implements`: every step of
the service is a step or a stutter of `ResetPromise`.

**`GameClockProofs`** (the assumptions of `GameClock` on its constants). `TypeCorrect`;
`Unpausing` (the remembered speed is one the player may choose: it is only ever taken
from a speed that is neither the pause nor the start-up speed); the action property
`PausesAreKept`; `HouseholdSpeedStaysBacked`, for any household: what has to be
carried along is that `agreed` ends with every other change of speed; and
`TimeStaysAccounted`: for every tuning of the multipliers, whole or not, every cap and
every sequence of ticks, game time is off by what was counted again and by the last
rounding, which is half a tick at most (`TimeAccount`, `RoundingError`). TLC can show
this for a few ticks of one tuning only.

**`AdaptiveClockSpeedProofs`** (the same and `AdaptiveAssumption`, which says nothing of
how old the tick of an earlier zone is). `SwitchesStayConsistent`, for every tuning, and
`AdaptiveTimeAccounted`, which carries types and time over to a clock whose
multipliers change by themselves. The invariant `AInv` compares what the code remembers
with what the updates of this zone saw. `AboveRemembered` says that unless
`first_tick_above_threshold` comes from an earlier zone it is never before the
lowest tick of the lag (and the same below). The lowest and not the first, because
rounding errors take game time back. `NormalIsDefault` says that no fallback is in
force at normal speed.

**`CommodityProofs`** (`ValueAssumption`, `CommodityAssumption`). First the
arithmetic, for every range, rate and elapsed time: `DecayStaysInRange`;
`ReadingChangesNothing` (lazy evaluation is sound: reading a value does not change
its course); `MetFromTriggerTimeOn`: a threshold that is not met is met from its
trigger time on, not a unit earlier, and never if it has none; and
`ReadingKeepsTriggerTimes`. Then the commodity, for every tuning: any number of
states, bounds, thresholds, buffs that are delayed or not. `CommodityTypeCorrect`,
`AlarmStaysOnEarliest`, `StateStaysFollowing` and the rest hold for every order of the
handlers within a tick: nothing is assumed about alarms coming first, or about the
convergence value. The properties themselves except an alarm that was overtaken, and a
value that jumped, where they must (section 7). Some are proved with more of an
exception than TLC checks: that callbacks are not nested more than four deep (the rest of
the type is proved without: `stat \in StatRecord`), `CallbacksStayInPlace`,
and `DistressStaysReal` with `BuffStaysOfCurrentState` hold until an alarm
is overtaken; that they hold afterwards as well is only model-checked. That no buff's
handle is overwritten, a part of `BuffStaysOfCurrentState`, is said of tunings in which
only values of a state meet the threshold of its buff (`BuffTuning`; TLC evaluates it on
the tuning of the runs, and for others the code does not have it, section 7). The
invariant is

    IndInv == /\ WellFormed(stat) /\ {overtaken, turned} \subseteq BOOLEAN
              /\ ~overtaken => Undisturbed
    Undisturbed == /\ Idle(stat)
                   /\ ~turned => Unmet(stat)
                   /\ BuffTuning => ~stat.leaked

`WellFormed`: the fields have their types, and who waits for the bounds of a
state has a state; every method keeps it whatever the queue looks like
(`Leads`). `Idle`: the queue has no kind twice and is sorted, the alarm is set
for its head (`Tight`), every registered trigger time is the one that the
decaying value has (`Right`) and has not passed, and for each phase exactly
certain callbacks are registered, with thresholds that fit the state (`Phased`),
and the Sim has the buff of the state, or none while its threshold is waited for
(`Dressed`). `Unmet`: the thresholds on which the state and distress depend are
not met by the value as it is now, unless their time has come. None of the
properties is inductive without the exactness of the trigger times, and the
exactness not without the order of the queue: what stands behind the head is
looked at only when the alarm of the head goes off.

The difficulty is that methods call each other through callbacks. The argument
is that nothing is overdue when a handler begins which overtakes no alarm, that
a method which recomputes trigger times leaves every one of them in the future,
and that `_update_active_callback` therefore sets the alarm and calls nothing.
What remains is nesting: the callback of a lower bound may have to call that of
the upper one, which calls no other, and only the callback of a commodity off
the lot assigns a value, by which it is called itself at most once more; so four
levels are enough, whatever the tuning. The loops over a copy of the queue
(`CallCrossed`, `CallAll`) go by an invariant of the loop (`OnCourse`,
`Underway`) that says of each datum whether it has been visited. That no buff is
leaked is not kept call by call: a call from the copy of the queue may find that
another one has changed the state and put its buff on. `NoLeak` therefore says
of the rest of the queue that the Sim has no buff when the callback of one
comes, and `MetBuffIsAlone` says why: a value that meets the threshold of a
state's buff is one of that state, so that it meets neither bound of the state,
and nothing that is called together with the buff changes the state. `Tick` is
`MetFromTriggerTimeOn` and `ReadingKeepsTriggerTimes`. Each method has a lemma
named for it that says which fields it may touch and what it leaves registered.

**`WhimsProofs`** (`WhimAssumption`). `TypeCorrect`, and `SetsStayAccounted` for
every tuning: any number of sets, chains, moods and slots. The invariant is
`TypeOK /\ SetsAccounted`; as every handler is a composition of a few operations
on the tracker, the lemmas show for each operation that it leaves a tracker of
the right type with its sets accounted for, and an action needs only the
operations it is made of. What is accounted for includes the sets that cool for
good: the theorem says that a set gets there only by an alarm that was taken
away while it cooled (`lost`), and in no other way. `LoadedHeld` says what
loading does with any save, one with more whims than slots included.
`OfferStaysReal` rests on `Ready`, what holds between the handlers' steps
(`Fits` of the emotional slot and the mood among it): a whim that is gone leaves
the tracker dirty until the next update, and the whim which that update removes
is not shown; and on what loading keeps (`OfferInv`): a saved whim that is
realized is still to be dismissed.

**`SaveGameProofs`** (`HolderAssumption`, `CooldownAssumption`, `SaveBounds`).
`TypeCorrect`; `ErrorCodeStaysCurrent`; `SuccessStaysWritten`;
`EveryoneStaysAnswered`; the action property `CooldownStaysKept`; and
`ShownUnlockedStaysUnlocked`, for any number of saves, holders and locks and any
cooldown. What makes them inductive is about the save in the middle:
`CurrentIsLast` (the save that owns the timeline is the last one asked for and
has not ended), `OwnOperations` (of its operations only the one it waits for is
in flight, and none once it is woken) and `CurrentOffCooldown` (from its start to
its end no other save sets the time it was compared with). Every end with a
report goes through one lemma, `EndSaveInv`, and so do the handing over and the
completion of an operation (`OperationInv`).

**`TimelineProofs`** (`TimelineAssumption`: parts form a forest, each element is a
part of one other at most, and its class says how many parts it has). `IInv` is
`Sound /\ Waiting /\ AtWork`. `Sound` holds between the steps of a handler too: the two
directions of every link agree (`LinksAgree`), what is in the heap has no child and
waits (`HeapWaits`), and a finally element has been entered as often as its call was
made, and once more while it still is to be made (`CallsOnce`). `Waiting` says that a
live element, with one exception named by the handler, has an entry in the heap, a
child, or is the active one; `AtWork` what the phase of `simulate` says about the
active element. `Waiting` is not inductive without `Sound`: a stop that took only part
of a tree would leave a parent that waits for nothing; that it takes all of it follows
from the links by way of what `Tree` collects. From them: `TimelineTypeCorrect`,
`EveryWaitStaysWoken`, `FinallyStaysOnce` and the action property
`VoidAlarmsStaySilent`. That the recursive walk visits `Tree` (`CollectsTheTree`) is
only evaluated by TLC on the instance, since RECURSIVE operators are out of the
prover's reach; no proof uses it.

**`CareerProofs`** (`WeekAssumption`, `CareerAssumption`). `IInv` says of every
career that its job `Holds` (what level, attendance, session, alarms and
interaction have to do with each other), that the session is `Timed` (its alarm
counts down exactly to its end, or has been dropped by a change of level, or has
found the interaction), and is `Unpaid` until it ends but for commands to leave
before the Sim has come (`astray`); and of the Sim that it is `Retired` without
careers. What is not obvious and had to be found: a Sim whose work interaction
runs without a session must not begin one, or the interaction would count for it
without its tones; this holds because time does not pass until that interaction
has been cancelled, and so the alarm of the schedule is not due (the last
conjunct of `Holds`). `Only` is the frame of a handler, what it leaves alone of
the other careers; with it an action is a composition of handlers (`OnlyAgain`),
each with a lemma (`RestartDoes`, `CareerLootDoes`, `LeaveWorkFits`,
`AttendFits`, ...). The handlers that end a session run when its alarm is
already gone, so their lemmas ask for `Holds` and not for `Timed`.
`LeaveWorkFails` is the command for a Sim that has not come: it pays, raises at
the tones and leaves session and alarm as they were. The calendar enters by two
lemmas: `NextAlarmType` (the next shift is between one tick and a week away,
which needs that some numbers have a least one) and `TicksToPasses` (a tick
brings the end of the session one tick nearer, over the end of the week as
well). From `IInv`: `CareerTypeCorrect`, `PaidStaysOnce`, `SessionStaysEnding`
and `RetiredStaysWithoutCareer`.

Only model-checked: liveness (`RecordsDrain`, `SimulationResumes`,
`SoftStopEnds`, `AtWorkEnds`), which is beyond the prover; and `CollectsTheTree`.

## 6. Fairness

`ResetService!Fairness`: the thread that is inside the service goes on (the
loop, the gathering, a callback, which ends by returning, raising or a hard
stop), and the timeline hard-stops the parent of an element that was unwound
(`scheduling.py:84-99`), which resumes the service. Nothing is assumed about
requests. `SaveGame!LiveSpec`: as long as there is a save timeline every server
tick simulates it (`areaserver.py:113-118`), and the native module completes
what it was given. Where a save is superseded again and again it is the bound
on saves that ends it; in the code it is the player. `Timeline!FairSpec`: the game
loop calls `simulate` again (`zone.py:225-228`), and a `simulate` that runs goes
on, callbacks returning; a callback that always raises is excluded by neither.
`Career!Fairness`: time passes when nothing is due, alarms that are due go off,
and a work interaction that is over its time ends.

## 7. Where code and comments disagree

Runs that end in a violation:

* `clock_half_multiplier`: `clock.py:208` adds an error that already contains
  the carried one; game time drifts with a multiplier that is not whole.
* `commodity_removed`: the callbacks crossed by an assignment are called from a
  copy of the queue, also after one of them has removed the commodity.

Plain in the code, and modelled as it is:

* A save refused on cooldown raises `UnboundLocalError` at
  `services/persistence_service.py:161` and sends no message, though :27 has a
  message for the case.
* `adaptive_clock_speed.py:96` compares a type with a tuning tuple, so the
  threshold and duration of the default multiplier (:43) are never used: those of the
  reduced multiplier govern both ways (`Threshold`, `Duration`).

Why some properties have exceptions. TLC finds each of the following violated when it
is given as the only property of the cfg named:

* `FallsBackAfterDuration` (PROPERTY, `MCAdaptiveClockSpeed.cfg`): the globals of
  `adaptive_clock_speed.py:6-8` are not cleared when a zone is left. The first update
  of the next zone that sees a lag at fast speed measures its duration from a tick of
  the earlier zone, and falls back at once.
* `KeptWhenOvertaken` (`MCCommodity.cfg`): a handler that runs in the
  tick of a due alarm, but before it, resets the trigger times of the thresholds
  just met to None (`continuous_statistic.py:390`), the alarm is called off, and their
  crossing is never reported: the commodity stays in a state, or the Sim in distress,
  that its value has left. After a change of the decay rate, which does not sort the
  queue (:522), a head without trigger time keeps the alarm from being set for the rest.
* `KeptWhenTurned` (`MCCommodity.cfg`): the setter of `convergence_value` (:302)
  applies the new value to the time already elapsed, and the bounds that the value
  jumps over are not reported.
* `MissedDayCountsOnce` (`MCCareer.cfg`): the command `careers.leave_work`
  (`career_commands.py:86-99`) and `leave_work_early` (`career_base.py:611-616`) do
  not ask whether the Sim is at work. For a Sim that has not come, `leave_work`
  pays and takes the penalty for missed work (:837), then raises at :969, because the
  tones were never registered, before the session has ended (:674): the alarm at its
  end, or the command once more, settles the same day again.
  `CareerLeaveWorkEarlyInteraction` refuses such a Sim (`career_interactions.py:179`).
* `CooldownEnds` (`MCWhims.cfg`): when the whim of a set goes while the set cools
  (its timer ran out while the whim stayed, then the whim is dismissed, completed or
  removed for the mood), `deactivate_set` removes the alarm of the cooldown and
  adds none (`whims_tracker.py:241-246`). The set cools for good and is never offered
  again, though its tuning (`aspirations/aspiration_tuning.py:164`) calls the cooldown
  a number of minutes.

Seen while modelling the statistics:

* With `BuffAddThreshold <- MCMiddleThreshold`, by which a value of the top state meets
  the threshold of the middle one's buff, TLC finds `~stat.leaked` violated: a removed
  buff callback is called from the copy of the queue (:380) and adds the new state's
  buff a second time, or before its threshold, and nothing can remove the first.
* A stop and start in the same state forgets a delayed buff
  (`commodity.py:235`); a value already below the distress threshold at start
  never enters distress (:224); the convergence callback does not ask whether
  the commodity is core (:243). A commodity that a buff adds between the start
  of the tracker (`sims/sim.py:1317`) and the Sim's being marked as simulating
  is never started.

Seen while modelling the others:

* *Services.* The success flag of a completed save is ignored
  (`persistence_service.py:191`); `unlock_save` raises `IndexError` at :90 if
  only the read-write lock is set; `areaserver.py:272` tests for a client that
  :266 has used already. An upgrade to destruction does not gather dependents
  again (`reset_and_delete_service.py:126`).
* *Timeline and alarms.* A repeating alarm whose handle is dropped in its own
  callback stays in the heap and raises `TypeError` when it is next looked up
  (`alarms.py:205`); cancelling twice in the own callback raises; a one-shot alarm
  whose handle goes in its callback is reported as a consumed hard stop.
  `WithFinallyElement._hard_stop` (`elements.py:796`) does not call its base
  class, `AllElement._teardown` calls `chear` (:727), and a root that raised
  keeps its handle.
* *Careers.* The answer to the dialog of a retired Sim does not end its
  retirement (`career_tracker.py:55`). A promotion in the middle of a shift drops
  the alarm at its end (`untimed`): the session lasts until the next one, and the
  tones are registered twice and count their hours twice. A promotion that is
  pending at the top of a track is granted at a later load even after a
  demotion. Quitting at work leaves the tone running; a save in overtime leaves the
  Sim at work until the next shift.
* *Whims.* Two emotional whims may be chosen at once (:364 passes no
  `request_single_goal`); the first is realized in no slot and keeps others from
  being offered. Loading overwrites whims in their slots that stay realized
  (`whims_tracker.py:109-117`) and are saved again (:127), until there are more than
  slots; the loop then stops one slot too late, with a normal whim in the slot for an
  emotional one (:114-119). What `refresh_emotion_whim` offers is sent only with the next
  update (:570). A save resets the milestones of all whim sets triggered since
  the start, again at every save (`aspirations.py:203`). The tuning `connected_whims`
  chains sets by goal; `activate_chained_set` looks the completed goal, an instance, up
  among the goals of the tuning, which are classes, and never finds it (:220-228).

## 8. What is not modelled, and why

* *Lost control flow.* Read literally, the following do not end or do nothing:
  the generators and the `SequenceElement` of the timeline,
  `zone_spin_up_service.py`, `MasterController._process`, the bouncer's
  `_consider_spawn`, `autonomy_modes.py`, `interaction_queue.py`, `si_state.py`,
  `super_speed_three_service.py`, `sims/bills.py`, part reservations, live drag
  and inventory stacks, `BaseStatisticTracker.remove_statistic` with listeners.
  Where a modelled part depends on one of them, only its contract is used.
* *Data.* Tuning, geometry, scores and animations decide what postures,
  routing, autonomy, social groups and broadcasters do; none of it is here.
* *Within modelled parts.* Reset: what callbacks do apart from the service;
  exceptions in `on_reset_notification`. Saving: building and reading protocol
  buffers. Clock: super speed three, broadcasts, the debugger's break point,
  the time arithmetic whose assignments are lost. Commodity: loading, client
  messages, decay overrides, watchers and listeners, auto-satisfaction, locked
  owners, interactions pushed by distress, `loot_list_on_enter` (its loop is
  literal and endless); a Sim is instanced while simulated. Timeline: busy waits,
  conditionals, lossy alarms, sub-timelines, the teardown. Career: assignments,
  dialogs' wording, the performance statistic, `promotion_buff` (its loop is
  literal and endless), the history of generations, a second work interaction in
  the queue. Whims: targets, goal tests and their cooldowns, the satisfaction
  store, cheats, `connected_whims` (never found, section 7), `validate_goals` (its
  `continue` is lost).
* *Small or shallow.* The service manager, the interaction finisher, the
  object dictionaries: sequences of calls without interleavings, about which a
  model would only repeat the code.
* *Third-party code*: the standard library and protocol buffers.

## 9. What is left

1. Abstract specifications of which `Timeline` and `Career` are refinements: a
   scheduler with a set of pending calls, a shift that is worked and paid.
2. Skills and decay overrides on `ContinuousValue`; super speed three on
   `GameClock`, if a text of it with its assignments is found.
