-------------------------- MODULE AdaptiveClockSpeed --------------------------
(***************************************************************************)
(* The update of a running zone (Zone.update, simulation/zone.py): it      *)
(* ticks the GameClock, lets the TimeService simulate the sim timeline     *)
(* towards the new time within its time slice, and then has                *)
(* AdaptiveClockSpeed (simulation/adaptive_clock_speed.py) watch how far   *)
(* the simulation lags behind.  When the lag stays beyond a threshold for  *)
(* a duration the clock falls back to reduced multipliers, and when it     *)
(* stays below for a duration the default ones return.                     *)
(*                                                                         *)
(* Between the tick and the watching, the elements the timeline runs may   *)
(* change the clock's speed.                                               *)
(*                                                                         *)
(* Since when the lag is on its side of the threshold is kept in globals   *)
(* of the module: they outlive the zone, and the next one, with another    *)
(* game clock, starts with what the last one left in them.                 *)
(***************************************************************************)
EXTENDS GameClock

CONSTANTS
    Reduced,           \* reduced_speed_multiplier.multipler_type
    ReducedThreshold,  \* reduced_speed_multiplier: lag, in game ticks
    ReducedDuration,   \* reduced_speed_multiplier: how long, in game ticks
    NoTick,            \* None
    StaleTicks         \* game ticks an earlier zone may have left behind

ASSUME AdaptiveAssumption ==
    /\ Reduced \in MultiplierType \ {DEFAULT}
    /\ ReducedThreshold \in Nat /\ ReducedDuration \in Nat
    /\ NoTick \notin Int /\ StaleTicks \subseteq Int

VARIABLES
    simNow,       \* TimeService.sim_now, the sim timeline's time
    watching,     \* the zone has simulated and not yet watched
    firstAbove,   \* first_tick_above_threshold
    firstBelow,   \* first_tick_below_threshold
    beyondSince,  \* history: the lowest tick since when every update saw a lag too large
    closeSince,   \* history: the lowest tick since when every update saw a small lag
    inherited     \* history: the side an earlier zone left a tick for, still in use

watchVars == <<firstAbove, firstBelow, beyondSince, closeSince, inherited>>
adaptiveVars == <<simNow, watching, watchVars>>
allVars      == <<clockVars, adaptiveVars>>

-----------------------------------------------------------------------------
(* Zone.update of a running zone: the tick, the simulation, what it runs.  *)
(* Rounding errors may set the game time back; the sim timeline then stays *)
(* where it is.                                                            *)

TickAndSimulate(elapsed) ==
    /\ ~watching /\ zoneRunning
    /\ TickGameClock(elapsed)
    /\ simNow' = simNow \/ simNow' \in simNow..gameTicks'
    /\ watching' = TRUE
    /\ UNCHANGED <<speedVars, requestVars, zoneVars, agreed, watchVars>>

RunElements == GameplayStep /\ UNCHANGED adaptiveVars

-----------------------------------------------------------------------------
(* update_adaptive_speed. *)

\* _get_threshold_and_duration compares the multiplier type with the tuning
\* of the default multiplier, not with that tuning's type.  They are never
\* equal, and the tuning of the reduced multiplier is used always.
Threshold == ReducedThreshold
Duration  == ReducedDuration

Lagging == gameTicks - simNow > Threshold

Since(first) == IF first = NoTick THEN gameTicks ELSE first

\* A switch makes the clock forget since when it has been on this side.
SwitchAfterDuration(type, first) ==
    LET switches == gameTicks - Since(first) > Duration /\ multiplierType # type
    IN  /\ multiplierType' = IF switches THEN type ELSE multiplierType
        /\ first' = IF switches THEN NoTick ELSE Since(first)

StopWatching ==
    /\ firstAbove' = NoTick /\ firstBelow' = NoTick
    /\ UNCHANGED multiplierType

WatchAbove ==
    /\ Lagging
    /\ SwitchAfterDuration(Reduced, firstAbove)
    /\ firstBelow' = NoTick

\* Mutant: a tick below the threshold does not end the lag above it.
Mutant_KeepsAbove ==
    /\ ~Lagging
    /\ SwitchAfterDuration(DEFAULT, firstBelow)
    /\ UNCHANGED firstAbove

WatchBelow ==
    /\ ~Lagging
    /\ SwitchAfterDuration(DEFAULT, firstBelow)
    /\ firstAbove' = NoTick

Lower(since) == IF since = NoTick \/ gameTicks < since THEN gameTicks ELSE since

\* History: what the updates saw, whatever the code remembers of it.
Observe(fast) ==
    /\ beyondSince' = IF fast /\ Lagging THEN Lower(beyondSince) ELSE NoTick
    /\ closeSince'  = IF fast /\ ~Lagging THEN Lower(closeSince) ELSE NoTick
    /\ inherited'   = IF fast /\ inherited = (IF Lagging THEN "above" ELSE "below")
                      THEN inherited ELSE "neither"

\* Zone.update does not call it while the clock is paused.
UpdateAdaptiveSpeed ==
    /\ watching /\ watching' = FALSE
    /\ \/ EffectiveSpeed = PAUSED /\ UNCHANGED <<multiplierType, watchVars>>
       \/ EffectiveSpeed = NORMAL /\ StopWatching /\ Observe(FALSE)
       \/ EffectiveSpeed > NORMAL /\ (WatchAbove \/ WatchBelow) /\ Observe(TRUE)
    /\ UNCHANGED <<clockSpeed, previousNonPauseSpeed, spent, lastSpeedChange,
                   requestVars, zoneVars, tickVars, agreed, simNow>>

-----------------------------------------------------------------------------
\* Each side forgets the other: an earlier zone leaves a tick for one at most.
AdaptiveInit ==
    /\ Init
    /\ simNow = 0 /\ watching = FALSE
    /\ \/ firstAbove = NoTick /\ firstBelow = NoTick /\ inherited = "neither"
       \/ firstAbove \in StaleTicks /\ firstBelow = NoTick /\ inherited = "above"
       \/ firstAbove = NoTick /\ firstBelow \in StaleTicks /\ inherited = "below"
    /\ beyondSince = NoTick /\ closeSince = NoTick

\* Until the client disconnects; then the zone is no longer updated.
AdaptiveNext ==
    \/ ~watching /\ (PlayerStep \/ RestoreSavedClockSpeed) /\ UNCHANGED adaptiveVars
    \/ RunElements
    \/ \E elapsed \in 0..MaxElapsed : TickAndSimulate(elapsed)
    \/ UpdateAdaptiveSpeed

AdaptiveSpec == AdaptiveInit /\ [][AdaptiveNext]_allVars

-----------------------------------------------------------------------------
(* Properties. *)

LastedFor(since) == since # NoTick /\ gameTicks - since > Duration

\* The clock falls back only after the lag was beyond the threshold at every
\* update, at fast speed, for longer than the duration; and it comes back only
\* after it was within the threshold for that long, or when normal speed is set,
\* which no fallback outlives however it and the changes of speed interleave.
\* Only the streak a new zone begins with may count from an earlier zone's tick,
\* and no longer than it is on that tick's side (adaptive_clock_speed.py:6-8).
\* Threshold and duration are the reduced multiplier's both ways, see Threshold.
SwitchesConsistently ==
    [][/\ multiplierType = DEFAULT /\ multiplierType' = Reduced =>
            beyondSince' # NoTick /\ (inherited = "above" \/ LastedFor(beyondSince'))
       /\ multiplierType = Reduced /\ multiplierType' = DEFAULT =>
            \/ clockSpeed' = NORMAL
            \/ closeSince' # NoTick /\ (inherited = "below" \/ LastedFor(closeSince'))
       /\ clockSpeed' = NORMAL => multiplierType' = DEFAULT]_allVars

\* adaptive_clock_speed.py:43: "We switch to the reduced speed multiplier only
\* after the simulation has deviated for beyond the tuned threshold consistently
\* for the tuned duration": no update switches that has not seen the lag last.
\* The code does not keep it in a zone that starts with an earlier zone's tick.
FallsBackAfterDuration ==
    [][multiplierType = DEFAULT /\ multiplierType' = Reduced => LastedFor(beyondSince')]_allVars

=============================================================================
