------------------------ MODULE MCAdaptiveClockSpeed ------------------------
(* Small instances of AdaptiveClockSpeed.                                  *)
EXTENDS AdaptiveClockSpeed

\* With D = 2: speed two at one and a half times, speed three at three times the
\* normal speed; the reduced multipliers make speed three as slow as twice.
FastScale ==
    [t \in MultiplierType |-> [s \in ClockSpeedMode |->
       CASE s = PAUSED -> 0
         [] s = NORMAL -> 2
         [] s = SPEED2 -> 3
         [] s = SPEED3 -> IF t = DEFAULT THEN 6 ELSE 4
         [] OTHER      -> 4]]

\* The earlier zone's game clock was behind the new one's first tick.
AnEarlierTick == {0 - 2}

\* Ticks of no length may set the game time back for ever: one tick is enough.
NotFarBack == gameTicks >= simNow - 1

\* How late it is in the game makes no difference, only how long ago the times
\* are that the zone remembers; and some variables are only written.
Ago(t) == IF t = NoTick THEN NoTick ELSE gameTicks - t
Read == <<clockSpeed, previousNonPauseSpeed, multiplierType, requestVars, zoneVars,
          serverTicks, previousAbsoluteTicks, errorAccumulation,
          gameTicks - simNow, watching, Ago(firstAbove), Ago(firstBelow),
          Ago(beyondSince), Ago(closeSince), inherited>>
=============================================================================
