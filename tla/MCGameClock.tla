----------------------------- MODULE MCGameClock -----------------------------
(* Small instances of GameClock.                                           *)
EXTENDS GameClock, TLC

\* Speed two at one and a half, with D = 2.
HalfScale ==
    [t \in MultiplierType |-> [s \in ClockSpeedMode |->
       CASE s = PAUSED -> 0
         [] s = NORMAL -> 2
         [] s = SPEED2 -> 3
         [] s = SPEED3 -> 6
         [] OTHER      -> 4]]

\* Nothing reads the time spent at each speed, nor how late it is in the game;
\* the properties read only by how much game time is off.
Read == <<clockSpeed, previousNonPauseSpeed, multiplierType, requestVars, zoneVars,
          serverTicks, previousAbsoluteTicks, errorAccumulation,
          gameTicks * D - exactTime - recounted, agreed>>

\* Sims, and the names of pause requests, are alike; no property names one.
Alike == Permutations(Sim) \cup Permutations(Handle)
=============================================================================
