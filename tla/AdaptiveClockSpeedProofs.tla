---------------------- MODULE AdaptiveClockSpeedProofs ----------------------
(***************************************************************************)
(* That the clock changes its multipliers only when the lag was on one     *)
(* side of the threshold for long enough, for every tuning and every tick  *)
(* an earlier zone may have left in the globals.  The clock counts its     *)
(* rounding errors more than once and may run backwards: what the updates  *)
(* saw is compared by the lowest tick of a streak.                         *)
(***************************************************************************)
EXTENDS AdaptiveClockSpeed, GameClockProofs

\* What the code remembers of a side of the threshold is no older than what the
\* updates saw, unless it is what an earlier zone left.
AboveRemembered ==
    /\ firstAbove \in {NoTick} \cup Int /\ beyondSince \in {NoTick} \cup Int
    /\ \/ firstAbove = NoTick \/ inherited = "above"
       \/ beyondSince \in Int /\ beyondSince <= firstAbove
BelowRemembered ==
    /\ firstBelow \in {NoTick} \cup Int /\ closeSince \in {NoTick} \cup Int
    /\ \/ firstBelow = NoTick \/ inherited = "below"
       \/ closeSince \in Int /\ closeSince <= firstBelow

NormalIsDefault == clockSpeed = NORMAL => multiplierType = DEFAULT

AInv ==
    /\ IInv
    /\ AboveRemembered /\ BelowRemembered
    /\ NormalIsDefault

\* What SwitchesConsistently says of a step.
Switches ==
    /\ multiplierType = DEFAULT /\ multiplierType' = Reduced =>
         beyondSince' # NoTick /\ (inherited = "above" \/ LastedFor(beyondSince'))
    /\ multiplierType = Reduced /\ multiplierType' = DEFAULT =>
         \/ clockSpeed' = NORMAL
         \/ closeSince' # NoTick /\ (inherited = "below" \/ LastedFor(closeSince'))
    /\ clockSpeed' = NORMAL => multiplierType' = DEFAULT

-----------------------------------------------------------------------------
(* The speed. *)

\* Whoever sets the speed leaves the multipliers alone or sets normal speed.
OnlyNormalResets ==
    /\ NormalIsDefault'
    /\ multiplierType' = multiplierType \/ (clockSpeed' = NORMAL /\ multiplierType' = DEFAULT)

LEMMA SpeedResets ==
    ASSUME NormalIsDefault,
           \/ UNCHANGED speedVars
           \/ \E speed, source : SetClockSpeed(speed, source)
    PROVE  OnlyNormalResets
  <1>1. CASE UNCHANGED speedVars
    BY <1>1 DEF speedVars, OnlyNormalResets, NormalIsDefault
  <1>2. ASSUME NEW speed, NEW source, SetClockSpeed(speed, source) PROVE OnlyNormalResets
    BY <1>1, <1>2 DEF SetClockSpeed, CacheForUnpause, ChangeSpeed, OnlyNormalResets,
                      NormalIsDefault
  <1> QED BY <1>1, <1>2

LEMMA PlayerAndGameplayReset ==
    ASSUME NormalIsDefault, PlayerStep \/ GameplayStep \/ RestoreSavedClockSpeed
    PROVE  OnlyNormalResets
  <1>1. \/ UNCHANGED speedVars
        \/ \E speed, source : SetClockSpeed(speed, source)
    <2>1. CASE PlayerStep
      BY <2>1 DEF PlayerStep, PlayerSetsSpeed, PauseCommand, UnpauseCommand, TogglePause,
                  SetSpeedCommand, RequestPause, UnrequestPause, ClearPauseRequests
    <2>2. CASE GameplayStep
      BY <2>2 DEF GameplayStep, GameplaySetsSpeed, RegisterSpeedRequest, UnregisterSpeedRequest
    <2>3. CASE RestoreSavedClockSpeed
      BY <2>3 DEF RestoreSavedClockSpeed
    <2> QED BY <2>1, <2>2, <2>3
  <1> QED BY <1>1, SpeedResets

LEMMA SpeedStep ==
    ASSUME AInv, UNCHANGED adaptiveVars,
           PlayerStep \/ GameplayStep \/ RestoreSavedClockSpeed
    PROVE  AInv' /\ Switches
  <1>1. OnlyNormalResets
    BY PlayerAndGameplayReset DEF AInv
  <1>2. IInv'
    BY PlayerStepKeeps, GameplayStepKeeps, ZoneStepKeeps DEF AInv, ZoneStep
  <1> QED BY <1>1, <1>2, AdaptiveAssumption
          DEF AInv, AboveRemembered, BelowRemembered, Switches, OnlyNormalResets, NormalIsDefault, adaptiveVars,
              watchVars

-----------------------------------------------------------------------------
(* The tick. *)

LEMMA TickStep ==
    ASSUME AInv, NEW elapsed \in 0..MaxElapsed, TickAndSimulate(elapsed)
    PROVE  AInv' /\ Switches
  <1>1. ServerTick /\ TickGameClock(elapsed)
    BY DEF TickAndSimulate, ServerTick
  <1>2. IInv'
    BY <1>1, ServerTickKeeps DEF AInv
  <1> QED BY <1>2, AdaptiveAssumption
          DEF AInv, AboveRemembered, BelowRemembered, Switches, NormalIsDefault, TickAndSimulate, speedVars, watchVars

-----------------------------------------------------------------------------
(* The watching. *)

\* The lowest tick of a streak, with the one of this update.
LEMMA LowerBounds ==
    ASSUME gameTicks \in Int, NoTick \notin Int, NEW since \in {NoTick} \cup Int
    PROVE  /\ Lower(since) \in Int /\ Lower(since) <= gameTicks
           /\ since # NoTick => Lower(since) <= since
  <1>1. CASE since = NoTick
    BY <1>1 DEF Lower
  <1>2. CASE since \in Int
    BY <1>2 DEF Lower
  <1> QED BY <1>1, <1>2

\* What lasted since a tick lasted since every lower one.
LEMMA LongerSince ==
    ASSUME NEW now \in Int, NEW since \in Int, NEW first \in Int, NEW d \in Int,
           since <= first, now - first > d
    PROVE  now - since > d
OBVIOUS

LEMMA WatchStep ==
    ASSUME AInv, UpdateAdaptiveSpeed
    PROVE  AInv' /\ Switches
  <1>1. /\ UNCHANGED <<clockSpeed, previousNonPauseSpeed, spent, lastSpeedChange>>
        /\ UNCHANGED <<requestVars, zoneVars, tickVars, agreed>>
    BY DEF UpdateAdaptiveSpeed
  <1>2. gameTicks \in Int /\ gameTicks' = gameTicks /\ Duration \in Nat /\ NoTick \notin Int
        /\ DEFAULT \in MultiplierType /\ Reduced \in MultiplierType /\ Reduced # DEFAULT
    BY <1>1, AdaptiveAssumption, ScaleAssumption DEF AInv, IInv, TypeOK, tickVars, Duration
  <1>3. /\ multiplierType' \in MultiplierType
        /\ AboveRemembered' /\ BelowRemembered'
        /\ NormalIsDefault' /\ Switches
    <2>1. CASE EffectiveSpeed = PAUSED /\ UNCHANGED <<multiplierType, watchVars>>
      BY <1>1, <1>2, <2>1
         DEF AInv, IInv, TypeOK, AboveRemembered, BelowRemembered, NormalIsDefault, Switches, watchVars
    <2>2. CASE EffectiveSpeed = NORMAL /\ StopWatching /\ Observe(FALSE)
      BY <1>1, <1>2, <2>2
         DEF AInv, IInv, TypeOK, AboveRemembered, BelowRemembered, NormalIsDefault, Switches, StopWatching, Observe
    <2>3. CASE EffectiveSpeed > NORMAL /\ WatchAbove /\ Observe(TRUE)
      <3>1. clockSpeed # NORMAL
        BY <2>3 DEF EffectiveSpeed, PAUSED, NORMAL
      <3>2. Lagging /\ firstBelow' = NoTick /\ closeSince' = NoTick
            /\ beyondSince' = Lower(beyondSince)
            /\ inherited' = IF inherited = "above" THEN inherited ELSE "neither"
        BY <2>3 DEF WatchAbove, Observe
      <3>3. /\ Since(firstAbove) \in Int /\ beyondSince' \in Int
            /\ inherited = "above" \/ beyondSince' <= Since(firstAbove)
        <4>1. Lower(beyondSince) \in Int /\ Lower(beyondSince) <= gameTicks
              /\ (beyondSince # NoTick => Lower(beyondSince) <= beyondSince)
          BY <1>2, LowerBounds DEF AInv, AboveRemembered
        <4>2. CASE firstAbove = NoTick
          BY <1>2, <3>2, <4>1, <4>2 DEF Since
        <4>3. CASE firstAbove # NoTick /\ inherited # "above"
          <5>1. beyondSince \in Int /\ beyondSince <= firstAbove /\ firstAbove \in Int
            BY <4>3 DEF AInv, AboveRemembered
          <5>2. Lower(beyondSince) <= beyondSince
            BY <1>2, <4>1, <5>1
          <5> QED BY <3>2, <4>1, <4>3, <5>1, <5>2 DEF Since
        <4>4. CASE firstAbove # NoTick /\ inherited = "above"
          BY <3>2, <4>1, <4>4 DEF Since, AInv, AboveRemembered
        <4> QED BY <4>2, <4>3, <4>4
      <3>4. firstAbove' = NoTick \/ firstAbove' = Since(firstAbove)
        BY <2>3 DEF WatchAbove, SwitchAfterDuration
      <3>5. \/ multiplierType' = multiplierType
            \/ multiplierType' = Reduced /\ gameTicks - Since(firstAbove) > Duration
        BY <2>3 DEF WatchAbove, SwitchAfterDuration
      <3>6. AboveRemembered'
        BY <3>2, <3>3, <3>4 DEF AboveRemembered, BelowRemembered
      <3>7. BelowRemembered'
        BY <1>2, <3>2 DEF AboveRemembered, BelowRemembered
      <3>8. multiplierType' \in MultiplierType /\ NormalIsDefault'
        BY <1>1, <1>2, <3>1, <3>5 DEF AInv, IInv, TypeOK, NormalIsDefault
      <3>9. Switches
        <4>1. beyondSince' \in Int /\ beyondSince' # NoTick
          BY <1>2, <3>3
        <4>2. ASSUME multiplierType' # multiplierType
              PROVE  inherited = "above" \/ LastedFor(beyondSince')
          <5>1. CASE inherited = "above"
            BY <5>1
          <5>2. CASE beyondSince' <= Since(firstAbove)
            <6>1. gameTicks - Since(firstAbove) > Duration
              BY <3>5, <4>2
            <6>2. gameTicks \in Int /\ Duration \in Int
              BY <1>2
            <6>3. beyondSince' \in Int
              BY <3>3
            <6>4. Since(firstAbove) \in Int
              BY <3>3
            <6>5. gameTicks - beyondSince' > Duration
              BY <5>2, <6>1, <6>2, <6>3, <6>4, LongerSince
            <6> QED BY <4>1, <6>5 DEF LastedFor
          <5> QED BY <3>3, <5>1, <5>2
        <4> QED BY <1>1, <1>2, <3>1, <3>5, <4>1, <4>2 DEF Switches
      <3> QED BY <3>6, <3>7, <3>8, <3>9
    <2>4. CASE EffectiveSpeed > NORMAL /\ WatchBelow /\ Observe(TRUE)
      <3>1. clockSpeed # NORMAL
        BY <2>4 DEF EffectiveSpeed, PAUSED, NORMAL
      <3>2. ~Lagging /\ firstAbove' = NoTick /\ beyondSince' = NoTick
            /\ closeSince' = Lower(closeSince)
            /\ inherited' = IF inherited = "below" THEN inherited ELSE "neither"
        BY <2>4 DEF WatchBelow, Observe
      <3>3. /\ Since(firstBelow) \in Int /\ closeSince' \in Int
            /\ inherited = "below" \/ closeSince' <= Since(firstBelow)
        <4>1. Lower(closeSince) \in Int /\ Lower(closeSince) <= gameTicks
              /\ (closeSince # NoTick => Lower(closeSince) <= closeSince)
          BY <1>2, LowerBounds DEF AInv, BelowRemembered
        <4>2. CASE firstBelow = NoTick
          BY <1>2, <3>2, <4>1, <4>2 DEF Since
        <4>3. CASE firstBelow # NoTick /\ inherited # "below"
          <5>1. closeSince \in Int /\ closeSince <= firstBelow /\ firstBelow \in Int
            BY <4>3 DEF AInv, BelowRemembered
          <5>2. Lower(closeSince) <= closeSince
            BY <1>2, <4>1, <5>1
          <5> QED BY <3>2, <4>1, <4>3, <5>1, <5>2 DEF Since
        <4>4. CASE firstBelow # NoTick /\ inherited = "below"
          BY <3>2, <4>1, <4>4 DEF Since, AInv, BelowRemembered
        <4> QED BY <4>2, <4>3, <4>4
      <3>4. firstBelow' = NoTick \/ firstBelow' = Since(firstBelow)
        BY <2>4 DEF WatchBelow, SwitchAfterDuration
      <3>5. \/ multiplierType' = multiplierType
            \/ multiplierType' = DEFAULT /\ gameTicks - Since(firstBelow) > Duration
        BY <2>4 DEF WatchBelow, SwitchAfterDuration
      <3>6. BelowRemembered'
        BY <3>2, <3>3, <3>4 DEF AboveRemembered, BelowRemembered
      <3>7. AboveRemembered'
        BY <1>2, <3>2 DEF AboveRemembered, BelowRemembered
      <3>8. multiplierType' \in MultiplierType /\ NormalIsDefault'
        BY <1>1, <1>2, <3>1, <3>5 DEF AInv, IInv, TypeOK, NormalIsDefault
      <3>9. Switches
        <4>1. closeSince' \in Int /\ closeSince' # NoTick
          BY <1>2, <3>3
        <4>2. ASSUME multiplierType' # multiplierType
              PROVE  inherited = "below" \/ LastedFor(closeSince')
          <5>1. CASE inherited = "below"
            BY <5>1
          <5>2. CASE closeSince' <= Since(firstBelow)
            <6>1. gameTicks - Since(firstBelow) > Duration
              BY <3>5, <4>2
            <6>2. gameTicks \in Int /\ Duration \in Int
              BY <1>2
            <6>3. closeSince' \in Int
              BY <3>3
            <6>4. Since(firstBelow) \in Int
              BY <3>3
            <6>5. gameTicks - closeSince' > Duration
              BY <5>2, <6>1, <6>2, <6>3, <6>4, LongerSince
            <6> QED BY <4>1, <6>5 DEF LastedFor
          <5> QED BY <3>3, <5>1, <5>2
        <4> QED BY <1>1, <1>2, <3>1, <3>5, <4>1, <4>2 DEF Switches
      <3> QED BY <3>6, <3>7, <3>8, <3>9
    <2> QED BY <2>1, <2>2, <2>3, <2>4 DEF UpdateAdaptiveSpeed
  <1>4. IInv'
    BY <1>1, <1>3 DEF AInv, IInv, TypeOK, UnpauseUnpauses, requestVars, zoneVars, tickVars
  <1> QED BY <1>2, <1>3, <1>4 DEF AInv

-----------------------------------------------------------------------------
(* The theorems. *)

LEMMA AdaptiveInitKeeps == AdaptiveInit => AInv
  <1> SUFFICES ASSUME AdaptiveInit PROVE AInv
    OBVIOUS
  <1>1. IInv
    BY InitKeeps DEF AdaptiveInit
  <1> QED BY <1>1, AdaptiveAssumption DEF AdaptiveInit, Init, AInv, AboveRemembered, BelowRemembered, NormalIsDefault,
                                          NORMAL, PAUSED

LEMMA AdaptiveNextKeeps == AInv /\ [AdaptiveNext]_allVars => AInv' /\ [Switches]_allVars
  <1> SUFFICES ASSUME AInv, [AdaptiveNext]_allVars PROVE AInv' /\ [Switches]_allVars
    OBVIOUS
  <1>1. CASE UNCHANGED allVars
    <2>1. IInv'
      BY <1>1, NextKeeps DEF AInv, allVars
    <2> QED BY <1>1, <2>1
            DEF AInv, AboveRemembered, BelowRemembered, NormalIsDefault, allVars, clockVars, speedVars, tickVars,
                adaptiveVars, watchVars
  <1>2. CASE ~watching /\ (PlayerStep \/ RestoreSavedClockSpeed) /\ UNCHANGED adaptiveVars
    BY <1>2, SpeedStep
  <1>3. CASE RunElements
    BY <1>3, SpeedStep DEF RunElements
  <1>4. ASSUME NEW elapsed \in 0..MaxElapsed, TickAndSimulate(elapsed)
        PROVE  AInv' /\ Switches
    BY <1>4, TickStep
  <1>5. CASE UpdateAdaptiveSpeed
    BY <1>5, WatchStep
  <1> QED BY <1>1, <1>2, <1>3, <1>4, <1>5 DEF AdaptiveNext

\* The multipliers change only for a lag that lasted, or for normal speed, but for the
\* streak a zone begins with on the side an earlier zone left a tick for: for every
\* tuning of the multipliers, thresholds and durations, every such tick, every
\* household and every order of ticks, speeds and pauses.
THEOREM SwitchesStayConsistent == AdaptiveSpec => SwitchesConsistently
  <1>1. [Switches]_allVars =>
          [/\ multiplierType = DEFAULT /\ multiplierType' = Reduced =>
                beyondSince' # NoTick /\ (inherited = "above" \/ LastedFor(beyondSince'))
           /\ multiplierType = Reduced /\ multiplierType' = DEFAULT =>
                \/ clockSpeed' = NORMAL
                \/ closeSince' # NoTick /\ (inherited = "below" \/ LastedFor(closeSince'))
           /\ clockSpeed' = NORMAL => multiplierType' = DEFAULT]_allVars
    BY DEF Switches
  <1> QED BY <1>1, AdaptiveInitKeeps, AdaptiveNextKeeps, PTL
          DEF AdaptiveSpec, SwitchesConsistently

\* The types, and what game time is off by, hold also with the multipliers changing
\* while the zone simulates.
THEOREM AdaptiveTimeAccounted == AdaptiveSpec => [](TypeOK /\ TimeOffByRecounting)
  <1>1. AdaptiveInit => AInv /\ TimeAccount
    BY AdaptiveInitKeeps, InitAccount DEF AdaptiveInit
  <1>2. AInv /\ TimeAccount /\ [AdaptiveNext]_allVars => AInv' /\ TimeAccount'
    <2> SUFFICES ASSUME AInv, TimeAccount, [AdaptiveNext]_allVars PROVE TimeAccount'
      BY AdaptiveNextKeeps
    <2>1. ASSUME NEW elapsed \in 0..MaxElapsed, TickAndSimulate(elapsed) PROVE TimeAccount'
      BY <2>1, TickKeepsAccount DEF TickAndSimulate, AInv
    <2>2. CASE UpdateAdaptiveSpeed
      BY <2>2 DEF UpdateAdaptiveSpeed, TimeAccount, tickVars
    <2> QED BY <2>1, <2>2, OtherStepsKeepAccount DEF AdaptiveNext, RunElements, ZoneStep, allVars
  <1>3. AInv /\ TimeAccount => TypeOK /\ TimeOffByRecounting
    BY AccountSaysOff DEF AInv, IInv
  <1> QED BY <1>1, <1>2, <1>3, PTL DEF AdaptiveSpec
=============================================================================
