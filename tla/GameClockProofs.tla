--------------------------- MODULE GameClockProofs ---------------------------
(***************************************************************************)
(* Theorems about GameClock, for every household, every set of pause       *)
(* requests, every tuning of the multipliers and every bound.              *)
(*                                                                         *)
(* Type correctness and "unpausing unpauses" are inductive together; on    *)
(* them rest the household's speed and the account of game time, which     *)
(* says for every multiplier, whole or not, what game time is off by.      *)
(***************************************************************************)
EXTENDS GameClock, TLAPS

IInv == TypeOK /\ UnpauseUnpauses

USE DEF ClockSpeedMode, PAUSED, NORMAL, SPEED2, SPEED3,
        INTERACTION_STARTUP_SPEED, NoSpeed

-----------------------------------------------------------------------------
(* What a change of speed preserves. *)

SpeedTypes ==
    /\ clockSpeed \in ClockSpeedMode
    /\ previousNonPauseSpeed \in {NORMAL, SPEED2, SPEED3}
    /\ multiplierType \in MultiplierType
    /\ spent \in [ClockSpeedMode -> Nat]
    /\ lastSpeedChange \in 0..serverTicks

LEMMA SetClockSpeedStep ==
    ASSUME IInv, UNCHANGED serverTicks,
           NEW speed \in ClockSpeedMode, NEW source, SetClockSpeed(speed, source)
    PROVE  SpeedTypes'
<1> USE DEF IInv, TypeOK, UnpauseUnpauses, SpeedTypes
<1>1. CASE UNCHANGED speedVars
    BY <1>1 DEF speedVars
<1>2. CASE Cached(speed, source) /\ CacheForUnpause(speed)
    BY <1>2 DEF Cached, CacheForUnpause
<1>3. CASE ChangeSpeed(speed)
  <2>1. previousNonPauseSpeed' \in {NORMAL, SPEED2, SPEED3}
      BY <1>3 DEF ChangeSpeed, RememberSpeed
  <2>2. spent' \in [ClockSpeedMode -> Nat] /\ lastSpeedChange' \in 0..serverTicks'
    <3>1. serverTicks - lastSpeedChange \in Nat
        OBVIOUS
    <3> QED BY <1>3, <3>1 DEF ChangeSpeed, AccountTimeIn
  <2>3. multiplierType' \in MultiplierType
      BY <1>3, ScaleAssumption DEF ChangeSpeed
  <2> QED BY <1>3, <2>1, <2>2, <2>3 DEF ChangeSpeed
<1> QED BY <1>1, <1>2, <1>3 DEF SetClockSpeed

LEMMA NoSpeedChange ==
    ASSUME IInv, UNCHANGED speedVars, serverTicks' \in Nat, serverTicks' >= serverTicks
    PROVE  SpeedTypes'
BY DEF IInv, TypeOK, UnpauseUnpauses, SpeedTypes, speedVars

LEMMA FromSpeedTypes ==
    ASSUME IInv, SpeedTypes', UNCHANGED <<requestVars, zoneVars, tickVars>>,
           agreed' \in BOOLEAN
    PROVE  IInv'
BY DEF IInv, TypeOK, UnpauseUnpauses, SpeedTypes, requestVars, zoneVars, tickVars

LEMMA AgreementType ==
    ASSUME KeepAgreement PROVE agreed' \in BOOLEAN
BY DEF KeepAgreement

-----------------------------------------------------------------------------
(* The steps. *)

LEMMA PlayerStepKeeps == IInv /\ PlayerStep => IInv'
<1> SUFFICES ASSUME IInv, PlayerStep PROVE IInv'
    OBVIOUS
<1>0. previousNonPauseSpeed \in ClockSpeedMode
    BY DEF IInv, UnpauseUnpauses
<1>1. CASE PlayerSetsSpeed
  <2>1. \E speed \in ClockSpeedMode : \E source : SetClockSpeed(speed, source)
      BY <1>0, <1>1 DEF PlayerSetsSpeed, PauseCommand, UnpauseCommand, TogglePause, SetSpeedCommand
  <2> QED BY <1>1, <2>1, SetClockSpeedStep, FromSpeedTypes, AgreementType
         DEF PlayerSetsSpeed, tickVars
<1>2. ASSUME NEW h \in Handle, RequestPause(h) \/ UnrequestPause(h) PROVE IInv'
    BY <1>2, ClockBounds
       DEF RequestPause, UnrequestPause, IInv, TypeOK, UnpauseUnpauses, speedVars, zoneVars, tickVars
<1>3. CASE ClearPauseRequests
    BY <1>3, ClockBounds
       DEF ClearPauseRequests, IInv, TypeOK, UnpauseUnpauses, speedVars, zoneVars, tickVars
<1> QED BY <1>1, <1>2, <1>3 DEF PlayerStep

LEMMA GameplayStepKeeps == IInv /\ GameplayStep => IInv'
<1> SUFFICES ASSUME IInv, GameplayStep PROVE IInv'
    OBVIOUS
<1>1. CASE GameplaySetsSpeed
    BY <1>1, SetClockSpeedStep, FromSpeedTypes, AgreementType
       DEF GameplaySetsSpeed, tickVars
<1>2. ASSUME NEW s \in Sim, NEW speed \in ClockSpeedMode, RegisterSpeedRequest(s, speed)
      PROVE  IInv'
  <2>1. serverTicks' = serverTicks /\ serverTicks \in Nat
      BY <1>2 DEF RegisterSpeedRequest, tickVars, IInv, TypeOK
  <2>2. SpeedTypes'
      BY <1>2, <2>1, SetClockSpeedStep, NoSpeedChange DEF RegisterSpeedRequest
  <2> QED BY <1>2, <2>2
             DEF RegisterSpeedRequest, SpeedTypes, IInv, TypeOK, UnpauseUnpauses, zoneVars, tickVars
<1>3. ASSUME NEW s \in Sim, UnregisterSpeedRequest(s) PROVE IInv'
  <2>1. serverTicks' = serverTicks /\ serverTicks \in Nat
      BY <1>3 DEF UnregisterSpeedRequest, tickVars, IInv, TypeOK
  <2>2. SpeedTypes'
      BY <1>3, <2>1, SetClockSpeedStep, NoSpeedChange DEF UnregisterSpeedRequest
  <2> QED BY <1>3, <2>2
             DEF UnregisterSpeedRequest, SpeedTypes, IInv, TypeOK, UnpauseUnpauses, zoneVars, tickVars
<1> QED BY <1>1, <1>2, <1>3 DEF GameplayStep

LEMMA ZoneStepKeeps == IInv /\ ZoneStep => IInv'
<1> SUFFICES ASSUME IInv, ZoneStep PROVE IInv'
    OBVIOUS
<1>1. CASE RestoreSavedClockSpeed
  <2>1. SpeedTypes'
    <3>1. CASE connectSpeed # NoSpeed
      <4>1. connectSpeed \in ClockSpeedMode
          BY <3>1 DEF IInv, TypeOK
      <4> QED BY <1>1, <4>1, SetClockSpeedStep DEF RestoreSavedClockSpeed, tickVars
    <3>2. CASE connectSpeed = NoSpeed
        BY <1>1, <3>2, SetClockSpeedStep DEF RestoreSavedClockSpeed, tickVars
    <3> QED BY <3>1, <3>2
  <2>2. /\ connectSpeed' \in {connectSpeed, NoSpeed} /\ zoneRunning' \in BOOLEAN
        /\ UNCHANGED <<resumes, requestVars, tickVars>> /\ agreed' \in BOOLEAN
      BY <1>1, AgreementType DEF RestoreSavedClockSpeed, IInv, TypeOK
  <2> QED BY <2>1, <2>2
             DEF SpeedTypes, IInv, TypeOK, UnpauseUnpauses, requestVars, tickVars
<1>2. CASE ClientDisconnects
  <2>1. spent' \in [ClockSpeedMode -> Nat]
    <3>1. serverTicks - lastSpeedChange \in Nat /\ spent \in [ClockSpeedMode -> Nat]
        BY DEF IInv, TypeOK
    <3>2. spent' = [spent EXCEPT ![EffectiveSpeed] = @ + (serverTicks - lastSpeedChange)]
        BY <1>2 DEF ClientDisconnects
    <3>3. EffectiveSpeed \in ClockSpeedMode
        BY DEF EffectiveSpeed, IInv, TypeOK
    <3>4. spent[EffectiveSpeed] + (serverTicks - lastSpeedChange) \in Nat
        BY <3>1, <3>3
    <3> QED BY <3>1, <3>2, <3>4
  <2>2. clockSpeed' \in ClockSpeedMode /\ previousNonPauseSpeed' \in {NORMAL, SPEED2, SPEED3}
      BY <1>2 DEF ClientDisconnects, RememberSpeed, IInv, TypeOK, UnpauseUnpauses
  <2>3. lastSpeedChange' = serverTicks /\ zoneRunning' \in BOOLEAN /\ agreed' \in BOOLEAN
      BY <1>2, AgreementType DEF ClientDisconnects
  <2>4. UNCHANGED <<multiplierType, requestVars, connectSpeed, resumes, tickVars>>
      BY <1>2 DEF ClientDisconnects
  <2> QED BY <2>1, <2>2, <2>3, <2>4
             DEF IInv, TypeOK, UnpauseUnpauses, requestVars, tickVars
<1> QED BY <1>1, <1>2 DEF ZoneStep

LEMMA StepType ==
    ASSUME NEW elapsed \in Nat
    PROVE  Step(elapsed) \in Nat
BY StepAssumption DEF Step

LEMMA ProductType ==
    ASSUME NEW m \in Nat, NEW n \in Nat
    PROVE  m * n \in Nat
OBVIOUS

LEMMA RoundedType ==
    ASSUME NEW parts \in Int
    PROVE  Rounded(parts) \in Int
<1>1. 2 * parts + D \in Int /\ 2 * D \in Nat \ {0}
    BY PartsAssumption
<1> QED BY <1>1 DEF Rounded

\* What a tick of an unpaused clock computes: the step it counts, and so on.
LEMMA TickAdvances ==
    ASSUME IInv, NEW elapsed \in 0..MaxElapsed, TickGameClock(elapsed)
    PROVE  /\ serverTicks' \in Nat /\ serverTicks' >= serverTicks
           /\ previousAbsoluteTicks' = serverTicks'
           /\ gameTicks' \in Int /\ errorAccumulation' \in Int /\ exactTime' \in Nat
           /\ lastError' \in Int /\ recounted' \in Int
<1> USE DEF IInv, TypeOK
<1>1. elapsed \in Nat /\ serverTicks' = serverTicks + elapsed
      /\ previousAbsoluteTicks' = serverTicks'
    BY ClockBounds DEF TickGameClock
<1>2. CASE EffectiveSpeed = PAUSED
    BY <1>1, <1>2 DEF TickGameClock
<1>3. CASE EffectiveSpeed # PAUSED
  <2> DEFINE scale == Scale[multiplierType][EffectiveSpeed]
             counted == Step(serverTicks' - previousAbsoluteTicks)
             ideal == counted * scale + errorAccumulation
  <2>1. scale \in Nat
      BY ScaleAssumption DEF EffectiveSpeed
  <2>2. counted \in Nat /\ Step(elapsed) \in Nat
    <3>1. serverTicks' - previousAbsoluteTicks \in Nat
        BY <1>1
    <3> QED BY <1>1, <3>1, StepType
  <2>3. counted * scale \in Nat /\ Step(elapsed) * scale \in Nat
      BY <2>1, <2>2, ProductType
  <2>4. ideal \in Int
      BY <2>3
  <2>5. /\ gameTicks' = gameTicks + Rounded(ideal)
        /\ errorAccumulation' = CarriedError(ideal)
        /\ exactTime' = exactTime + Step(elapsed) * scale
        /\ lastError' = ideal - Rounded(ideal) * D
        /\ recounted' = recounted + (errorAccumulation - lastError)
      BY <1>3 DEF TickGameClock, CountAgain
  <2> HIDE DEF scale, ideal
  <2>6. Rounded(ideal) \in Int
      BY <2>4, RoundedType
  <2>7. Rounded(ideal) * D \in Int
      BY <2>6, PartsAssumption
  <2>8. CarriedError(ideal) \in Int
      BY <2>4, <2>7, PartsAssumption DEF CarriedError, Clamped
  <2> QED BY <1>1, <2>3, <2>4, <2>5, <2>6, <2>7, <2>8
<1> QED BY <1>2, <1>3

LEMMA ServerTickKeeps == IInv /\ ServerTick => IInv'
<1> SUFFICES ASSUME IInv, ServerTick PROVE IInv'
    OBVIOUS
<1>1. PICK elapsed \in 0..MaxElapsed : TickGameClock(elapsed)
    BY DEF ServerTick
<1>2. /\ serverTicks' \in Nat /\ serverTicks' >= serverTicks
      /\ previousAbsoluteTicks' = serverTicks'
      /\ gameTicks' \in Int /\ errorAccumulation' \in Int /\ exactTime' \in Nat
      /\ lastError' \in Int /\ recounted' \in Int
    BY <1>1, TickAdvances
<1> QED BY <1>2
           DEF ServerTick, IInv, TypeOK, UnpauseUnpauses, speedVars, requestVars, zoneVars

LEMMA InitKeeps == Init => IInv
<1> SUFFICES ASSUME Init PROVE IInv
    OBVIOUS
<1>1. /\ clockSpeed \in ClockSpeedMode /\ previousNonPauseSpeed \in {NORMAL, SPEED2, SPEED3}
      /\ multiplierType \in MultiplierType
      /\ connectSpeed \in ClockSpeedMode \cup {NoSpeed}
    BY ScaleAssumption DEF Init
<1>2. /\ pauses \in [Handle -> 0..MaxPauses]
      /\ speedRequests \in [Sim -> ClockSpeedMode \cup {NoSpeed}]
      /\ spent \in [ClockSpeedMode -> Nat]
    BY ClockBounds DEF Init
<1>3. /\ serverTicks \in Nat /\ lastSpeedChange \in 0..serverTicks
      /\ previousAbsoluteTicks \in 0..serverTicks
      /\ gameTicks \in Int /\ errorAccumulation \in Int /\ exactTime \in Nat
      /\ lastError \in Int /\ recounted \in Int
    BY DEF Init
<1>4. resumes \in BOOLEAN /\ zoneRunning \in BOOLEAN /\ agreed \in BOOLEAN
    BY Zenon DEF Init
<1> QED BY <1>1, <1>2, <1>3, <1>4 DEF IInv, TypeOK, UnpauseUnpauses

LEMMA NextKeeps == IInv /\ [Next]_clockVars => IInv'
<1> SUFFICES ASSUME IInv, [Next]_clockVars PROVE IInv'
    OBVIOUS
<1>1. CASE UNCHANGED clockVars
    BY <1>1 DEF clockVars, speedVars, requestVars, zoneVars, tickVars, IInv, TypeOK, UnpauseUnpauses
<1> QED BY <1>1, PlayerStepKeeps, GameplayStepKeeps, ZoneStepKeeps, ServerTickKeeps DEF Next

LEMMA Invariance == Spec => []IInv
BY InitKeeps, NextKeeps, PTL DEF Spec

-----------------------------------------------------------------------------
(* Theorems. *)

\* Every variable has its type.
THEOREM TypeCorrect == Spec => []TypeOK
<1>1. IInv => TypeOK
    BY DEF IInv
<1> QED BY <1>1, Invariance, PTL

\* Whatever came before, unpausing leaves the pause at a speed the player may
\* choose.
THEOREM Unpausing == Spec => []UnpauseUnpauses
<1>1. IInv => UnpauseUnpauses
    BY DEF IInv
<1> QED BY <1>1, Invariance, PTL

\* Nothing gameplay does ends a pause, and while a pause is requested nobody
\* changes the speed.
THEOREM PausesAreKept == Spec => PausesHold
<1>1. ASSUME IInv, [Next]_clockVars
      PROVE  /\ GameplayStep /\ clockSpeed = PAUSED => clockSpeed' = PAUSED
             /\ Pausing => clockSpeed' = clockSpeed
  <2>1. ASSUME NEW speed, NEW source, SetClockSpeed(speed, source)
        PROVE  Pausing => clockSpeed' = clockSpeed
      BY <2>1 DEF SetClockSpeed, Refused, speedVars
  <2>2. ASSUME NEW speed, SetClockSpeed(speed, GAMEPLAY), clockSpeed = PAUSED
        PROVE  clockSpeed' = PAUSED
      BY <2>2 DEF SetClockSpeed, Cached, CacheForUnpause, ChangeSpeed, speedVars
  <2>3. ASSUME GameplayStep, clockSpeed = PAUSED PROVE clockSpeed' = PAUSED
      BY <2>2, <2>3
         DEF GameplayStep, GameplaySetsSpeed, RegisterSpeedRequest, UnregisterSpeedRequest, speedVars
  <2>4. ASSUME Pausing PROVE clockSpeed' = clockSpeed
    <3>1. CASE PlayerStep
        BY <2>1, <2>4, <3>1
           DEF PlayerStep, PlayerSetsSpeed, PauseCommand, UnpauseCommand, TogglePause,
               SetSpeedCommand, RequestPause, UnrequestPause, ClearPauseRequests, speedVars
    <3>2. CASE GameplayStep
        BY <2>1, <2>4, <3>2
           DEF GameplayStep, GameplaySetsSpeed, RegisterSpeedRequest, UnregisterSpeedRequest, speedVars
    <3>3. CASE ZoneStep
      <4>1. CASE RestoreSavedClockSpeed
        <5>1. \E speed, source : SetClockSpeed(speed, source)
            BY <4>1 DEF RestoreSavedClockSpeed
        <5> QED BY <2>1, <2>4, <5>1
      <4>2. CASE ClientDisconnects
          BY <2>4, <4>2 DEF ClientDisconnects
      <4> QED BY <3>3, <4>1, <4>2 DEF ZoneStep
    <3>4. CASE ServerTick \/ UNCHANGED clockVars
        BY <3>4 DEF ServerTick, clockVars, speedVars
    <3> QED BY <1>1, <3>1, <3>2, <3>3, <3>4 DEF Next
  <2> QED BY <2>3, <2>4
<1>2. IInv /\ [Next]_clockVars =>
        [/\ GameplayStep /\ clockSpeed = PAUSED => clockSpeed' = PAUSED
         /\ Pausing => clockSpeed' = clockSpeed]_clockVars
    BY <1>1
<1> QED BY <1>2, Invariance, PTL DEF Spec, PausesHold

-----------------------------------------------------------------------------
(* The household's speed. *)

\* Whoever else sets the speed leaves the requests as they are; and a fast speed
\* the household got is changed for another, or kept.
LEMMA OthersKeepBacked ==
    ASSUME HouseholdSpeedIsBacked, UNCHANGED speedRequests,
           KeepAgreement \/ UNCHANGED <<agreed, clockSpeed>>
    PROVE  HouseholdSpeedIsBacked'
BY DEF HouseholdSpeedIsBacked, KeepAgreement

LEMMA RegisterKeepsBacked ==
    ASSUME IInv, HouseholdSpeedIsBacked, NEW sim \in Sim, NEW speed \in ClockSpeedMode,
           RegisterSpeedRequest(sim, speed)
    PROVE  HouseholdSpeedIsBacked'
<1> SUFFICES ASSUME agreed', clockSpeed' > NORMAL, NEW s \in Sim
             PROVE  speedRequests'[s] # NoSpeed /\ clockSpeed' <= speedRequests'[s]
    BY DEF HouseholdSpeedIsBacked
<1>1. /\ speedRequests \in [Sim -> ClockSpeedMode \cup {NoSpeed}]
      /\ speedRequests' = [speedRequests EXCEPT ![sim] = speed]
      /\ clockSpeed \in ClockSpeedMode
    BY DEF IInv, TypeOK, RegisterSpeedRequest
<1>2. ~Pausing /\ (agreed \/ Granted(sim, speed))
    BY DEF RegisterSpeedRequest
<1>3. CASE Granted(sim, speed)
  <2>1. clockSpeed' = speed \/ clockSpeed' = PAUSED
      BY <1>2, <1>3
         DEF RegisterSpeedRequest, SetClockSpeed, Refused, Cached, CacheForUnpause, ChangeSpeed,
             GAMEPLAY, USER
  <2> QED BY <1>1, <1>3, <2>1 DEF Granted
\* What is not granted is more than some other Sim requests; the speed in force
\* is not more than that.
<1>4. CASE ~Granted(sim, speed)
  <2>1. agreed /\ clockSpeed' = clockSpeed
      BY <1>2, <1>4 DEF RegisterSpeedRequest, speedVars
  <2>2. \A t \in Sim : speedRequests[t] # NoSpeed /\ clockSpeed <= speedRequests[t]
      BY <2>1 DEF HouseholdSpeedIsBacked
  <2>3. PICK t \in Sim \ {sim} : speedRequests[t] = NoSpeed \/ ~(speedRequests[t] >= speed)
      BY <1>4 DEF Granted
  <2> QED BY <1>1, <2>1, <2>2, <2>3
<1> QED BY <1>3, <1>4

\* Not behind a pause request, a withdrawal ends every fast speed.
LEMMA UnregisterKeepsBacked ==
    ASSUME IInv, HouseholdSpeedIsBacked, NEW sim \in Sim, UnregisterSpeedRequest(sim)
    PROVE  HouseholdSpeedIsBacked'
<1> SUFFICES ASSUME agreed', clockSpeed' > NORMAL PROVE FALSE
    BY DEF HouseholdSpeedIsBacked
<1>1. ~Pausing /\ clockSpeed \in ClockSpeedMode
    BY DEF UnregisterSpeedRequest, IInv, TypeOK
<1>2. CASE clockSpeed > NORMAL
    BY <1>1, <1>2
       DEF UnregisterSpeedRequest, EffectiveSpeed, SetClockSpeed, Refused, Cached, ChangeSpeed,
           GAMEPLAY, USER
<1>3. CASE ~(clockSpeed > NORMAL)
    BY <1>1, <1>3 DEF UnregisterSpeedRequest, EffectiveSpeed, speedVars
<1> QED BY <1>2, <1>3

LEMMA NextKeepsBacked ==
    IInv /\ HouseholdSpeedIsBacked /\ [Next]_clockVars => HouseholdSpeedIsBacked'
<1> SUFFICES ASSUME IInv, HouseholdSpeedIsBacked, [Next]_clockVars
             PROVE  HouseholdSpeedIsBacked'
    OBVIOUS
<1>1. CASE PlayerStep
    BY <1>1, OthersKeepBacked
       DEF PlayerStep, PlayerSetsSpeed, RequestPause, UnrequestPause, ClearPauseRequests,
           requestVars, speedVars
<1>2. CASE GameplaySetsSpeed
    BY <1>2, OthersKeepBacked DEF GameplaySetsSpeed, requestVars
<1>3. CASE ZoneStep
    BY <1>3, OthersKeepBacked
       DEF ZoneStep, RestoreSavedClockSpeed, ClientDisconnects, requestVars
<1>4. CASE ServerTick \/ UNCHANGED clockVars
    BY <1>4, OthersKeepBacked DEF ServerTick, clockVars, requestVars, speedVars
<1> QED BY <1>1, <1>2, <1>3, <1>4, RegisterKeepsBacked, UnregisterKeepsBacked
        DEF Next, GameplayStep

\* A fast speed the household got is in force only while everyone requests it or a
\* faster one, but for what changes behind a pause request: for every household and
\* every order of requests, withdrawals, pauses and other changes of speed.
THEOREM HouseholdSpeedStaysBacked == Spec => []HouseholdSpeedIsBacked
<1>1. Init => HouseholdSpeedIsBacked
    BY DEF Init, HouseholdSpeedIsBacked
<1> QED BY <1>1, NextKeepsBacked, Invariance, PTL DEF Spec

-----------------------------------------------------------------------------
(* Game time. *)

\* The game time, without what was counted again, is off by exactly what the last
\* rounding left over, and that is half a tick at most.
TimeAccount ==
    /\ gameTicks * D - exactTime - recounted = 0 - lastError
    /\ 2 * lastError <= D /\ 0 - D <= 2 * lastError
    /\ previousAbsoluteTicks = serverTicks

\* A number differs from its quotient by less than the divisor.
LEMMA QuotientBounds ==
    ASSUME NEW n \in Int, NEW m \in Nat \ {0}
    PROVE  n \div m \in Int /\ m * (n \div m) <= n /\ n < m * (n \div m) + m
OBVIOUS

\* Rounding leaves at most half a tick over.
LEMMA RoundingError ==
    ASSUME NEW parts \in Int
    PROVE  /\ 2 * (parts - Rounded(parts) * D) <= D
           /\ 0 - D <= 2 * (parts - Rounded(parts) * D)
<1>1. D \in Nat \ {0} /\ Rounded(parts) \in Int
    BY PartsAssumption, RoundedType
<1>2. 2 * parts + D \in Int /\ 2 * D \in Nat \ {0}
    BY <1>1
<1>3. /\ (2 * D) * Rounded(parts) <= 2 * parts + D
      /\ 2 * parts + D < (2 * D) * Rounded(parts) + 2 * D
    BY <1>2, QuotientBounds DEF Rounded
<1>4. (2 * D) * Rounded(parts) = 2 * (Rounded(parts) * D) /\ Rounded(parts) * D \in Int
    BY <1>1
<1> HIDE DEF Rounded
<1> QED BY <1>1, <1>3, <1>4

LEMMA WholeSum ==
    ASSUME NEW m \in Int, NEW n \in Int
    PROVE  (m + n) * D = m * D + n * D
BY PartsAssumption

\* A tick of an unpaused clock moves the error from the account of one rounding to
\* that of the next.
LEMMA TickKeepsAccount ==
    ASSUME IInv, TimeAccount, NEW elapsed \in 0..MaxElapsed, TickGameClock(elapsed)
    PROVE  TimeAccount'
<1> USE DEF TimeAccount
<1>1. /\ elapsed \in Nat /\ serverTicks \in Nat /\ gameTicks \in Int /\ exactTime \in Nat
      /\ errorAccumulation \in Int /\ lastError \in Int /\ recounted \in Int
      /\ serverTicks' = serverTicks + elapsed
      /\ previousAbsoluteTicks' = serverTicks'
    BY ClockBounds DEF TickGameClock, IInv, TypeOK
<1>2. CASE EffectiveSpeed = PAUSED
    BY <1>1, <1>2 DEF TickGameClock
<1>3. CASE EffectiveSpeed # PAUSED
  <2> DEFINE counted == Step(elapsed) * Scale[multiplierType][EffectiveSpeed]
             ideal == Step(serverTicks' - previousAbsoluteTicks)
                        * Scale[multiplierType][EffectiveSpeed] + errorAccumulation
  <2>1. counted \in Nat
    <3>1. Scale[multiplierType][EffectiveSpeed] \in Nat
        BY ScaleAssumption DEF EffectiveSpeed, IInv, TypeOK
    <3>2. Step(elapsed) \in Nat
        BY <1>1, StepType
    <3> QED BY <3>1, <3>2, ProductType
  <2>2. serverTicks' - previousAbsoluteTicks = elapsed
      BY <1>1
  <2>3. ideal = counted + errorAccumulation
      BY <2>2
  <2>4. /\ gameTicks' = gameTicks + Rounded(ideal)
        /\ exactTime' = exactTime + counted
        /\ lastError' = ideal - Rounded(ideal) * D
        /\ recounted' = recounted + (errorAccumulation - lastError)
      BY <1>3 DEF TickGameClock, CountAgain
  <2> HIDE DEF ideal, counted
  <2>5. ideal \in Int /\ Rounded(ideal) \in Int /\ D \in Nat
      BY <1>1, <2>1, <2>3, RoundedType, PartsAssumption
  <2>6. gameTicks' * D = gameTicks * D + Rounded(ideal) * D
      BY <1>1, <2>4, <2>5, WholeSum
  <2>7. gameTicks * D \in Int /\ Rounded(ideal) * D \in Int
      BY <1>1, <2>5
  <2>8. gameTicks' * D - exactTime' - recounted' = 0 - lastError'
      BY <1>1, <2>1, <2>3, <2>4, <2>5, <2>6, <2>7
  <2>9. 2 * lastError' <= D /\ 0 - D <= 2 * lastError'
      BY <2>4, <2>5, RoundingError
  <2> QED BY <1>1, <2>8, <2>9
<1> QED BY <1>2, <1>3

LEMMA OtherStepsKeepAccount ==
    ASSUME TimeAccount, PlayerStep \/ GameplayStep \/ ZoneStep \/ UNCHANGED clockVars
    PROVE  TimeAccount'
<1>1. CASE PlayerStep
    BY <1>1 DEF PlayerStep, PlayerSetsSpeed, RequestPause, UnrequestPause, ClearPauseRequests,
                tickVars, TimeAccount
<1>2. CASE GameplayStep
    BY <1>2 DEF GameplayStep, GameplaySetsSpeed, RegisterSpeedRequest, UnregisterSpeedRequest,
                tickVars, TimeAccount
<1>3. CASE ZoneStep
    BY <1>3 DEF ZoneStep, RestoreSavedClockSpeed, ClientDisconnects, tickVars, TimeAccount
<1>4. CASE UNCHANGED clockVars
    BY <1>4 DEF clockVars, tickVars, TimeAccount
<1> QED BY <1>1, <1>2, <1>3, <1>4

LEMMA InitAccount == Init => TimeAccount
BY PartsAssumption DEF Init, TimeAccount

LEMMA AccountSaysOff == IInv /\ TimeAccount => TimeOffByRecounting
<1> SUFFICES ASSUME IInv, TimeAccount PROVE TimeOffByRecounting
    OBVIOUS
<1>1. lastError \in Int /\ D \in Nat
    BY PartsAssumption DEF IInv, TypeOK
<1> QED BY <1>1 DEF TimeAccount, TimeOffByRecounting

\* What game time is off by, for every multiplier and every order of ticks, capped
\* ticks, pauses and changes of speed: half a tick, and the errors counted again.
THEOREM TimeStaysAccounted == Spec => []TimeOffByRecounting
<1>1. IInv /\ TimeAccount /\ [Next]_clockVars => TimeAccount'
    BY TickKeepsAccount, OtherStepsKeepAccount DEF Next, ServerTick
<1> QED BY <1>1, InitAccount, AccountSaysOff, Invariance, PTL DEF Spec

=============================================================================
