------------------------------ MODULE GameClock ------------------------------
(***************************************************************************)
(* The GameClock of a zone (simulation/clock.py) and everybody who changes *)
(* its speed: the player's commands (server_commands/clock_commands.py),   *)
(* interactions that set or request a speed (interactions/utils/           *)
(* tunable.py), travel, loading, and the pause requests that overrule them *)
(* all.                                                                    *)
(*                                                                         *)
(* The clock turns server ticks into game ticks: it multiplies by the      *)
(* speed's multiplier, rounds to whole ticks, and carries the rounding     *)
(* error over to the next tick.  Multipliers, errors and the exact game    *)
(* time are counted here in parts of a tick, D of them to one.             *)
(*                                                                         *)
(* SuperSpeedThree is taken as never active.                               *)
(***************************************************************************)
EXTENDS Integers

CONSTANTS
    Sim,                      \* the instanced Sims of the player's household
    Handle,                   \* names given to pause requests
    MultiplierType,           \* ClockSpeedMultiplierType
    DEFAULT,                  \* its default member
    D,                        \* parts of a tick
    Scale,                    \* [MultiplierType -> [ClockSpeedMode -> parts]]
    MAX_GAME_CLOCK_TICK_STEP, \* server ticks counted at most for one tick
    MaxElapsed,               \* bound: server ticks between two ticks
    MaxServerTicks,           \* bound: the server clock
    MaxPauses                 \* bound: pending pause requests of one name

PAUSED                    == 0
NORMAL                    == 1
SPEED2                    == 2
SPEED3                    == 3
INTERACTION_STARTUP_SPEED == 4
ClockSpeedMode == PAUSED..INTERACTION_STARTUP_SPEED
NoSpeed        == 5              \* None, or no entry for the Sim

USER     == "USER"
GAMEPLAY == "GAMEPLAY"
STARTUP  == "STARTUP"
GameSpeedChangeSource == {USER, GAMEPLAY, STARTUP}

ASSUME PartsAssumption == D \in Nat \ {0}
ASSUME ScaleAssumption ==
    /\ DEFAULT \in MultiplierType
    /\ Scale \in [MultiplierType -> [ClockSpeedMode -> Nat]]
    /\ \A t \in MultiplierType : Scale[t][PAUSED] = 0 /\ Scale[t][NORMAL] = D
ASSUME StepAssumption == MAX_GAME_CLOCK_TICK_STEP \in Nat \ {0}
ASSUME ClockBounds ==
    MaxElapsed \in Nat /\ MaxServerTicks \in Nat /\ MaxPauses \in Nat

VARIABLES
    clockSpeed,            \* _clock_speed
    previousNonPauseSpeed, \* _previous_non_pause_speed
    multiplierType,        \* clock_speed_multiplier_type
    pauses,                \* _pause_requests: how often each name is in it
    speedRequests,         \* _sim_game_speed_requests
    connectSpeed,          \* _client_connect_speed
    resumes,               \* this zone takes its saved speed up again
    zoneRunning,           \* is_zone_running
    spent,                 \* _server_ticks_spent_in_speed
    lastSpeedChange,       \* _last_speed_change_server_time
    serverTicks,           \* the ServerClock
    previousAbsoluteTicks, \* _previous_absolute_ticks
    gameTicks,             \* _game_clock
    errorAccumulation,     \* _error_accumulation
    exactTime,             \* history: the game time without any rounding
    lastError,             \* history: what the last rounding left over
    recounted,             \* history: the older errors the clock counted again
    agreed                 \* history: the household's requests set this speed

speedVars   == <<clockSpeed, previousNonPauseSpeed, multiplierType, spent, lastSpeedChange>>
requestVars == <<pauses, speedRequests>>
zoneVars    == <<connectSpeed, resumes, zoneRunning>>
tickVars    == <<serverTicks, previousAbsoluteTicks, gameTicks, errorAccumulation, exactTime,
                 lastError, recounted>>
clockVars   == <<speedVars, requestVars, zoneVars, tickVars, agreed>>

-----------------------------------------------------------------------------
(* The speed in force. *)

Pausing        == \E h \in Handle : pauses[h] > 0
EffectiveSpeed == IF Pausing THEN PAUSED ELSE clockSpeed

(***************************************************************************)
(* set_clock_speed.  A gameplay request during a pause is not carried out: *)
(* it can only lower the speed the pause will end in.  Setting NORMAL also *)
(* resets the multiplier type, which sets the current speed once more and  *)
(* changes nothing.                                                        *)
(***************************************************************************)
Refused(source) == Pausing \/ (source = USER /\ ~zoneRunning)

Cached(speed, source) ==
    source = GAMEPLAY /\ clockSpeed = PAUSED /\ speed # PAUSED

CacheForUnpause(speed) ==
    /\ previousNonPauseSpeed' =
         IF previousNonPauseSpeed > speed THEN speed ELSE previousNonPauseSpeed
    /\ UNCHANGED <<clockSpeed, multiplierType, spent, lastSpeedChange>>

AccountTimeIn(speed) ==
    /\ spent' = [spent EXCEPT ![speed] = @ + (serverTicks - lastSpeedChange)]
    /\ lastSpeedChange' = serverTicks

\* Mutant: the pause is remembered as a speed, too.
Mutant_RemembersAny(speed) ==
    previousNonPauseSpeed' = IF speed # clockSpeed THEN clockSpeed ELSE previousNonPauseSpeed

RememberSpeed(speed) ==
    previousNonPauseSpeed' =
        IF speed # clockSpeed /\ clockSpeed \notin {INTERACTION_STARTUP_SPEED, PAUSED}
        THEN clockSpeed ELSE previousNonPauseSpeed

ChangeSpeed(speed) ==
    /\ RememberSpeed(speed)
    /\ IF speed # clockSpeed THEN AccountTimeIn(clockSpeed)
       ELSE UNCHANGED <<spent, lastSpeedChange>>
    /\ multiplierType' = IF speed = NORMAL THEN DEFAULT ELSE multiplierType
    /\ clockSpeed' = speed

\* Mutant: gameplay sets the speed of a clock the player has paused.
Mutant_NoCaching(speed, source) ==
    \/ Refused(source) /\ UNCHANGED speedVars
    \/ ~Refused(source) /\ ChangeSpeed(speed)

SetClockSpeed(speed, source) ==
    \/ Refused(source) /\ UNCHANGED speedVars
    \/ ~Refused(source) /\ Cached(speed, source) /\ CacheForUnpause(speed)
    \/ ~Refused(source) /\ ~Cached(speed, source) /\ ChangeSpeed(speed)

\* History: another speed is not the household's any more.
KeepAgreement == agreed' = (agreed /\ clockSpeed' = clockSpeed)

-----------------------------------------------------------------------------
(* The player. *)

\* clock.pause and clock.unpause name any source; toggle and setspeed are
\* the player's.
PauseCommand ==
    \E source \in GameSpeedChangeSource : SetClockSpeed(PAUSED, source)

UnpauseCommand ==
    \E source \in GameSpeedChangeSource : SetClockSpeed(previousNonPauseSpeed, source)

TogglePause ==
    SetClockSpeed(IF EffectiveSpeed = PAUSED THEN previousNonPauseSpeed ELSE PAUSED, USER)

SetSpeedCommand == \E speed \in {NORMAL, SPEED2, SPEED3} : SetClockSpeed(speed, USER)

PlayerSetsSpeed ==
    /\ PauseCommand \/ UnpauseCommand \/ TogglePause \/ SetSpeedCommand
    /\ KeepAgreement
    /\ UNCHANGED <<requestVars, zoneVars, tickVars>>

\* Build mode, travel and the commands; withdrawing a request that is not
\* there raises ValueError and changes nothing.
RequestPause(h) ==
    /\ pauses[h] < MaxPauses
    /\ pauses' = [pauses EXCEPT ![h] = @ + 1]
    /\ UNCHANGED <<speedVars, speedRequests, zoneVars, tickVars, agreed>>

UnrequestPause(h) ==
    /\ pauses[h] > 0
    /\ pauses' = [pauses EXCEPT ![h] = @ - 1]
    /\ UNCHANGED <<speedVars, speedRequests, zoneVars, tickVars, agreed>>

ClearPauseRequests ==
    /\ pauses' = [h \in Handle |-> 0]
    /\ UNCHANGED <<speedVars, speedRequests, zoneVars, tickVars, agreed>>

-----------------------------------------------------------------------------
(* Gameplay. *)

\* An interaction's basic extra, or travel, which pauses.
GameplaySetsSpeed ==
    /\ \E speed \in ClockSpeedMode : SetClockSpeed(speed, GAMEPLAY)
    /\ KeepAgreement
    /\ UNCHANGED <<requestVars, zoneVars, tickVars>>

\* A Sim requests a speed: the loop over the household gives up at a Sim that
\* requested nothing or something lower.
Granted(sim, speed) ==
    \A s \in Sim \ {sim} : speedRequests[s] # NoSpeed /\ speedRequests[s] >= speed

RegisterSpeedRequest(sim, speed) ==
    /\ speedRequests' = [speedRequests EXCEPT ![sim] = speed]
    /\ IF Granted(sim, speed) THEN SetClockSpeed(speed, GAMEPLAY)
       ELSE UNCHANGED speedVars
    /\ agreed' = (~Pausing /\ (agreed \/ Granted(sim, speed)))
    /\ UNCHANGED <<pauses, zoneVars, tickVars>>

\* Mutant: only the fastest speed is given up.
Mutant_WithdrawsFromFastest(sim) ==
    /\ speedRequests[sim] # NoSpeed
    /\ IF EffectiveSpeed > SPEED2 THEN SetClockSpeed(NORMAL, GAMEPLAY)
       ELSE UNCHANGED speedVars
    /\ speedRequests' = [speedRequests EXCEPT ![sim] = NoSpeed]
    /\ agreed' = (agreed /\ ~Pausing)
    /\ UNCHANGED <<pauses, zoneVars, tickVars>>

\* Behind a pause request the clock stands, and its speed is not given up.
UnregisterSpeedRequest(sim) ==
    /\ speedRequests[sim] # NoSpeed
    /\ IF EffectiveSpeed > NORMAL THEN SetClockSpeed(NORMAL, GAMEPLAY)
       ELSE UNCHANGED speedVars
    /\ speedRequests' = [speedRequests EXCEPT ![sim] = NoSpeed]
    /\ agreed' = (agreed /\ ~Pausing)
    /\ UNCHANGED <<pauses, zoneVars, tickVars>>

-----------------------------------------------------------------------------
(* The zone. *)

\* Mutant: no saved speed is restored, too.
Mutant_RestoresAnything ==
    /\ SetClockSpeed(connectSpeed, STARTUP) /\ connectSpeed' = NoSpeed
    /\ zoneRunning' \in {zoneRunning, TRUE}
    /\ KeepAgreement
    /\ UNCHANGED <<resumes, requestVars, tickVars>>

\* For a client without a household, or when the loading screen is gone and
\* the zone runs.  The saved speed is forgotten also when a pause request
\* refuses it.
RestoreSavedClockSpeed ==
    /\ IF connectSpeed # NoSpeed /\ resumes
       THEN SetClockSpeed(connectSpeed, STARTUP) /\ connectSpeed' = NoSpeed
       ELSE SetClockSpeed(NORMAL, STARTUP) /\ UNCHANGED connectSpeed
    /\ zoneRunning' \in {zoneRunning, TRUE}
    /\ KeepAgreement
    /\ UNCHANGED <<resumes, requestVars, tickVars>>

\* on_client_disconnect: the time since the last change is accounted for the
\* speed in force, then the (only) client's zone is paused.  At the tick the
\* clock was made in, the percentages divide by zero and nothing is paused.
ClientDisconnects ==
    /\ serverTicks > 0
    /\ LET accounted == [spent EXCEPT ![EffectiveSpeed] = @ + (serverTicks - lastSpeedChange)]
       IN  spent' = accounted
    /\ lastSpeedChange' = serverTicks
    /\ IF Pausing THEN UNCHANGED <<clockSpeed, previousNonPauseSpeed>>
       ELSE RememberSpeed(PAUSED) /\ clockSpeed' = PAUSED
    /\ zoneRunning' = FALSE /\ KeepAgreement
    /\ UNCHANGED <<multiplierType, requestVars, connectSpeed, resumes, tickVars>>

-----------------------------------------------------------------------------
(* tick_game_clock. *)

Rounded(parts) == (2 * parts + D) \div (2 * D)       \* floor(x + 0.5)

Clamped(parts) ==
    IF parts < 0 - D THEN 0 - D ELSE IF parts > D THEN D ELSE parts

Step(elapsed) ==
    IF elapsed > MAX_GAME_CLOCK_TICK_STEP THEN MAX_GAME_CLOCK_TICK_STEP ELSE elapsed

CarriedError(ideal) == errorAccumulation + Clamped(ideal - Rounded(ideal) * D)

\* History: of the error a tick carries over, the last rounding left only a part
\* over; the rest was counted before.
CountAgain(ideal) ==
    /\ lastError' = ideal - Rounded(ideal) * D
    /\ recounted' = recounted + (errorAccumulation - lastError)

\* Mutant: time passes unnoticed while the clock is paused.
Mutant_JumpsAfterPause(elapsed) ==
    /\ serverTicks + elapsed <= MaxServerTicks
    /\ serverTicks' = serverTicks + elapsed
    /\ IF EffectiveSpeed = PAUSED
       THEN UNCHANGED <<previousAbsoluteTicks, gameTicks, errorAccumulation, exactTime,
                        lastError, recounted>>
       ELSE LET scale == Scale[multiplierType][EffectiveSpeed]
                ideal == Step(serverTicks' - previousAbsoluteTicks) * scale + errorAccumulation
            IN  /\ gameTicks' = gameTicks + Rounded(ideal)
                /\ errorAccumulation' = CarriedError(ideal)
                /\ exactTime' = exactTime + Step(elapsed) * scale
                /\ CountAgain(ideal)
                /\ previousAbsoluteTicks' = serverTicks'

TickGameClock(elapsed) ==
    /\ serverTicks + elapsed <= MaxServerTicks
    /\ serverTicks' = serverTicks + elapsed
    /\ previousAbsoluteTicks' = serverTicks'
    /\ IF EffectiveSpeed = PAUSED
       THEN UNCHANGED <<gameTicks, errorAccumulation, exactTime, lastError, recounted>>
       ELSE LET scale == Scale[multiplierType][EffectiveSpeed]
                ideal == Step(serverTicks' - previousAbsoluteTicks) * scale + errorAccumulation
            IN  /\ gameTicks' = gameTicks + Rounded(ideal)
                /\ errorAccumulation' = CarriedError(ideal)
                /\ exactTime' = exactTime + Step(elapsed) * scale
                /\ CountAgain(ideal)

-----------------------------------------------------------------------------
Init ==
    /\ clockSpeed = PAUSED /\ previousNonPauseSpeed = NORMAL
    /\ multiplierType = DEFAULT
    /\ pauses = [h \in Handle |-> 0] /\ speedRequests = [s \in Sim |-> NoSpeed]
    /\ connectSpeed \in {PAUSED, NORMAL, NoSpeed} /\ resumes \in BOOLEAN
    /\ zoneRunning = FALSE
    /\ spent = [s \in ClockSpeedMode |-> 0] /\ lastSpeedChange = 0
    /\ serverTicks = 0 /\ previousAbsoluteTicks = 0
    /\ gameTicks = 0 /\ errorAccumulation = 0 /\ exactTime = 0
    /\ lastError = 0 /\ recounted = 0
    /\ agreed = FALSE

GameplayStep ==
    \/ GameplaySetsSpeed
    \/ \E s \in Sim : \/ \E speed \in ClockSpeedMode : RegisterSpeedRequest(s, speed)
                      \/ UnregisterSpeedRequest(s)

PlayerStep ==
    \/ PlayerSetsSpeed
    \/ \E h \in Handle : RequestPause(h) \/ UnrequestPause(h)
    \/ ClearPauseRequests

ZoneStep == RestoreSavedClockSpeed \/ ClientDisconnects

ServerTick ==
    /\ \E elapsed \in 0..MaxElapsed : TickGameClock(elapsed)
    /\ UNCHANGED <<speedVars, requestVars, zoneVars, agreed>>

Next == PlayerStep \/ GameplayStep \/ ZoneStep \/ ServerTick

Spec == Init /\ [][Next]_clockVars

-----------------------------------------------------------------------------
(* Properties. *)

\* Every variable has its type.
TypeOK ==
    /\ clockSpeed \in ClockSpeedMode /\ previousNonPauseSpeed \in ClockSpeedMode
    /\ multiplierType \in MultiplierType
    /\ pauses \in [Handle -> 0..MaxPauses]
    /\ speedRequests \in [Sim -> ClockSpeedMode \cup {NoSpeed}]
    /\ connectSpeed \in ClockSpeedMode \cup {NoSpeed}
    /\ resumes \in BOOLEAN /\ zoneRunning \in BOOLEAN
    /\ spent \in [ClockSpeedMode -> Nat]
    /\ serverTicks \in Nat /\ lastSpeedChange \in 0..serverTicks
    /\ previousAbsoluteTicks \in 0..serverTicks
    /\ gameTicks \in Int /\ errorAccumulation \in Int /\ exactTime \in Nat
    /\ lastError \in Int /\ recounted \in Int /\ agreed \in BOOLEAN

\* Whatever sequence of speeds, pauses and requests came before, unpausing
\* leaves the pause, at a speed the player may choose.
UnpauseUnpauses == previousNonPauseSpeed \in {NORMAL, SPEED2, SPEED3}

\* Nothing gameplay does ends a pause, whether the player, travel or a pause
\* request made it, and until the last pause request is withdrawn nobody
\* changes the speed behind it.
PausesHold ==
    [][/\ GameplayStep /\ clockSpeed = PAUSED => clockSpeed' = PAUSED
       /\ Pausing => clockSpeed' = clockSpeed]_clockVars

\* interactions/utils/tunable.py:168: a requested speed occurs when all of the
\* household's Sims have requested it.  A fast speed the household got stays in
\* force only as long as everyone requests that speed or a faster one, however
\* requests, withdrawals, the player and pauses interleave; only what is
\* requested or withdrawn behind a pause request goes unheard (clock.py:476).
HouseholdSpeedIsBacked ==
    agreed /\ clockSpeed > NORMAL =>
        \A s \in Sim : speedRequests[s] # NoSpeed /\ clockSpeed <= speedRequests[s]

\* clock.py:626: "The game clock will have its speed multiplied by this
\* number": game time is server time times the multipliers in force, up to
\* one tick of rounding.
GameTimeKept == /\ gameTicks * D - exactTime <= D
                /\ exactTime - gameTicks * D <= D

\* The error a tick carries over contains the one carried into it
\* (clock.py:208-209), and is counted again.  Nothing else is lost or made up,
\* over pauses, capped ticks and changes of speed: without what was counted
\* again game time would be off by half a tick at most.
TimeOffByRecounting ==
    LET off == gameTicks * D - exactTime - recounted
    IN  2 * off <= D /\ 0 - D <= 2 * off

=============================================================================
