------------------------------ MODULE SaveGame ------------------------------
(***************************************************************************)
(* Saving the game: the PersistenceService                                 *)
(* (simulation/services/persistence_service.py), the commands that ask it  *)
(* for a save (server_commands/persistence_commands.py) and the leaving    *)
(* client, which is saved before it goes (areaserver.py).                  *)
(*                                                                         *)
(* A save is a generator on a timeline of its own, run by server ticks.    *)
(* It waits in the middle for the native persistence module, and while it  *)
(* waits anything may happen: gameplay locks and unlocks saving, native    *)
(* code takes the save data for writing, and another save is requested,    *)
(* which tears the waiting one down.  The callback of the torn-down save's *)
(* operation still arrives.                                                *)
(*                                                                         *)
(* Saves are numbered in the order they are requested.                     *)
(***************************************************************************)
EXTENDS Integers, Sequences, SequencesExt

CONSTANTS
    Holder,       \* lock holders: fires, deaths, liabilities, aging dialogs
    NoHolder,     \* "the client shows saving as unlocked"
    COOLDOWN,     \* PersistenceTuning.SAVE_GAME_COOLDOWN
    MaxLocks,     \* bound: entries of _save_locks
    MaxSaves,     \* bound: saves requested
    MaxTime       \* bound: the server clock

ASSUME HolderAssumption   == NoHolder \notin Holder
ASSUME CooldownAssumption == COOLDOWN \in Nat
ASSUME SaveBounds         == MaxLocks \in Nat /\ MaxSaves \in Nat /\ MaxTime \in Nat

Save   == 1..MaxSaves
NoSave == 0

-----------------------------------------------------------------------------
(* What a save is asked for, and how it ends. *)

\* The commands: save_game passes its two flags and has no autosave slot,
\* the others send the message and do not check the cooldown.
SaveCommand ==
    [tell : BOOLEAN, check : BOOLEAN, auto : {FALSE}, leaving : {FALSE}]
      \cup [tell : {TRUE}, check : {FALSE}, auto : BOOLEAN, leaving : {FALSE}]

\* save_to_scratch_slot_gen for a client that disconnects.
Disconnect == [tell |-> FALSE, check |-> FALSE, auto |-> FALSE, leaving |-> TRUE]
Request    == SaveCommand \cup {Disconnect}

SUCCESS                   == "success"
FAILED_ON_COOLDOWN        == "on cooldown"
FAILED_EXCEPTION_OCCURRED == "exception"
FAILED_SAVE_LOCKED        == "locked"
SaveGameResult ==
    {SUCCESS, FAILED_ON_COOLDOWN, FAILED_EXCEPTION_OCCURRED, FAILED_SAVE_LOCKED}
NotEnded   == "not ended"
\* Its timeline was torn down, before or after its generator had started:
\* there is no result at all.
Superseded == "superseded"
TornDown   == "torn down"

NO_ERROR                 == "no error"
SAVE_TO_SLOT_FAILED      == "save to slot"
AUTOSAVE_TO_SLOT_FAILED  == "autosave to slot"
ErrorCodes == {NO_ERROR, SAVE_TO_SLOT_FAILED, AUTOSAVE_TO_SLOT_FAILED}

Operation == Save \X {"slot", "autosave"}
NeverSaved == 0 - 1          \* _time_of_last_save is None

VARIABLES
    saveLocks,        \* _save_locks: a holder may be in it more than once
    readWriteLocked,  \* _read_write_locked
    shown,            \* the lock of the last GameSaveLockUnlock message
    issued,           \* saves requested so far
    current,          \* the save that owns save_timeline, or NoSave
    phase,            \* where its generator is
    request,          \* what each save was asked for
    startedAt,        \* its current_time
    woken,            \* its wakeable_element has been soft-stopped
    errorCode,        \* save_error_code
    inFlight,         \* operations the persistence module has not completed
    now,              \* the server clock, in real seconds
    lastSave,         \* _time_of_last_save
    clientPresent,    \* the client is in the client manager
    result,           \* history: how each save ended
    told,             \* history: saves whose GameSaveComplete was sent
    answers           \* history: codes the disconnect callback was called with

lockVars    == <<saveLocks, readWriteLocked, shown>>
saveVars    == <<issued, current, phase, request, startedAt, woken, errorCode>>
historyVars == <<result, told, answers>>
vars == <<lockVars, saveVars, inFlight, now, lastSave, clientPresent, historyVars>>

-----------------------------------------------------------------------------
(* The locks. *)

IsSaveLocked == readWriteLocked \/ saveLocks # <<>>

LockSave(h) ==
    /\ Len(saveLocks) < MaxLocks
    /\ saveLocks' = Append(saveLocks, h)
    /\ shown' = h
    /\ UNCHANGED <<readWriteLocked, saveVars, inFlight, now, lastSave,
                   clientPresent, historyVars>>

\* No holder is left and the data is still locked for writing: looking up the
\* last holder raises IndexError, and the client is told nothing.
ShownAfterUnlock(remaining) ==
    IF remaining # <<>> THEN Last(remaining)
    ELSE IF readWriteLocked THEN shown ELSE NoHolder

\* Mutant: the client is told as if no holder were left.
Mutant_UnlockForgetsOthers(h) ==
    /\ saveLocks' = RemoveFirst(saveLocks, h)
    /\ shown' = NoHolder
    /\ UNCHANGED <<readWriteLocked, saveVars, inFlight, now, lastSave,
                   clientPresent, historyVars>>

\* A holder that holds no lock is let through; pregnancy releases early and a
\* second time when the interaction ends.
UnlockSave(h) ==
    /\ saveLocks' = RemoveFirst(saveLocks, h)
    /\ shown' = ShownAfterUnlock(RemoveFirst(saveLocks, h))
    /\ UNCHANGED <<readWriteLocked, saveVars, inFlight, now, lastSave,
                   clientPresent, historyVars>>

\* c_api_get_data_readwrite, c_api_save_data and c_api_release_data.
SetReadWriteLock(locked) ==
    /\ readWriteLocked' = locked
    /\ UNCHANGED <<saveLocks, shown, saveVars, inFlight, now, lastSave,
                   clientPresent, historyVars>>

-----------------------------------------------------------------------------
(* Requests.  save_using destroys the timeline of the save before it.  When  *)
(* that save's generator has started it is closed: its `finally' resets the  *)
(* error code, and the bare `except' of a disconnect answers the client.     *)

Started == phase \in {"writing", "autosaving"}

Answered(s, code) == [answers EXCEPT ![s] = Append(@, code)]

\* Mutant: the `finally' of a save that is torn down is not run.
Mutant_TearDownKeepsCode == UNCHANGED errorCode

CloseErrorCode == errorCode' = IF Started THEN NO_ERROR ELSE errorCode

Superseding ==
    IF current = NoSave THEN result
    ELSE [result EXCEPT ![current] = IF Started THEN TornDown ELSE Superseded]

\* Mutant: the `except' catches no GeneratorExit.
Mutant_TearDownSilent == result' = Superseding /\ UNCHANGED answers

TearDown ==
    /\ result' = Superseding
    /\ answers' = IF current # NoSave /\ Started /\ request[current].leaving
                  THEN Answered(current, "exception") ELSE answers

SaveUsing(r) ==
    /\ issued < MaxSaves
    /\ TearDown
    /\ CloseErrorCode
    /\ issued'  = issued + 1
    /\ current' = issued + 1
    /\ phase'   = "scheduled"
    /\ request' = [request EXCEPT ![issued + 1] = r]
    /\ woken'   = FALSE
    /\ UNCHANGED <<lockVars, startedAt, inFlight, now, lastSave, clientPresent, told>>

-----------------------------------------------------------------------------
(* The end of a save.  Whatever the result, _destroy_save_timeline follows.  *)

DestroySaveTimeline ==
    /\ current' = NoSave
    /\ phase'   = "none"
    /\ woken'   = FALSE
    /\ UNCHANGED <<issued, request, startedAt>>

\* The rest of request_client_disconnect_gen does not look at the save's
\* result.  Without a client, or when on_teardown of the zone raises, its
\* `except' answers.  The client manager swallows what its callbacks raise and
\* keeps the client.
Leave ==
    \E code \in {"success", "exception"} :
        /\ code = "success" => clientPresent
        /\ answers' = Answered(current, code)
        /\ clientPresent' \in {clientPresent, clientPresent /\ code = "exception"}

Report ==
    IF request[current].leaving THEN Leave /\ UNCHANGED told
    ELSE /\ told' = IF request[current].tell THEN told \cup {current} ELSE told
         /\ UNCHANGED <<clientPresent, answers>>

EndSave(code) ==
    /\ result' = [result EXCEPT ![current] = code]
    /\ Report
    /\ DestroySaveTimeline
    /\ errorCode' = NO_ERROR
    /\ UNCHANGED <<lockVars, now>>

-----------------------------------------------------------------------------
(* A server tick runs the generator until it waits or ends. *)

\* Mutant: a save exactly at the cooldown is let through.
Mutant_CooldownOffByOne(t) ==
    request[current].check /\ lastSave # NeverSaved /\ t - lastSave < COOLDOWN

OnCooldown(t) ==
    request[current].check /\ lastSave # NeverSaved /\ t - lastSave <= COOLDOWN

FailLocked ==
    /\ phase = "scheduled" /\ IsSaveLocked
    /\ EndSave(FAILED_SAVE_LOCKED)
    /\ UNCHANGED <<inFlight, lastSave>>

\* error_code_string is unbound when the `try' was not entered, so the save
\* ends in an UnboundLocalError and no message is sent.  Only save_game
\* checks the cooldown, never a client that leaves.
FailOnCooldown ==
    /\ phase = "scheduled" /\ ~IsSaveLocked /\ OnCooldown(now)
    /\ result' = [result EXCEPT ![current] = FAILED_ON_COOLDOWN]
    /\ DestroySaveTimeline
    /\ UNCHANGED <<lockVars, errorCode, inFlight, now, lastSave, clientPresent,
                   told, answers>>

\* Mutant: the time at which the next save is allowed is kept.
Mutant_TimeOfNextSave == startedAt' = now + COOLDOWN

\* The slot data, every service and the camera are collected, and the
\* operation is handed over.
TakeTime == startedAt' = now

WriteSlot ==
    /\ phase = "scheduled" /\ ~IsSaveLocked /\ ~OnCooldown(now)
    /\ TakeTime
    /\ errorCode' = SAVE_TO_SLOT_FAILED
    /\ phase'     = "writing"
    /\ inFlight'  = inFlight \cup {<<current, "slot">>}
    /\ UNCHANGED <<lockVars, issued, current, request, woken, now, lastSave,
                   clientPresent, historyVars>>

\* Collecting raised, or handing over did.
FailToStart ==
    /\ phase = "scheduled" /\ ~IsSaveLocked /\ ~OnCooldown(now)
    /\ EndSave(FAILED_EXCEPTION_OCCURRED)
    /\ UNCHANGED <<inFlight, lastSave>>

WriteAutosave ==
    /\ phase = "writing" /\ woken /\ request[current].auto
    /\ errorCode' = AUTOSAVE_TO_SLOT_FAILED
    /\ phase'     = "autosaving"
    /\ woken'     = FALSE
    /\ inFlight'  = inFlight \cup {<<current, "autosave">>}
    /\ UNCHANGED <<lockVars, issued, current, request, startedAt, now, lastSave,
                   clientPresent, historyVars>>

FailAutosave ==
    /\ phase = "writing" /\ woken /\ request[current].auto
    /\ EndSave(FAILED_EXCEPTION_OCCURRED)
    /\ UNCHANGED <<inFlight, lastSave>>

LastOperationDone ==
    woken /\ (phase = "autosaving" \/ (phase = "writing" /\ ~request[current].auto))

\* The success flag of the operation is not looked at.
Succeed ==
    /\ LastOperationDone
    /\ EndSave(SUCCESS)
    /\ lastSave' = IF request[current].check THEN startedAt ELSE lastSave
    /\ UNCHANGED inFlight

-----------------------------------------------------------------------------
(* The persistence module completes an operation and calls on_save_complete, *)
(* which soft-stops the wakeable element of the generator it was made in.    *)

\* Mutant: a completion wakes whatever save is waiting.
Mutant_CompletionWakesAny(op) ==
    /\ op \in inFlight
    /\ inFlight' = inFlight \ {op}
    /\ woken' = (woken \/ Started)
    /\ UNCHANGED <<lockVars, issued, current, phase, request, startedAt, errorCode,
                   now, lastSave, clientPresent, historyVars>>

\* Mutant: a completion wakes the element of the slot only.
Mutant_WakesFirstElement(op) ==
    /\ op \in inFlight
    /\ inFlight' = inFlight \ {op}
    /\ woken' = (woken \/ (op[1] = current /\ phase = "writing"))
    /\ UNCHANGED <<lockVars, issued, current, phase, request, startedAt, errorCode,
                   now, lastSave, clientPresent, historyVars>>

Complete(op) ==
    /\ op \in inFlight
    /\ inFlight' = inFlight \ {op}
    /\ woken' = (woken \/ (op[1] = current /\ Started))
    /\ UNCHANGED <<lockVars, issued, current, phase, request, startedAt, errorCode,
                   now, lastSave, clientPresent, historyVars>>

TickServerClock ==
    /\ now < MaxTime
    /\ now' = now + 1
    /\ UNCHANGED <<lockVars, saveVars, inFlight, lastSave, clientPresent, historyVars>>

-----------------------------------------------------------------------------
Init ==
    /\ saveLocks = <<>> /\ readWriteLocked = FALSE /\ shown = NoHolder
    /\ issued = 0 /\ current = NoSave /\ phase = "none" /\ request = [s \in Save |-> Disconnect]
    /\ startedAt = 0 /\ woken = FALSE /\ errorCode = NO_ERROR
    /\ inFlight = {} /\ now = 0 /\ lastSave = NeverSaved /\ clientPresent = TRUE
    /\ result = [s \in Save |-> NotEnded] /\ told = {}
    /\ answers = [s \in Save |-> <<>>]

RunSave == FailLocked \/ FailOnCooldown \/ WriteSlot \/ FailToStart
             \/ WriteAutosave \/ FailAutosave \/ Succeed

Next ==
    \/ \E h \in Holder : LockSave(h) \/ UnlockSave(h)
    \/ \E locked \in BOOLEAN : SetReadWriteLock(locked)
    \/ \E r \in Request : SaveUsing(r)
    \/ RunSave
    \/ \E op \in Operation : Complete(op)
    \/ TickServerClock

Spec == Init /\ [][Next]_vars

\* While save_timeline is set every server tick simulates it, and the
\* persistence module completes what it was given.
LiveSpec == Spec /\ WF_vars(RunSave) /\ WF_vars(\E op \in Operation : Complete(op))

-----------------------------------------------------------------------------
(* Properties. *)

\* Every variable has its type.
TypeOK ==
    /\ saveLocks \in Seq(Holder) /\ readWriteLocked \in BOOLEAN
    /\ shown \in Holder \cup {NoHolder}
    /\ issued \in 0..MaxSaves /\ current \in Save \cup {NoSave}
    /\ phase \in {"none", "scheduled", "writing", "autosaving"}
    /\ request \in [Save -> Request] /\ woken \in BOOLEAN /\ errorCode \in ErrorCodes
    /\ now \in Nat /\ startedAt \in 0..now /\ lastSave \in NeverSaved..now
    /\ inFlight \subseteq Operation /\ clientPresent \in BOOLEAN
    /\ result \in [Save -> SaveGameResult \cup {NotEnded, Superseded, TornDown}]
    /\ told \subseteq Save
    /\ answers \in [Save -> Seq({"success", "exception"})]

\* The client shows saving as possible only when no holder forbids it, however
\* holders overlap, repeat, or release what they do not hold.
ShownUnlockedIsUnlocked == shown = NoHolder => saveLocks = <<>>

\* save_error_code names the operation that is being waited for, and nothing
\* is left in it by a save that failed, ended or was torn down: the next
\* failure would be reported under a foreign code.
ErrorCodeIsCurrent ==
    /\ errorCode = SAVE_TO_SLOT_FAILED     <=> phase = "writing"
    /\ errorCode = AUTOSAVE_TO_SLOT_FAILED <=> phase = "autosaving"

\* Two saves that check the cooldown never start closer than the cooldown,
\* though the time of a save is recorded only when it has been written.
CooldownKept ==
    [][lastSave' # lastSave /\ lastSave # NeverSaved => lastSave' - lastSave > COOLDOWN]_vars

\* A save is a success only once all of its own operations were completed,
\* also when an operation of a torn-down save completes in between.
SuccessIsWritten ==
    \A s \in Save : result[s] = SUCCESS =>
        \A kind \in {"slot", "autosave"} : <<s, kind>> \notin inFlight

\* Whoever waits for an answer gets it, and that of its own save: a
\* disconnecting client exactly once when its save has ended or was torn down
\* in the middle, and a client that left the client manager was told of its
\* success; a save that was asked to report is reported unless its timeline was
\* torn down or it ended on cooldown.
EveryoneAnswered ==
    /\ \A s \in Save : Len(answers[s]) =
           IF request[s].leaving /\ result[s] \notin {NotEnded, Superseded} THEN 1 ELSE 0
    /\ clientPresent \/ \E s \in Save : answers[s] = <<"success">>
    /\ told = {s \in Save : /\ request[s].tell
                            /\ result[s] \in SaveGameResult \ {FAILED_ON_COOLDOWN}}

\* While a save's timeline exists the zone is not updated, so gameplay stands
\* still: every save ends and gives the zone back.
SimulationResumes == current # NoSave ~> current = NoSave

=============================================================================
