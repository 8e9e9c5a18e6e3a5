---------------------------- MODULE ResetService ----------------------------
(***************************************************************************)
(* The ResetAndDeleteService of a zone                                     *)
(* (simulation/services/reset_and_delete_service.py) and the               *)
(* ResettableElements that resume it (simulation/reset.py).                *)
(*                                                                         *)
(* Every object that has to be reset or destroyed gets one record; records *)
(* wait in one list per stage and a processing loop takes them through the *)
(* stages, calling back into the object at each.  Everything runs on one   *)
(* thread; what makes it hard is that                                      *)
(*   - a callback may ask for further resets, also of the object whose     *)
(*     record is being processed, while the loop is running;               *)
(*   - stopping the element on whose stack the whole call runs raises      *)
(*     HardStopError, which leaves the loop in the middle; the unwinding   *)
(*     element starts it again;                                            *)
(*   - a callback may raise, and its record is kept in the pipeline.       *)
(*                                                                         *)
(* A dict entry of _all_reset_records is `reason[o] # NONE'.               *)
(***************************************************************************)
EXTENDS Integers, Sequences, SequencesExt

CONSTANTS
    Obj,          \* objects that may be asked to reset
    Sims,         \* the Sims among them
    Parts,        \* the objects with is_part set
    Element,      \* identities of ResettableElements (reused once stopped)
    NoObj,        \* "no record is being processed"
    MaxRequests   \* bound: calls of trigger_reset / trigger_batch_reset

ASSUME ObjAssumption ==
    /\ Sims \subseteq Obj /\ Parts \subseteq Obj /\ NoObj \notin Obj
    /\ Sims \cap Parts = {}
ASSUME BoundAssumption == MaxRequests \in Nat

-----------------------------------------------------------------------------
(* ResetReason and _Stage: both enums number their members from 0. *)

NONE            == 0
RESET_EXPECTED  == 1
RESET_ON_ERROR  == 2
BEING_DESTROYED == 3
ResetReason == NONE..BEING_DESTROYED
Requests    == ResetReason \ {NONE}

PENDING              == 0
EARLY_DETACHMENT     == 1
HARD_STOP_ELEMENTS   == 2
HARD_STOP_PURGATORY  == 3
SEND_RESET_OP        == 4
INTERNAL_STATE_RESET == 5
RESTART_PURGATORY    == 6
PROCESSING_COUNT     == 7
DESTROY              == 8
RESTART              == 9
Stage          == PENDING..RESTART
ProcessedStage == 0..(PROCESSING_COUNT - 1)

\* The stages on entry to which the object or an element is called.
CallbackStage == Stage \ {PENDING, HARD_STOP_PURGATORY, RESTART_PURGATORY}

VARIABLES
    reason,          \* record.reset_reason, NONE when there is no record
    stage,           \* record.stage (PENDING when there is no record)
    elements,        \* record.elements still to be hard-stopped
    staged,          \* _staged_records
    processing,      \* _is_processing
    cursor,          \* the `for stage' loop of _process; PROCESSING_COUNT
                     \* when the loop is over and `while' is to be tested
    handling,        \* the record with is_being_processed set
    updateStage,     \* update_stage of that call of _process_one_record
    gathering,       \* inside _collect_dependencies or trigger_batch_reset
    hung,            \* inside a `while is_new' loop, which never ends
    pokedSims,       \* _master_controller_sims
    resetInProgress, \* MasterController._reset_in_progress
    inManager,       \* the objects whose id is in their manager
    scheduled,       \* Sim._scheduled_elements, registered elements of a Sim
    requests,        \* history: calls made, for MaxRequests
    handled          \* history: stages entered since the last notification

record    == <<reason, stage, elements, staged, handled>>
loop      == <<processing, cursor, handling, updateStage>>
world     == <<pokedSims, resetInProgress, inManager, scheduled>>
vars      == <<record, loop, gathering, hung, world, requests>>

-----------------------------------------------------------------------------
(* Records. *)

Registered == {o \in Obj : reason[o] # NONE}

\* Mutant: an object that has left its manager is accepted.
Mutant_AcceptsDeleted(o) == o \notin Parts

\* can_be_destroyed and the is_part test of _add_or_update_record.
Accepts(o) == o \in inManager /\ o \notin Parts

IsNew(o)       == Accepts(o) /\ reason[o] = NONE
Upgrades(o, r) == Accepts(o) /\ reason[o] # NONE /\ reason[o] < r

\* _change_record_stage(record, PENDING): out of its list, to the end of
\* the list of new requests.
MovedToPending(o) ==
    LET removed == [staged EXCEPT ![stage[o]] = RemoveFirst(@, o)]
    IN  [removed EXCEPT ![PENDING] = Append(@, o)]

\* _add_new_record, then on_reset_notification.
AddNewRecord(o, r) ==
    /\ IsNew(o)
    /\ reason'  = [reason EXCEPT ![o] = r]
    /\ stage'   = [stage EXCEPT ![o] = PENDING]
    /\ staged'  = [staged EXCEPT ![PENDING] = Append(@, o)]
    /\ handled' = [handled EXCEPT ![o] = {}]

\* Mutant: the record in the middle of its stage is staged at once.
Mutant_RestageInProcess(o) == staged' = MovedToPending(o)

\* While a record is being processed it is in no list: the running call of
\* _process_one_record restages it.
Restage(o) == staged' = IF handling = o THEN staged ELSE MovedToPending(o)

\* Mutant: a stronger reason does not start the stages again.
Mutant_UpgradeKeepsStage(o, r) ==
    /\ Upgrades(o, r)
    /\ reason' = [reason EXCEPT ![o] = r]
    /\ handled' = [handled EXCEPT ![o] = {}]
    /\ UNCHANGED <<stage, staged>>

\* A stronger reason sends the record back to PENDING.
UpgradeRecord(o, r) ==
    /\ Upgrades(o, r)
    /\ reason'  = [reason EXCEPT ![o] = r]
    /\ stage'   = [stage EXCEPT ![o] = PENDING]
    /\ Restage(o)
    /\ handled' = [handled EXCEPT ![o] = {}]

\* _add_or_update_record on an object that gets no new record.
UpdateRecord(o, r) ==
    \/ UpgradeRecord(o, r)
    \/ /\ ~IsNew(o) /\ ~Upgrades(o, r)
       /\ UNCHANGED <<reason, stage, staged, handled>>

-----------------------------------------------------------------------------
(* The interface: calls arrive while the loop is not running, or from the  *)
(* callback of the record being processed.                                 *)

CanCall ==
    /\ ~hung /\ ~gathering
    /\ processing => handling # NoObj /\ updateStage \in CallbackStage

\* start_processing up to the first test of `while self._all_reset_records'.
StartProcessing ==
    IF processing
    THEN UNCHANGED <<processing, cursor, resetInProgress>>
    ELSE /\ processing' = TRUE
         /\ cursor' = PROCESSING_COUNT
         /\ resetInProgress' = TRUE      \* master_controller.on_reset_begin

CountRequest == requests < MaxRequests /\ requests' = requests + 1

\* trigger_reset on an object without a record: the first round of
\* _collect_dependencies takes the elements registered with a Sim and goes
\* on with the dependent records.
TriggerNew(o, r) ==
    /\ CanCall /\ CountRequest
    /\ AddNewRecord(o, r)
    /\ elements'  = [elements EXCEPT ![o] = scheduled[o]]
    /\ scheduled' = [scheduled EXCEPT ![o] = {}]
    /\ gathering' = TRUE
    /\ UNCHANGED <<loop, hung, pokedSims, resetInProgress, inManager>>

\* trigger_reset on an object with a record, a part or a deleted object.
TriggerAgain(o, r) ==
    /\ CanCall /\ CountRequest
    /\ UpdateRecord(o, r)
    /\ StartProcessing
    /\ UNCHANGED <<elements, handling, updateStage, gathering, hung,
                   pokedSims, inManager, scheduled>>

\* trigger_batch_reset and trigger_batch_destroy enter their first loop.
TriggerBatch ==
    /\ CanCall /\ CountRequest
    /\ gathering' = TRUE
    /\ UNCHANGED <<record, loop, hung, world>>

\* One object of the batch, or one dependent record of the root record.
GatherKnown(o, r) ==
    /\ gathering /\ ~hung
    /\ UpdateRecord(o, r)
    /\ UNCHANGED <<elements, loop, gathering, hung, world, requests>>

\* The same for an object that has no record yet: the record is made, the
\* object notified, and `while is_new: append' does not end.
GatherNew(o, r) ==
    /\ gathering /\ ~hung
    /\ AddNewRecord(o, r)
    /\ hung' = TRUE
    /\ UNCHANGED <<elements, loop, gathering, world, requests>>

\* The gathering loop is over, or an exception in it was logged.
EndGather ==
    /\ gathering /\ ~hung
    /\ gathering' = FALSE
    /\ StartProcessing
    /\ UNCHANGED <<record, handling, updateStage, hung, pokedSims, inManager,
                   scheduled, requests>>

-----------------------------------------------------------------------------
(* The processing loop. *)

BetweenRecords == processing /\ ~hung /\ handling = NoObj

\* `while self._all_reset_records' holds: the stages are visited again.
BeginPass ==
    /\ BetweenRecords
    /\ cursor = PROCESSING_COUNT
    /\ Registered # {}
    /\ cursor' = PENDING
    /\ UNCHANGED <<record, processing, handling, updateStage, gathering, hung,
                   world, requests>>

SkipStage ==
    /\ BetweenRecords
    /\ cursor < PROCESSING_COUNT
    /\ staged[cursor] = <<>>
    /\ cursor' = cursor + 1
    /\ UNCHANGED <<record, processing, handling, updateStage, gathering, hung,
                   world, requests>>

\* Mutant: one element is stopped and the record goes on.
Mutant_OneElementOnly(o) ==
    CASE stage[o] = PENDING              -> EARLY_DETACHMENT
      [] stage[o] = EARLY_DETACHMENT     ->
             IF elements[o] # {} THEN HARD_STOP_ELEMENTS
                                 ELSE HARD_STOP_PURGATORY
      [] stage[o] = INTERNAL_STATE_RESET ->
             IF reason[o] = BEING_DESTROYED THEN DESTROY
                                            ELSE RESTART_PURGATORY
      [] stage[o] = RESTART_PURGATORY    -> RESTART
      [] OTHER                           -> stage[o] + 1

\* The first if/elif chain of _process_one_record.
NextStage(o) ==
    CASE stage[o] = PENDING              -> EARLY_DETACHMENT
      [] stage[o] \in {EARLY_DETACHMENT, HARD_STOP_ELEMENTS} ->
             IF elements[o] # {} THEN HARD_STOP_ELEMENTS
                                 ELSE HARD_STOP_PURGATORY
      [] stage[o] = HARD_STOP_PURGATORY  -> SEND_RESET_OP
      [] stage[o] = SEND_RESET_OP        -> INTERNAL_STATE_RESET
      [] stage[o] = INTERNAL_STATE_RESET ->
             IF reason[o] = BEING_DESTROYED THEN DESTROY
                                            ELSE RESTART_PURGATORY
      [] OTHER                           -> RESTART

\* _process_one_record up to the call of the stage's callback.
ProcessOneRecord ==
    /\ BetweenRecords
    /\ cursor < PROCESSING_COUNT
    /\ staged[cursor] # <<>>
    /\ LET o == Head(staged[cursor])
           s == NextStage(o)
       IN  /\ staged' = [staged EXCEPT ![cursor] = Tail(@)]
           /\ handling' = o
           /\ updateStage' = s
           /\ stage' = [stage EXCEPT ![o] = s]
           /\ handled' = [handled EXCEPT ![o] = @ \cup {s}]
           /\ IF s = HARD_STOP_ELEMENTS
              THEN \E e \in elements[o] :
                      elements' = [elements EXCEPT ![o] = @ \ {e}]
              ELSE elements' = elements
    /\ UNCHANGED <<reason, processing, cursor, gathering, hung, world, requests>>

\* The `finally' clause: a record at its last stage leaves the dict, any
\* other is put at the end of the list of the stage it is at by then.
LeaveRecord(o) ==
    /\ IF stage[o] \in {DESTROY, RESTART}
       THEN /\ reason'   = [reason EXCEPT ![o] = NONE]
            /\ stage'    = [stage EXCEPT ![o] = PENDING]
            /\ elements' = [elements EXCEPT ![o] = {}]
            /\ handled'  = [handled EXCEPT ![o] = {}]
            /\ staged'   = staged
       ELSE /\ staged' = [staged EXCEPT ![stage[o]] = Append(@, o)]
            /\ UNCHANGED <<reason, stage, elements, handled>>
    /\ handling' = NoObj
    /\ updateStage' = PENDING
    /\ cursor' = cursor + 1

InCallback == handling # NoObj /\ ~hung /\ ~gathering

\* on_reset_destroy takes the object out of its manager, unless something
\* raises on the way: IndexedManager.remove logs it and leaves the object in.
DestroyOutcome ==
    \/ inManager' = inManager
    \/ updateStage = DESTROY /\ inManager' = inManager \ {handling}

\* Mutant: whatever is restarted is left to the master controller.
Mutant_PokeAll ==
    pokedSims' = IF updateStage = RESTART THEN pokedSims \cup {handling} ELSE pokedSims

\* Only Sim.on_reset_restart returns False, which leaves the Sim to the
\* master controller.
PokeLater ==
    pokedSims' = IF updateStage = RESTART /\ handling \in Sims
                 THEN pokedSims \cup {handling} ELSE pokedSims

\* The callback returns.
CallbackReturns ==
    /\ InCallback
    /\ LeaveRecord(handling)
    /\ PokeLater
    /\ DestroyOutcome
    /\ UNCHANGED <<processing, gathering, hung, resetInProgress, scheduled,
                   requests>>

\* The callback raises; the exception is logged (`partially reset object').
CallbackRaises ==
    /\ InCallback
    /\ updateStage \in CallbackStage
    /\ LeaveRecord(handling)
    /\ DestroyOutcome
    /\ UNCHANGED <<processing, gathering, hung, pokedSims, resetInProgress,
                   scheduled, requests>>

\* Mutant: a hard stop gives the master controller up.
Mutant_HardStopReleases ==
    /\ InCallback /\ updateStage = HARD_STOP_ELEMENTS
    /\ staged' = [staged EXCEPT ![stage[handling]] = <<handling>> \o @]
    /\ handling' = NoObj /\ updateStage' = PENDING
    /\ processing' = FALSE /\ cursor' = PROCESSING_COUNT
    /\ resetInProgress' = FALSE /\ pokedSims' = {}
    /\ UNCHANGED <<reason, stage, elements, handled, gathering, hung,
                   inManager, scheduled, requests>>

\* Mutant: the record in the middle of its stage is not put back.
Mutant_HardStopDropsRecord ==
    /\ InCallback /\ updateStage = HARD_STOP_ELEMENTS
    /\ handling' = NoObj /\ updateStage' = PENDING
    /\ processing' = FALSE /\ cursor' = PROCESSING_COUNT
    /\ UNCHANGED <<record, gathering, hung, world, requests>>

\* trigger_hard_stop of the active element raises HardStopError: the record
\* goes to the FRONT of its list and the exception leaves the loop.
HardStopEscapes ==
    /\ InCallback
    /\ updateStage = HARD_STOP_ELEMENTS
    /\ staged' = [staged EXCEPT ![stage[handling]] = <<handling>> \o @]
    /\ handling' = NoObj
    /\ updateStage' = PENDING
    /\ processing' = FALSE
    /\ cursor' = PROCESSING_COUNT
    /\ UNCHANGED <<reason, stage, elements, handled, gathering, hung, world,
                   requests>>

\* No record is left: the restarted Sims are handed to the master controller.
FinishProcessing ==
    /\ BetweenRecords
    /\ cursor = PROCESSING_COUNT
    /\ Registered = {}
    /\ processing' = FALSE
    /\ pokedSims' = {}
    /\ resetInProgress' = FALSE          \* master_controller.on_reset_end
    /\ UNCHANGED <<record, cursor, handling, updateStage, gathering, hung,
                   inManager, scheduled, requests>>

-----------------------------------------------------------------------------
(* ResettableElements (reset.py) and their registration with a Sim. *)

\* Sim.schedule_element: at any time user code runs.
ScheduleElement(o, e) ==
    /\ CanCall
    /\ o \in Sims
    /\ \A p \in Obj : e \notin scheduled[p] \cup elements[p]
    /\ scheduled' = [scheduled EXCEPT ![o] = @ \cup {e}]
    /\ UNCHANGED <<record, loop, gathering, hung, pokedSims, resetInProgress,
                   inManager, requests>>

\* ResettableElement._resume: the child is done, the element unregisters.
\* The timeline runs elements only while no reset is under way.
ElementResumes(o, e) ==
    /\ CanCall /\ ~resetInProgress
    /\ e \in scheduled[o]
    /\ scheduled' = [scheduled EXCEPT ![o] = @ \ {e}]
    /\ UNCHANGED <<record, loop, gathering, hung, pokedSims, resetInProgress,
                   inManager, requests>>

\* ResettableElement._hard_stop of an element the record has already taken
\* over: the unwinding stack starts the loop again.
ResumeAfterHardStop ==
    /\ CanCall /\ ~processing /\ resetInProgress
    /\ StartProcessing
    /\ UNCHANGED <<record, handling, updateStage, gathering, hung, pokedSims,
                   inManager, scheduled, requests>>

-----------------------------------------------------------------------------
Init ==
    /\ reason   = [o \in Obj |-> NONE]
    /\ stage    = [o \in Obj |-> PENDING]
    /\ elements = [o \in Obj |-> {}]
    /\ staged   = [s \in ProcessedStage |-> <<>>]
    /\ processing = FALSE
    /\ cursor = PROCESSING_COUNT
    /\ handling = NoObj
    /\ updateStage = PENDING
    /\ gathering = FALSE
    /\ hung = FALSE
    /\ pokedSims = {}
    /\ resetInProgress = FALSE
    /\ inManager = Obj
    /\ scheduled = [o \in Obj |-> {}]
    /\ requests = 0
    /\ handled = [o \in Obj |-> {}]

Trigger == \E o \in Obj, r \in Requests : TriggerNew(o, r) \/ TriggerAgain(o, r)
Gather  == \E o \in Obj, r \in Requests : GatherKnown(o, r) \/ GatherNew(o, r)
Elements == \E o \in Obj, e \in Element : ScheduleElement(o, e) \/ ElementResumes(o, e)
CallbackEnds == CallbackReturns \/ CallbackRaises \/ HardStopEscapes
Loop == BeginPass \/ SkipStage \/ ProcessOneRecord \/ FinishProcessing

Next ==
    \/ Trigger
    \/ TriggerBatch
    \/ Gather
    \/ EndGather
    \/ Loop
    \/ CallbackEnds
    \/ Elements
    \/ ResumeAfterHardStop

\* The thread that is inside the service goes on, every callback ends, and
\* the timeline hard-stops the parent of an element that was unwound.
Fairness ==
    /\ WF_vars(Loop)
    /\ WF_vars(CallbackEnds)
    /\ WF_vars(EndGather)
    /\ WF_vars(ResumeAfterHardStop)

Spec     == Init /\ [][Next]_vars
FairSpec == Spec /\ Fairness
-----------------------------------------------------------------------------
(* Properties. *)

TypeOK ==
    /\ reason \in [Obj -> ResetReason]
    /\ stage \in [Obj -> Stage]
    /\ elements \in [Obj -> SUBSET Element]
    /\ staged \in [ProcessedStage -> Seq(Obj)]
    /\ processing \in BOOLEAN
    /\ cursor \in 0..PROCESSING_COUNT
    /\ handling \in Obj \cup {NoObj}
    /\ updateStage \in Stage
    /\ gathering \in BOOLEAN
    /\ hung \in BOOLEAN
    /\ pokedSims \subseteq Sims
    /\ resetInProgress \in BOOLEAN
    /\ inManager \subseteq Obj
    /\ scheduled \in [Obj -> SUBSET Element]
    /\ requests \in Nat
    /\ handled \in [Obj -> SUBSET Stage]

Waiting(o, s) == \E i \in DOMAIN staged[s] : staged[s][i] = o

\* No record is lost or waits twice: a record is in the list of its stage,
\* once, unless it is the one being processed, and no list holds anything
\* else -- through upgrades from callbacks, exceptions and HardStopError.
\* (_restage_record, _change_record_stage and the `finally' clause.)
RecordsStagedOnce ==
    /\ \A s \in ProcessedStage : \A i, j \in DOMAIN staged[s] :
          staged[s][i] = staged[s][j] => i = j
    /\ \A o \in Obj, s \in ProcessedStage :
          Waiting(o, s) <=> /\ reason[o] # NONE
                            /\ o # handling
                            /\ stage[o] = s

\* A Sim's state is reset, sent to the client, destroyed or restarted only
\* when every element its record took over has been told to stop.
ElementsStoppedFirst ==
    \A o \in Obj : stage[o] > HARD_STOP_ELEMENTS => elements[o] = {}

\* An object is destroyed or restarted only after it was detached, the client
\* was told and its state was reset under the reason it ends with, also when
\* the reason was raised on the way.
FullResetBeforeEnd ==
    handling # NoObj /\ stage[handling] \in {DESTROY, RESTART} =>
        {EARLY_DETACHMENT, SEND_RESET_OP, INTERNAL_STATE_RESET}
            \subseteq handled[handling]

\* The master controller stays out of the way exactly as long as a reset is
\* under way: records or Sims to restart never outlive the reset they belong
\* to, and a hard stop does not end it.
MasterControllerWaits ==
    /\ processing => resetInProgress
    /\ ~resetInProgress => pokedSims = {} /\ (Registered = {} \/ gathering \/ hung)

\* A record whose object is to be destroyed leaves the service through the
\* DESTROY stage only: such an object is never restarted.
DestroyNeverRestarts ==
    [][\A o \in Obj :
          reason[o] = BEING_DESTROYED /\ reason'[o] = NONE => stage[o] = DESTROY]_vars

\* The service implements what it promises (ResetPromise): reasons only
\* grow, only a requested destruction removes an object, for good, and the
\* master controller is released only when no record is left.
Promise == INSTANCE ResetPromise WITH
    pending <- reason, alive <- inManager, busy <- resetInProgress
KeepsPromise == Promise!PromiseSpec

\* Every record is worked off and the master controller is released again, after
\* hard stops too, unless the service is caught in an endless gathering loop.
RecordsDrain ==
    /\ \A o \in Obj : reason[o] # NONE ~> (reason[o] = NONE \/ hung)
    /\ resetInProgress ~> (~resetInProgress \/ hung)
=============================================================================
