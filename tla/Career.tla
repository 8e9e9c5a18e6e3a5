-------------------------------- MODULE Career --------------------------------
(***************************************************************************)
(* The careers of a Sim of the player: simulation/careers/career_base.py,  *)
(* career_tracker.py and CareerSuperInteraction of career_interactions.py, *)
(* with the Sim's away action (away_actions/away_action_tracker.py), which *)
(* at work is a tone, and the weekly schedule of scheduler.py.             *)
(*                                                                         *)
(* The handlers call each other in the middle of what they do, so each is  *)
(* an operator from the state of the Sim to the state it leaves.           *)
(***************************************************************************)
EXTENDS WeeklySchedule

CONSTANTS
    Career,          \* the careers there are, one instance of each at a time
    NONE,
    Shift,           \* the set of entries of each career's work schedule
    LateAfter,       \* from the start of a shift until one is late
    JobStartDelay,   \* JOB_START_DELAY
    CanBeFired,      \* the careers with can_be_fired
    Track,
    StartTrack,      \* the first track of a career
    Levels,          \* how many levels a track has
    Branches,        \* the tracks to choose from at the end of a track
    Default,         \* what get_default_away_action can find, NONE or "default"
    MaxOvertime,     \* bound: ticks a work interaction outlasts its shift
    MaxListeners,    \* bound: registrations past which no level is picked
    MaxAstray,       \* bound: commands to leave work while the Sim has not come
    MaxLoads         \* bound: how often the zone is left and loaded

ASSUME CareerAssumption ==
    /\ NONE \notin Career \cup Track \cup Nat
    /\ NONE \notin [start : TimeOfWeek, end : TimeOfWeek, age : Nat]
    /\ NONE \notin [track : Track, level : Nat]
    /\ Shift \in [Career -> (SUBSET Entry) \ {{}}]
    /\ LateAfter \in [Career -> 1 .. Week]
    /\ JobStartDelay \in Nat
    /\ CanBeFired \subseteq Career
    /\ StartTrack \in [Career -> Track]
    /\ Levels \in [Track -> Nat \ {0}]
    /\ Branches \in [Track -> SUBSET Track]
    /\ Default \subseteq {"default", NONE} /\ Default # {}
    /\ {MaxOvertime, MaxListeners, MaxAstray, MaxLoads} \subseteq Nat

VARIABLE sim         \* see SimState

-----------------------------------------------------------------------------
(* State                                                                   *)

\* A work session: _current_work_start, _current_work_end, and the ticks since
\* the start, up to a week, which is what late_time is compared with.
Session == [start : TimeOfWeek, end : TimeOfWeek, age : 0 .. Week]

\* Ticks until an alarm goes off; 0 when it is due.
Alarm == {NONE} \cup 0 .. Week + 1

\* What a CareerBase keeps. delay counts down to get_valid_first_work_day_time,
\* -1 once it has passed; listeners counts the registrations of _on_tone_started.
\* History, since the last shift began: pays are the payments, astray the commands
\* to leave work that came while the Sim had not; untimed says that the alarm at
\* the end of the session was dropped while the session is open.
JobState ==
    [ track : Track, level : Nat, pending : BOOLEAN, offered : SUBSET Track,
      delay : -1 .. JobStartDelay, session : Session \cup {NONE},
      attended : BOOLEAN, sick : BOOLEAN, interaction : BOOLEAN,
      workAlarm : Alarm, endAlarm : Alarm, lateAlarm : Alarm,
      listeners : Nat, pays : Nat, astray : Nat, untimed : BOOLEAN ]

\* The player is asked to give up a career, or retirement, for a new career.
Dialog == [kind : {"switch", "unretire"}, career : Career]

\* away is the action the AwayActionTracker runs: a tone of a career, some other
\* action, or none. work is the interaction that takes the Sim to the career.
SimState ==
    [ now : TimeOfWeek, instanced : BOOLEAN, loading : BOOLEAN, loads : 0 .. MaxLoads,
      joined : SUBSET Career, job : [Career -> JobState],
      history : [Career -> [track : Track, level : Nat] \cup {NONE}],
      retired : Career \cup {NONE}, dialogs : SUBSET Dialog,
      away : Career \cup {"default", NONE},
      work : [Career -> {"no", "queued", "running"}] ]

NewJob(track, level) ==
    [ track |-> track, level |-> level, pending |-> FALSE, offered |-> {},
      delay |-> JobStartDelay, session |-> NONE,
      attended |-> FALSE, sick |-> FALSE, interaction |-> FALSE,
      workAlarm |-> NONE, endAlarm |-> NONE, lateAlarm |-> NONE,
      listeners |-> 0, pays |-> 0, astray |-> 0, untimed |-> FALSE ]

NoJob(c) == [NewJob(StartTrack[c], 0) EXCEPT !.delay = -1]

Init ==
    sim = [ now |-> 0, instanced |-> TRUE, loading |-> FALSE, loads |-> 0,
            joined |-> {}, job |-> [c \in Career |-> NoJob(c)],
            history |-> [c \in Career |-> NONE],
            retired |-> NONE, dialogs |-> {}, away |-> NONE,
            work |-> [c \in Career |-> "no"] ]

-----------------------------------------------------------------------------
(* The times of a session                                                  *)

\* is_work_time
IsWorkTime(s, c) ==
    /\ s.job[c].session # NONE
    /\ Between(s.now, s.job[c].session.start, s.job[c].session.end)

\* career_currently_within_hours
WithinHours(s) == {c \in s.joined : IsWorkTime(s, c)}

\* Mutant: the alarms are only for who has not come.
Mutant_AlarmsOfAbsentees(s, c) ==
    IF s.job[c].attended THEN s
    ELSE [s EXCEPT !.job[c].endAlarm = TicksTo(s.now, s.job[c].session.end) + 1]

\* _create_work_session_alarms; both alarms are one tick after the time they are for.
WithSessionAlarms(s, c) ==
    LET job == s.job[c]
    IN  [s EXCEPT !.job[c] =
          [@ EXCEPT !.endAlarm = TicksTo(s.now, job.session.end) + 1,
                    !.lateAlarm = IF ~job.attended /\ job.session.age < LateAfter[c]
                                  THEN LateAfter[c] - job.session.age + 1
                                  ELSE job.lateAlarm]]

\* start_new_career_session
StartSession(s, c, end) ==
    WithSessionAlarms(
        [s EXCEPT !.job[c] =
            [@ EXCEPT !.session = [start |-> s.now, end |-> end % Week, age |-> 0],
                      !.attended = FALSE, !.pays = 0, !.astray = 0,
                      !.untimed = FALSE]], c)

\* end_career_session
EndSession(s, c) ==
    [s EXCEPT !.job[c] = [@ EXCEPT !.endAlarm = NONE, !.lateAlarm = NONE,
                                   !.interaction = FALSE, !.session = NONE,
                                   !.attended = FALSE, !.untimed = FALSE]]

-----------------------------------------------------------------------------
(* Tones. A Sim at work runs a tone of the career as its away action.      *)

\* start_tones: create_and_apply_away_action stops what ran before.
StartTones(s, c) == [s EXCEPT !.job[c].listeners = @ + 1, !.away = c]

\* reset_to_default_away_action; default is what get_default_away_action finds,
\* which depends on the commodities of the Sim.
ResetAway(s, default) == [s EXCEPT !.away = default]

\* end_tones up to where a callback that is not registered makes it raise
EndTones(s, c, default) ==
    [ResetAway(s, default) EXCEPT !.job[c].listeners = IF @ > 0 THEN @ - 1 ELSE 0]

-----------------------------------------------------------------------------
(* Levels                                                                  *)

\* career_stop; it leaves an open session without alarms.
CareerStop(s, c) ==
    [s EXCEPT !.job[c] = [@ EXCEPT !.workAlarm = NONE, !.endAlarm = NONE, !.lateAlarm = NONE,
                                   !.untimed = s.job[c].session # NONE]]

\* career_start of a career that is not being loaded
CareerStart(s, c) == [s EXCEPT !.job[c].workAlarm = NextAlarm(s.now, Shift[c], FALSE)]

\* update_history: what a career resumes from
UpdateHistory(s, c) ==
    [s EXCEPT !.history[c] = [track |-> s.job[c].track, level |-> s.job[c].level]]

\* The part _change_level and set_new_career_track share.
Restart(s, c, track, level) ==
    LET stopped == CareerStop(s, c)
    IN  CareerStart(UpdateHistory([stopped EXCEPT !.job[c] = [@ EXCEPT !.track = track,
                                                                       !.level = level]], c), c)

\* Mutant: a level too many.
Mutant_PastTheTop(s, c) ==
    IF s.job[c].level < Levels[s.job[c].track]
    THEN Restart(s, c, s.job[c].track, s.job[c].level + 1) ELSE s

\* promote, without a promotion_buff. _handle_promotion notes that a promotion is
\* pending and forgets it when the level has changed; past the last level the
\* player is asked for a branch.
Promote(s, c) ==
    LET job == s.job[c]
    IN  IF job.level + 1 < Levels[job.track]
        THEN [Restart(s, c, job.track, job.level + 1) EXCEPT !.job[c].pending = FALSE]
        ELSE [s EXCEPT !.job[c] = [@ EXCEPT !.pending = TRUE,
                                            !.offered = job.offered \cup Branches[job.track]]]

\* set_new_career_track
SetTrack(s, c, track) ==
    IF track \in Branches[s.job[c].track]
    THEN [Restart(s, c, track, 0) EXCEPT !.job[c].pending = FALSE]
    ELSE [s EXCEPT !.job[c].pending = TRUE]

\* remove_career: career_stop, quit_career, career_leave. The tone stays, and so
\* does what the instance registered, which no other instance can unregister.
RemoveCareer(s, c) ==
    LET left == UpdateHistory(CareerStop(s, c), c)
    IN  [left EXCEPT !.joined = @ \ {c}, !.job[c] = NoJob(c)]

RemoveCareers(s, careers) ==
    LET left == [c \in careers |-> RemoveCareer(s, c)]
    IN  [s EXCEPT !.joined = @ \ careers,
                  !.job = [c \in Career |-> IF c \in careers THEN left[c].job[c] ELSE @[c]],
                  !.history = [c \in Career |->
                                 IF c \in careers THEN left[c].history[c] ELSE @[c]]]

\* demote, when chance has it
Demote(s, c, autoFire) ==
    LET level == s.job[c].level
    IN  IF c \in CanBeFired /\ (autoFire \/ level = 0) THEN RemoveCareer(s, c)
        ELSE IF level > 0 THEN Restart(s, c, s.job[c].track, level - 1)
        ELSE s

-----------------------------------------------------------------------------
(* Going to work and leaving it                                            *)

\* Mutant: who has come is still told to be late.
Mutant_StaysLate(s, c, interaction) ==
    StartTones([s EXCEPT !.job[c].attended = TRUE, !.job[c].interaction = @ \/ interaction], c)

\* attend_work
Attend(s, c, interaction) ==
    LET t == IF interaction THEN [s EXCEPT !.job[c].interaction = TRUE] ELSE s
    IN  IF t.job[c].attended THEN t
        ELSE StartTones([t EXCEPT !.job[c] = [@ EXCEPT !.attended = TRUE,
                                                       !.lateAlarm = NONE]], c)

\* push_go_to_work_affordance: the interaction is tested when it is pushed.
PushGoToWork(s, c) ==
    IF s.instanced /\ s.work[c] = "no" /\ IsWorkTime(s, c)
    THEN [s EXCEPT !.work[c] = "queued"] ELSE s

\* handle_career_loot and collect_rewards: the shift is paid, then performance
\* and chance decide (evaluate_career_performance).
Verdict == {"stay", "promote", "demote", "fire"}
CareerLoot(s, c, verdict) ==
    LET paid == [s EXCEPT !.job[c].pays = @ + 1]
    IN  CASE verdict = "stay"    -> paid
          [] verdict = "promote" -> Promote(paid, c)
          [] verdict = "demote"  -> Demote(paid, c, FALSE)
          [] verdict = "fire"    -> Demote(paid, c, TRUE)

\* Mutant: who leaves is paid and may leave again.
Mutant_OnlyPays(s, c, verdict, default) ==
    IF s.job[c].session = NONE THEN s ELSE CareerLoot(s, c, verdict)

\* leave_work. Without a session collect_rewards raises before anything has
\* changed; without tones end_tones raises before the session has been ended.
LeaveWork(s, c, verdict, default) ==
    LET paid == CareerLoot(s, c, verdict)
        left == EndTones(paid, c, default)
    IN  IF s.job[c].session = NONE THEN s
        ELSE IF s.job[c].listeners = 0 THEN left
        ELSE EndSession(left, c)

\* should_skip_next_shift, at the start of a shift
SkipsShift(s, c) == s.job[c].sick \/ s.job[c].delay >= 0

\* _start_work_callback
StartWork(s, c, entry) ==
    IF SkipsShift(s, c) THEN [s EXCEPT !.job[c].sick = FALSE]
    ELSE LET begun == StartSession(s, c, entry.end)
         IN  IF s.instanced THEN PushGoToWork(begun, c) ELSE Attend(begun, c, FALSE)

\* Whether _interaction refers to an interaction that is still there
InteractionAlive(s, c) == s.job[c].interaction /\ s.work[c] = "running"

\* _end_work_callback
EndWork(s, c, verdict, default) ==
    IF InteractionAlive(s, c) THEN s
    ELSE IF s.job[c].attended THEN LeaveWork(s, c, verdict, default)
    ELSE EndSession(CareerLoot(s, c, verdict), c)

-----------------------------------------------------------------------------
(* The player and the scripts                                              *)

\* join_career at get_career_entry_level: a Sim who comes back has lost some of
\* the levels of the career, or none, on the track where it left.
Join(s, c, level) ==
    LET track == IF s.history[c] = NONE THEN StartTrack[c] ELSE s.history[c].track
    IN  CareerStart([s EXCEPT !.joined = @ \cup {c}, !.job[c] = NewJob(track, level)], c)

EntryLevels(s, c) == IF s.history[c] = NONE THEN {0} ELSE 0 .. s.history[c].level

\* Mutant: an accepted dialog is not asked about retirement.
Mutant_AsksOnlyOnce(s, c, level, show) ==
    IF show /\ (s.retired # NONE \/ s.joined # {})
    THEN [s EXCEPT !.dialogs = @ \cup {[kind |-> "switch", career |-> c]}]
    ELSE Join(s, c, level)

\* add_career; every career is taken to be one that can be quit.
AddCareer(s, c, level, show) ==
    IF s.retired # NONE
    THEN [s EXCEPT !.dialogs = @ \cup {[kind |-> "unretire", career |-> c]}]
    ELSE IF show /\ s.joined # {}
    THEN [s EXCEPT !.dialogs = @ \cup {[kind |-> "switch", career |-> c]}]
    ELSE Join(s, c, level)

\* careers.select with JOIN_CAREER: the career is new, or its track is.
Select(c) ==
    /\ ~sim.loading /\ c \notin sim.joined
    /\ \E level \in EntryLevels(sim, c) : sim' = AddCareer(sim, c, level, TRUE)

BranchChosen(c, track) ==
    /\ ~sim.loading /\ c \in sim.joined /\ track \in sim.job[c].offered
    /\ sim.job[c].listeners <= MaxListeners
    /\ sim' = [SetTrack(sim, c, track) EXCEPT !.job[c].offered = {}]

\* _on_confirmation_dialog_response
Accept(dialog) ==
    LET quit == RemoveCareers([sim EXCEPT !.dialogs = @ \ {dialog}], sim.joined)
    IN  /\ ~sim.loading /\ dialog \in sim.dialogs
        /\ \E level \in EntryLevels(quit, dialog.career) :
              sim' = AddCareer(quit, dialog.career, level, FALSE)

Decline(dialog) ==
    /\ dialog \in sim.dialogs
    /\ sim' = [sim EXCEPT !.dialogs = @ \ {dialog}]

\* careers.select with QUIT_CAREER
Quit(c) ==
    /\ ~sim.loading /\ c \in sim.joined
    /\ sim' = RemoveCareer(sim, c)

\* retire_career
Retire(c) ==
    /\ ~sim.loading /\ c \in sim.joined
    /\ sim' = [RemoveCareers(sim, sim.joined) EXCEPT !.retired = c]

\* call_in_sick, for every career
CallInSick ==
    /\ ~sim.loading /\ \E c \in sim.joined : ~sim.job[c].sick
    /\ sim' = [sim EXCEPT !.job = [c \in Career |->
                              [sim.job[c] EXCEPT !.sick = sim.job[c].sick \/ c \in sim.joined]]]

\* CareerPromoteSuperInteraction
PickedLevel(c) ==
    /\ ~sim.loading /\ c \in sim.joined /\ sim.job[c].listeners <= MaxListeners
    /\ sim' = Promote(sim, c) \/ sim' = Demote(sim, c, FALSE)
    /\ sim' # sim

\* careers.send_to_work
GoToWork(c) ==
    /\ ~sim.loading /\ c \in sim.joined
    /\ sim' = PushGoToWork(sim, c)
    /\ sim' # sim

\* leave_work_early. An interaction that is there is cancelled by it, and leaves in
\* InteractionEnds. CareerLeaveWorkEarlyInteraction asks for a Sim who is at work,
\* the command careers.leave_work only for one that is there.
LeaveEarly(c) ==
    LET job == sim.job[c]
        asked == IF job.session # NONE /\ ~job.attended
                 THEN [sim EXCEPT !.job[c].astray = @ + 1] ELSE sim
    IN  /\ ~sim.loading /\ c \in sim.joined /\ ~InteractionAlive(sim, c)
        /\ job.attended \/ (sim.instanced /\ job.astray < MaxAstray)
        /\ \E verdict \in Verdict, default \in Default :
              sim' = LeaveWork(asked, c, verdict, default)

-----------------------------------------------------------------------------
(* CareerSuperInteraction                                                  *)

\* _test; without the career it was pushed for, that of any career whose time it is
MayWork(c) == IF c \in sim.joined THEN IsWorkTime(sim, c) ELSE WithinHours(sim) # {}

\* interaction_start
InteractionStarts(c) ==
    LET begun == [sim EXCEPT !.work[c] = "running"]
    IN  /\ ~sim.loading /\ sim.work[c] = "queued" /\ MayWork(c)
        /\ \A d \in Career : sim.work[d] # "running"
        /\ sim' = IF c \in sim.joined THEN Attend(begun, c, TRUE) ELSE begun

\* The interaction is refused or cancelled before it runs.
InteractionDropped(c) ==
    /\ ~sim.loading /\ sim.work[c] = "queued"
    /\ sim' = [sim EXCEPT !.work[c] = "no"]

\* interaction_end
InteractionEnds(c) ==
    LET ended == [sim EXCEPT !.work[c] = "no"]
    IN  /\ ~sim.loading /\ sim.work[c] = "running"
        /\ \/ /\ c \in sim.joined
              /\ \E verdict \in Verdict, default \in Default :
                    sim' = LeaveWork(ended, c, verdict, default)
           \/ /\ c \notin sim.joined
              /\ sim' = ended

-----------------------------------------------------------------------------
(* Away actions                                                            *)

\* The player chooses a tone for a Sim at work.
ToneChosen(c) ==
    /\ ~sim.loading /\ sim.job[c].attended /\ sim.away # c
    /\ sim' = [sim EXCEPT !.away = c]

\* _away_action_exit_condition_callback
AwayActionExits ==
    /\ ~sim.loading /\ sim.away # NONE
    /\ \E default \in Default \ {sim.away} : sim' = ResetAway(sim, default)

\* _attend_career: what the Sim attends is the work whose hours it is.
TakenToWork(s) ==
    IF WithinHours(s) = {} THEN {s} ELSE {Attend(s, c, FALSE) : c \in WithinHours(s)}

\* The interaction that travels home and to work is what the Sim runs.
Travels ==
    /\ ~sim.loading /\ sim.instanced
    /\ \A c \in Career : sim.work[c] # "running"

\* inject_into_inactive_zone: the away action starts unless one is there.
Injected(default) == [sim EXCEPT !.away = IF @ = NONE THEN default ELSE @]

\* _travel_sim with is_attend_career: the Sim goes alone.
TravelToWork ==
    /\ Travels
    /\ \E default \in Default :
          sim' \in TakenToWork([Injected(default) EXCEPT !.instanced = FALSE,
                                                         !.work = [c \in Career |-> "no"]])

\* _travel_sim without another Sim to select: the Sim stays.
TravelGivenUp ==
    /\ Travels
    /\ \E default \in Default : sim' = Injected(default)

\* travel_player: the player goes with the Sim, who is still there until the zone is left.
TravelAlong ==
    /\ Travels
    /\ sim' \in TakenToWork([sim EXCEPT !.work = [c \in Career |-> "no"]])

\* _on_add of the Sim: refresh stops the away action.
SimReturns ==
    /\ ~sim.loading /\ ~sim.instanced
    /\ sim' = [sim EXCEPT !.instanced = TRUE, !.away = NONE]

-----------------------------------------------------------------------------
(* Leaving the zone and loading it                                         *)

\* save, load and career_start of what was loaded
LoadedJob(s, c) ==
    LET old == s.job[c]
        new == [old EXCEPT !.interaction = FALSE, !.endAlarm = NONE, !.lateAlarm = NONE,
                           !.offered = {},
                           !.workAlarm = NextAlarm(s.now, Shift[c], FALSE),
                           !.listeners = IF old.attended THEN 1 ELSE 0,
                           !.untimed = old.session # NONE /\ ~IsWorkTime(s, c)]
    IN  IF IsWorkTime(s, c) THEN WithSessionAlarms([s EXCEPT !.job[c] = new], c).job[c]
        ELSE new

\* AwayActionTracker.start in the spin-up of the zone
LoadedAway(s) ==
    IF s.instanced THEN {s.away, NONE}
    ELSE IF s.away # NONE THEN {s.away} ELSE Default

\* The careers of the Sim are saved and loaded, and CareerService takes a Sim who
\* is at work there again, or sends it home.
ReloadZone ==
    \E away \in LoadedAway(sim) :
      LET loaded == [sim EXCEPT
                       !.loading = TRUE, !.loads = @ + 1, !.dialogs = {}, !.away = away,
                       !.work = [c \in Career |-> "no"],
                       !.job = [c \in Career |->
                                  IF c \in sim.joined THEN LoadedJob(sim, c) ELSE @[c]]]
          atWork == {c \in sim.joined : sim.instanced /\ sim.job[c].attended}
      IN  /\ ~sim.loading /\ sim.loads < MaxLoads
          /\ \/ /\ atWork = {} /\ sim' = loaded
             \/ \E c \in atWork : sim' = PushGoToWork(loaded, c)
             \/ \E c \in atWork, verdict \in Verdict, default \in Default :
                  sim' = LeaveWork(loaded, c, verdict, default)

\* on_loading_screen_animation_finished
LoadingFinished ==
    LET granted == [c \in sim.joined |->
                      IF sim.job[c].pending THEN Promote(sim, c) ELSE sim]
    IN  /\ sim.loading
        /\ sim' = [sim EXCEPT
                     !.loading = FALSE,
                     !.job = [c \in Career |-> IF c \in sim.joined THEN granted[c].job[c]
                                               ELSE @[c]],
                     !.history = [c \in Career |-> IF c \in sim.joined
                                                   THEN granted[c].history[c] ELSE @[c]]]

-----------------------------------------------------------------------------
(* Time                                                                    *)

Alarms(job) == {job.workAlarm, job.endAlarm, job.lateAlarm}

Elapse(alarm) == IF alarm = NONE THEN NONE ELSE alarm - 1

Older(job) ==
    [job EXCEPT !.workAlarm = Elapse(@), !.endAlarm = Elapse(@), !.lateAlarm = Elapse(@),
                !.delay = IF @ >= 0 THEN @ - 1 ELSE @,
                !.session = IF @ = NONE THEN NONE
                            ELSE [@ EXCEPT !.age = IF job.session.age < Week
                                                   THEN job.session.age + 1 ELSE Week]]

\* A work interaction ends before it is MaxOvertime ticks over its time, and does
\* not go on without a session.
InTime(c) ==
    LET session == sim.job[c].session
    IN  sim.work[c] = "running" =>
            /\ session # NONE
            /\ session.age < TicksTo(session.start, session.end) + MaxOvertime

\* Time does not pass an alarm that is due.
Tick ==
    /\ ~sim.loading
    /\ \A c \in Career : 0 \notin Alarms(sim.job[c]) /\ InTime(c)
    /\ sim' = [sim EXCEPT !.now = (@ + 1) % Week,
                          !.job = [c \in Career |-> Older(@[c])]]

\* _alarm_callback of the schedule
WorkAlarm(c) ==
    /\ ~sim.loading /\ sim.job[c].workAlarm = 0
    /\ \E entry \in Beginning(sim.now, Shift[c]) :
          sim' = CareerStart(StartWork(sim, c, entry), c)

EndAlarm(c) ==
    /\ ~sim.loading /\ sim.job[c].endAlarm = 0
    /\ \E verdict \in Verdict, default \in Default :
          sim' = EndWork([sim EXCEPT !.job[c].endAlarm = NONE], c, verdict, default)

\* _late_for_work_callback tells the player.
LateAlarm(c) ==
    /\ ~sim.loading /\ sim.job[c].lateAlarm = 0
    /\ sim' = [sim EXCEPT !.job[c].lateAlarm = NONE]

-----------------------------------------------------------------------------
Player(c) ==
    \/ Select(c) \/ (\E track \in Track : BranchChosen(c, track))
    \/ Quit(c) \/ Retire(c) \/ PickedLevel(c)
    \/ GoToWork(c) \/ LeaveEarly(c) \/ ToneChosen(c)

Work(c) ==
    \/ InteractionStarts(c) \/ InteractionDropped(c) \/ InteractionEnds(c)
    \/ WorkAlarm(c) \/ EndAlarm(c) \/ LateAlarm(c)

Next ==
    \/ \E c \in Career : Player(c) \/ Work(c)
    \/ \E dialog \in sim.dialogs : Accept(dialog) \/ Decline(dialog)
    \/ CallInSick \/ AwayActionExits
    \/ TravelToWork \/ TravelGivenUp \/ TravelAlong \/ SimReturns \/ ReloadZone \/ LoadingFinished
    \/ Tick

Spec == Init /\ [][Next]_sim

\* What happens without the player and before time passes.
Due == \/ LoadingFinished
       \/ \E c \in Career : WorkAlarm(c) \/ EndAlarm(c) \/ LateAlarm(c) \/ InteractionEnds(c)

\* The simulation goes on: time passes, what is due happens, interactions end.
Fairness == WF_sim(Tick) /\ WF_sim(Due)

FairSpec == Spec /\ Fairness

-----------------------------------------------------------------------------
(* Properties                                                              *)

\* What is stored is what can be stored; a Sim is at a level its track has, in
\* the career and in what is remembered of it (career_base.py:678, 735).
TypeOK ==
    /\ sim \in SimState
    /\ \A c \in Career :
          /\ sim.job[c].level < Levels[sim.job[c].track]
          /\ sim.history[c] # NONE => sim.history[c].level < Levels[sim.history[c].track]

\* Whichever of the alarm of its end, the end of the interaction, the player and a
\* reload is first, a shift is paid once, at its end (leave_work and
\* _end_work_callback both pay), but for one payment in advance for every command
\* to leave that comes before the Sim has (career_commands.py:99).
PaidOncePerShift ==
    \A c \in Career : LET job == sim.job[c] IN
        /\ job.pays <= job.astray + 1
        /\ job.session # NONE => job.pays = job.astray

\* What the tuning says of work that is missed: "Penalty that is applied to your
\* work day performance if you don't attend a full day of work", for a day of work
\* one (career_tuning.py:208). The code violates it: collect_rewards (career_base.py:837)
\* takes the penalty and pays each time leave_work fails for a Sim that has not come.
MissedDayCountsOnce == \A c \in Career : sim.job[c].pays <= 1

\* A Sim at work has a session and its tones are registered, so that leave_work,
\* which pays first, does not raise before it has ended the session; and an open
\* session whose alarm nothing has dropped is ended by it, one tick after its
\* end, or by the interaction the alarm found.
SessionWillEnd ==
    \A c \in Career : LET job == sim.job[c] IN
        /\ job.attended => job.session # NONE /\ job.listeners > 0
        /\ job.session = NONE => job.endAlarm = NONE
        /\ job.lateAlarm # NONE => job.session # NONE /\ ~job.attended
        /\ job.session # NONE /\ ~job.untimed =>
              \/ job.endAlarm # NONE /\ job.endAlarm = TicksTo(sim.now, job.session.end) + 1
              \/ job.endAlarm = 0
              \/ InteractionAlive(sim, c)

\* A retired Sim has no career, whatever dialog it answers late, and the career
\* it draws its pension from is remembered (retirement.py:64 looks it up).
RetiredHasNoCareer ==
    sim.retired # NONE => sim.joined = {} /\ sim.history[sim.retired] # NONE

\* A Sim whose session has its alarm does not stay at work.
AtWorkEnds ==
    \A c \in Career : sim.job[c].attended ~> ~sim.job[c].attended \/ sim.job[c].untimed
=============================================================================
