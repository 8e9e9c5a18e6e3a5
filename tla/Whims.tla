-------------------------------- MODULE Whims --------------------------------
(***************************************************************************)
(* The whims of a played Sim (simulation/whims/whims_tracker.py) and the   *)
(* milestones that trigger them (aspirations/aspirations.py).              *)
(*                                                                         *)
(* Whims are offered from whim sets. Completing a set's milestone makes    *)
(* the set active until its timer expires; completing a whim makes the     *)
(* connected sets active; a set that is deactivated cools down, and when   *)
(* it has cooled its milestone is reset, so that it can be triggered       *)
(* again. A set has one alarm, for whichever of the two it waits. Each set *)
(* has one whim on offer at most, so that a whim goes by the name of its   *)
(* set. How long alarms take is left open.                                 *)
(***************************************************************************)
EXTENDS Integers, FiniteSets

CONSTANTS
    WhimSet, Mood, NONE,
    Emotion,        \* whimset_emotion, or NONE
    Connected,      \* connected_whim_sets
    Uncooled,       \* those whose cooldown_timer is 0
    Retested,       \* those with a timeout_retest
    Always,         \* those with a base_priority
    MAX_GOALS,
    MaxDelayed      \* bound: on offers that are delayed at a time

ASSUME WhimAssumption ==
    /\ NONE \notin WhimSet \cup Mood
    /\ Emotion \in [WhimSet -> Mood \cup {NONE}]
    /\ Connected \in [WhimSet -> SUBSET WhimSet]
    /\ Uncooled \subseteq WhimSet /\ Retested \subseteq WhimSet /\ Always \subseteq WhimSet
    /\ MAX_GOALS \in Nat /\ MaxDelayed \in Nat

Emotional == {w \in WhimSet : Emotion[w] # NONE}

VARIABLES
    whims,      \* the tracker, see Tracker
    mood,       \* of the Sim
    sim,        \* "away" without an instance; "starting", "loading" as one appears
    stale,      \* the whims that loading has yet to dismiss
    saved       \* _whim_goal_proto: the whims to load, or NONE

vars == <<whims, mood, sim, stale, saved>>

\* active, chained, cooling: active_sets, active_chained_sets and
\* sets_on_cooldown. alarm: what the alarm in alarm_handles waits for.
\* completed: the milestones of the AspirationTracker that are whim sets.
\* realized: _realized_goals. emotion, listed: _active_whims, the slot for an
\* emotional whim and the others. shown: the whims that were last sent to the
\* client. delayed: how many delay_alarm_handles there are. lost (history): the
\* sets whose alarm was taken away while they cooled.
Tracker ==
    [ active : SUBSET WhimSet, chained : SUBSET WhimSet, cooling : SUBSET WhimSet,
      lost : SUBSET WhimSet,
      alarm : [WhimSet -> {"none", "expiry", "cooldown"}], completed : SUBSET WhimSet,
      realized : SUBSET WhimSet, emotion : WhimSet \cup {NONE}, listed : SUBSET WhimSet,
      dirty : BOOLEAN, shown : SUBSET WhimSet, delayed : Nat ]

-----------------------------------------------------------------------------
(* The sets                                                                *)

Triggered(s) == s.active \cup s.chained

\* activate_set, of a set that is not on cooldown
Activated(s, w) ==
    IF w \in Triggered(s) THEN s
    ELSE [s EXCEPT !.active = @ \cup {w}, !.alarm[w] = "expiry"]

\* activate_chained_set. Its connected_whims are keyed by goals of the tuning: the
\* instance of a goal, which it looks up, is never among them.
Chained(s, last) ==
    LET sets == Connected[last] \ (s.chained \cup s.cooling)
    IN  [s EXCEPT !.chained = @ \cup sets, !.active = @ \ sets,
                  !.alarm = [w \in WhimSet |-> IF w \in sets THEN "expiry" ELSE @[w]]]

\* The alarm of w is replaced, or removed if alarm is "none".
Rescheduled(s, w, alarm) ==
    [s EXCEPT !.alarm[w] = alarm, !.lost = @ \cup ({w} \cap s.cooling)]

\* Mutant: the alarm is removed after that of the cooldown has been added.
Mutant_RemovesLate(s, w) ==
    IF w \in s.cooling THEN Rescheduled(s, w, "none")
    ELSE [s EXCEPT !.cooling = @ \cup {w}, !.alarm[w] = "none"]

\* deactivate_set: the set goes on cooldown. If it cools already it has no alarm
\* any more that would end it.
CoolDown(s, w) ==
    IF w \in s.cooling THEN Rescheduled(s, w, "none")
    ELSE [s EXCEPT !.cooling = @ \cup {w}, !.alarm[w] = "cooldown"]

\* deactivate_set of a set that is not tested again
Deactivated(s, w) ==
    LET gone == [s EXCEPT !.active = @ \ {w}, !.chained = IF w \in s.active THEN @ ELSE @ \ {w}]
    IN  IF w \in Uncooled
        THEN [gone EXCEPT !.alarm[w] = "none", !.completed = @ \ {w}]
        ELSE CoolDown(gone, w)

\* deactivate_set: a set that passes its timeout_retest has its timer again.
TimedOut(s, w, passes) ==
    IF passes THEN Rescheduled(s, w, "expiry") ELSE Deactivated(s, w)

\* The results that a retest can have.
Retest(w) == IF w \in Retested THEN BOOLEAN ELSE {FALSE}

-----------------------------------------------------------------------------
(* The whims                                                               *)

WhimsNeeded(s) == MAX_GOALS - Cardinality(s.realized \ Emotional)
EmotionNeeded(s) == s.realized \cap Emotional = {}

\* _remove_goal_from_current_order, and the whim is no longer realized.
Gone(s, w) ==
    [s EXCEPT !.realized = @ \ {w}, !.listed = @ \ {w}, !.emotion = IF @ = w THEN NONE ELSE @]

\* _remove_whim_goal
Removed(s, w) == Gone(Deactivated(s, w), w)

\* What _select_goals can choose from; the goals' own tests are left open.
Offerable(s) == (Always \cup Triggered(s)) \ (s.cooling \cup s.realized)

Chosen(sets, most) == {c \in SUBSET sets : c = {} \/ Cardinality(c) <= most}

\* The normal and the emotional whims that offer_goals can choose: of the latter
\* as many as there are normal whims missing, or one.
NormalChoices(s, single, emotionOnly) ==
    Chosen(IF emotionOnly THEN {} ELSE Offerable(s) \ Emotional,
           IF single /\ WhimsNeeded(s) > 0 THEN 1 ELSE WhimsNeeded(s))
EmotionalChoices(s, m) ==
    Chosen(IF EmotionNeeded(s) THEN {w \in Offerable(s) : Emotion[w] = m} ELSE {},
           IF WhimsNeeded(s) > 0 THEN WhimsNeeded(s) ELSE 1)

\* The last emotional whim has the slot.
Realized(s, normal, emotional, last) ==
    [s EXCEPT !.realized = @ \cup normal \cup emotional,
              !.emotion = last, !.listed = @ \cup normal,
              !.dirty = @ \/ normal \cup emotional # {}]

\* offer_goals
Offers(s, m, single, emotionOnly) ==
    IF sim = "away" THEN {s} ELSE
      UNION { { Realized(s, n, e, last) : last \in IF e = {} THEN {s.emotion} ELSE e }
              : n \in NormalChoices(s, single, emotionOnly), e \in EmotionalChoices(s, m) }

\* Mutant: a saved whim is offered whatever the mood it is loaded in.
Mutant_TrustsSave(s, m) == s

\* The slot for an emotional whim holds none of another mood.
Fits(s, m) == s.emotion \in Emotional => Emotion[s.emotion] = m

\* _verify_goals: an emotional whim of another mood goes.
Verified(s, m) == IF Fits(s, m) THEN s ELSE Removed(s, s.emotion)

\* Mutant: the empty slot is sent as a whim.
Mutant_EmptyToo(s) == s.listed \cup {s.emotion}

\* _send_goals_update
OnOffer(s) == s.listed \cup ({s.emotion} \ {NONE})
Sent(s, m) ==
    LET v == Verified(s, m)
    IN  IF v.dirty THEN [v EXCEPT !.dirty = FALSE, !.shown = OnOffer(v)] ELSE v

\* refresh_goals: what can come of it
Refreshed(s, m, single, delay, emotionOnly) ==
    { Sent(t, m) : t \in IF delay THEN {[s EXCEPT !.delayed = @ + 1]}
                         ELSE Offers(s, m, single, emotionOnly) }

\* The delays a refresh can have: new_whim_delay or whim_cancel_refresh_delay is
\* zero or not.
Delays(s) == IF s.delayed < MaxDelayed THEN BOOLEAN ELSE {FALSE}

\* dismiss_whim, which refreshes also if it does not find the whim
Dismissed(s, m, w) ==
    LET known == w \in s.realized
        gone == [IF known THEN Removed(s, w) ELSE s EXCEPT !.dirty = TRUE]
    IN  UNION { Refreshed(gone, m, TRUE, delay, known /\ s.emotion = w)
                : delay \in IF known THEN Delays(s) ELSE {FALSE} }

\* complete_milestone and activate_set
Triggers(s, m, w) ==
    LET done == [s EXCEPT !.completed = @ \cup {w}]
    IN  IF w \in s.cooling THEN {done}
        ELSE UNION { Refreshed(Activated(done, w), m, TRUE, delay, FALSE) : delay \in Delays(s) }

\* _on_goal_completed, after the event: a set that is connected to itself stays.
Over(s, w) ==
    IF w \in Connected[w] THEN {s} ELSE {TimedOut(s, w, passes) : passes \in Retest(w)}
Achieved(s, m, w) ==
    LET gone == [Gone(Chained(s, w), w) EXCEPT !.dirty = TRUE]
    IN  UNION {Refreshed(gone, m, TRUE, delay, FALSE) : delay \in Delays(s)}
Completed(s, m, w) == UNION {Achieved(t, m, w) : t \in Over(s, w)}

-----------------------------------------------------------------------------
Fresh == [ active |-> {}, chained |-> {}, cooling |-> {}, lost |-> {},
           alarm |-> [w \in WhimSet |-> "none"], completed |-> {}, realized |-> {},
           emotion |-> NONE, listed |-> {}, dirty |-> TRUE, shown |-> {}, delayed |-> 0 ]

\* A save holds all realized whims, which may be more than there are slots.
Saves == SUBSET WhimSet

Init ==
    /\ whims = Fresh
    /\ mood \in Mood
    /\ sim = "away"
    /\ stale = {}
    /\ saved \in Saves \cup {NONE}

\* No alarm or command runs while the Sim is starting. The buffs that it starts
\* with send events.
Idle == sim \in {"away", "here"}
Hears == sim # "loading"

\* handle_event completes the milestone of a whim set.
MilestoneCompletes(w) ==
    /\ Hears
    /\ w \notin whims.completed
    /\ whims' \in Triggers(whims, mood, w)
    /\ UNCHANGED <<mood, sim, stale, saved>>

\* The alarm of an active set
Expire(w) ==
    /\ Idle
    /\ whims.alarm[w] = "expiry"
    /\ \E passes \in Retest(w) :
          whims' = TimedOut([whims EXCEPT !.alarm[w] = "none"], w, passes)
    /\ UNCHANGED <<mood, sim, stale, saved>>

FinishCooldown(w) ==
    /\ Idle
    /\ whims.alarm[w] = "cooldown"
    /\ whims' = [whims EXCEPT !.alarm[w] = "none", !.cooling = @ \ {w},
                              !.completed = IF w \in whims.cooling THEN @ \ {w} ELSE @]
    /\ UNCHANGED <<mood, sim, stale, saved>>

\* _delayed_offer_goals
DelayedOffer ==
    /\ Idle
    /\ whims.delayed > 0
    /\ \E t \in Offers(whims, mood, TRUE, FALSE) :
          whims' = [Sent(t, mood) EXCEPT !.delayed = @ - 1]
    /\ UNCHANGED <<mood, sim, stale, saved>>

\* The event of a completed whim may complete another milestone before the whim's
\* own set is deactivated.
GoalCompletes(w) ==
    /\ Hears
    /\ w \in whims.realized
    /\ \E s \in {whims} \cup UNION {Triggers(whims, mood, u) : u \in WhimSet \ whims.completed} :
          whims' \in Completed(s, mood, w)
    /\ UNCHANGED <<mood, sim, stale, saved>>

\* _on_goal_completed of one iteration of several
GoalProgresses(w) ==
    /\ Hears
    /\ w \in whims.realized
    /\ whims' = Sent([whims EXCEPT !.dirty = TRUE], mood)
    /\ UNCHANGED <<mood, sim, stale, saved>>

\* sims.whims_dismiss, perhaps of a whim that is gone
Dismiss(w) ==
    /\ Idle
    /\ whims' \in Dismissed(whims, mood, w)
    /\ UNCHANGED <<mood, sim, stale, saved>>

\* sims.regenerate_whims
Regenerate ==
    /\ sim = "here"
    /\ whims' \in Refreshed(whims, mood, FALSE, FALSE, FALSE)
    /\ UNCHANGED <<mood, sim, stale, saved>>

\* refresh_emotion_whim: the whim of the last mood goes, and what is offered
\* instead waits for the next update.
MoodChanges(m) ==
    /\ Hears
    /\ m # mood
    /\ mood' = m
    /\ LET w == whims.emotion
           first == IF w # NONE /\ Emotion[w] # m THEN Dismissed(whims, m, w)
                    ELSE {Sent([whims EXCEPT !.dirty = TRUE], m)}
       IN  whims' \in UNION {Offers(s, m, FALSE, TRUE) : s \in first}
    /\ UNCHANGED <<sim, stale, saved>>

-----------------------------------------------------------------------------
(* The Sim appears: its buffs may change its mood before its whims load.   *)

SimAppears ==
    /\ sim = "away"
    /\ sim' = "starting"
    /\ UNCHANGED <<whims, mood, stale, saved>>

StartLoading ==
    /\ sim = "starting"
    /\ sim' = "loading"
    /\ stale' = IF saved = NONE THEN {} ELSE whims.realized
    /\ UNCHANGED <<whims, mood, saved>>

\* load_whims_info_from_proto dismisses what was offered in the meantime.
DismissStale(w) ==
    /\ sim = "loading"
    /\ w \in stale
    /\ stale' = stale \ {w}
    /\ whims' \in Dismissed(whims, mood, w)
    /\ saved # NONE => whims'.realized \cap saved \subseteq stale'   \* bound: none twice
    /\ UNCHANGED <<mood, sim, saved>>

\* The saved whims ws as load_whims_info_from_proto realizes them: the normal ones
\* take the first slots, whatever these hold.
Held(s, ws, last, kept) ==
    [s EXCEPT !.realized = @ \cup ws, !.emotion = last,
              !.listed = kept \cup (ws \ (Emotional \cup {last})),
              !.dirty = @ \/ ws \ Emotional # {}]
NotOverwritten(s, normal) ==
    {k \in SUBSET s.listed : /\ Cardinality(k) >= Cardinality(s.listed) - Cardinality(normal)
                             /\ Cardinality(k) <= MAX_GOALS - Cardinality(normal)}

\* The last emotional whim takes its slot. With more than MAX_GOALS normal ones the
\* first of those too many takes it instead, and no more whims are loaded.
LoadedAll(s) ==
    {Held(s, saved, last, kept) : last \in IF saved \cap Emotional = {} THEN {s.emotion}
                                           ELSE saved \cap Emotional,
                                  kept \in NotOverwritten(s, saved \ Emotional)}
LoadedSome(s) ==
    UNION { {Held(s, ws, last, {}) : last \in ws \ Emotional}
            : ws \in {ws \in SUBSET saved : Cardinality(ws \ Emotional) = MAX_GOALS + 1} }
Loaded(s) ==
    IF Cardinality(saved \ Emotional) <= MAX_GOALS THEN LoadedAll(s) ELSE LoadedSome(s)

\* The end of load_whims_info_from_proto, and refresh_goals
SimStarts ==
    /\ sim = "loading"
    /\ stale = {}
    /\ sim' = "here"
    /\ saved' = NONE
    /\ whims' \in UNION {Refreshed(s, mood, FALSE, FALSE, FALSE)
                         : s \in IF saved = NONE THEN {whims} ELSE Loaded(whims)}
    /\ UNCHANGED <<mood, stale>>

SimLeaves ==
    /\ sim = "here"
    /\ sim' = "away"
    /\ UNCHANGED <<whims, mood, stale, saved>>

\* AspirationTracker.save resets the milestone of every whim set.
Save ==
    /\ Idle
    /\ whims.completed # {}
    /\ whims' = [whims EXCEPT !.completed = {}]
    /\ UNCHANGED <<mood, sim, stale, saved>>

Next ==
    \/ \E w \in WhimSet :
         \/ MilestoneCompletes(w) \/ Expire(w) \/ FinishCooldown(w)
         \/ GoalCompletes(w) \/ GoalProgresses(w) \/ Dismiss(w) \/ DismissStale(w)
    \/ \E m \in Mood : MoodChanges(m)
    \/ DelayedOffer \/ Regenerate \/ Save
    \/ SimAppears \/ StartLoading \/ SimStarts \/ SimLeaves

Spec == Init /\ [][Next]_vars

-----------------------------------------------------------------------------
(* Properties. *)

\* Every variable has its type.
TypeOK ==
    /\ whims \in Tracker
    /\ mood \in Mood
    /\ sim \in {"away", "starting", "loading", "here"}
    /\ stale \subseteq WhimSet
    /\ saved \in (SUBSET WhimSet) \cup {NONE}

Accounted(s) ==
    /\ s.active \cap s.chained = {}
    /\ Triggered(s) \cap s.cooling = {}
    /\ \A w \in Triggered(s) : s.alarm[w] = "expiry"
    /\ s.lost \subseteq s.cooling /\ s.cooling \cap Uncooled = {}
    /\ \A w \in WhimSet : s.alarm[w] = "cooldown" <=> w \in s.cooling \ s.lost
    /\ s.completed \subseteq Triggered(s) \cup s.cooling

\* A set is triggered by its milestone, or chained, or on cooldown, and has the
\* alarm that ends what it is: so the milestone of a set comes to be reset, which
\* is what lets it trigger the set again. Only a set whose whim was completed or
\* removed while the set cooled has lost its alarm, and cools for good.
SetsAccounted == Accounted(whims)

\* aspiration_tuning.py:164 of cooldown_timer: "Number of Sim minutes this set of
\* Whims is de-prioritized after de-activation". A set that is on cooldown has the
\* alarm that ends it.
CooldownEnds == \A w \in whims.cooling : whims.alarm[w] = "cooldown"

\* What the slots hold is realized, an emotional whim fits the mood the Sim is in,
\* and no whim is shown that is gone.
OnOfferIsReal ==
    /\ whims.listed \cup ({whims.emotion} \ {NONE}) \subseteq whims.realized
    /\ Fits(whims, mood)
    /\ whims.shown \subseteq whims.realized
=============================================================================
