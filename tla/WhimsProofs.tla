---------------------------- MODULE WhimsProofs ----------------------------
(***************************************************************************)
(* That the sets of a WhimsTracker stay accounted for, and that what it    *)
(* offers is real, for any tuning.                                         *)
(***************************************************************************)
EXTENDS Whims, TLAPS

Sound(s) == s \in Tracker /\ Accounted(s)

\* Of everything but the timer of w, which may just have gone off
SoundBut(s, w) ==
    /\ s \in Tracker
    /\ s.active \cap s.chained = {}
    /\ Triggered(s) \cap s.cooling = {}
    /\ \A v \in Triggered(s) \ {w} : s.alarm[v] = "expiry"
    /\ s.lost \subseteq s.cooling /\ s.cooling \cap Uncooled = {}
    /\ \A v \in WhimSet \ {w} : s.alarm[v] = "cooldown" <=> v \in s.cooling \ s.lost
    /\ s.completed \subseteq Triggered(s) \cup s.cooling

\* t differs from s in what concerns single whims only.
SameSets(s, t) ==
    /\ t.active = s.active /\ t.chained = s.chained /\ t.cooling = s.cooling
    /\ t.lost = s.lost /\ t.alarm = s.alarm /\ t.completed = s.completed /\ t.delayed = s.delayed

\* What the sets keep does not depend on the single whims.
LEMMA SameSetsSound ==
    ASSUME NEW s \in Tracker, Accounted(s), NEW t \in Tracker, SameSets(s, t)
    PROVE  Sound(t)
  BY DEF Sound, Accounted, SameSets, Triggered

\* A sound tracker is sound but for any timer.
LEMMA SoundIsSoundBut ==
    ASSUME NEW s, Sound(s), NEW w PROVE SoundBut(s, w)
  BY DEF Sound, SoundBut, Accounted

\* deactivate_set leaves the tracker sound, also from the alarm of the set.
LEMMA DeactivatedSound ==
    ASSUME NEW w \in WhimSet, NEW s, SoundBut(s, w)
    PROVE  /\ Sound(Deactivated(s, w))
           /\ Deactivated(s, w).delayed = s.delayed
  <1> DEFINE t == Deactivated(s, w)
  <1> DEFINE g == [s EXCEPT !.active = @ \ {w},
                            !.chained = IF w \in s.active THEN @ ELSE @ \ {w}]
  <1>a. s \in Tracker BY DEF SoundBut
  <1>b. /\ g \in Tracker
        /\ g.active = s.active \ {w}
        /\ g.chained = IF w \in s.active THEN s.chained ELSE s.chained \ {w}
        /\ g.cooling = s.cooling /\ g.lost = s.lost /\ g.alarm = s.alarm
        /\ g.completed = s.completed /\ g.delayed = s.delayed
    BY <1>a DEF Tracker
  <1>c. t = IF w \in Uncooled
            THEN [g EXCEPT !.alarm[w] = "none", !.completed = @ \ {w}]
            ELSE CoolDown(g, w)
    BY DEF Deactivated
  <1> HIDE DEF g, t
  <1>1. /\ t \in Tracker /\ t.delayed = s.delayed
        /\ t.active = g.active /\ t.chained = g.chained
        /\ t.cooling = IF w \in Uncooled THEN s.cooling ELSE s.cooling \cup {w}
        /\ t.lost = IF w \in Uncooled THEN s.lost ELSE s.lost \cup ({w} \cap s.cooling)
        /\ t.alarm[w] = IF w \in Uncooled \cup s.cooling THEN "none" ELSE "cooldown"
        /\ t.completed = IF w \in Uncooled THEN s.completed \ {w} ELSE s.completed
        /\ \A v \in WhimSet \ {w} : t.alarm[v] = s.alarm[v]
    <2>1. CASE w \in Uncooled
      BY <1>b, <1>c, <2>1 DEF Tracker
    <2>2. CASE w \notin Uncooled /\ w \in g.cooling
      <3>1. t = [g EXCEPT !.alarm[w] = "none", !.lost = @ \cup ({w} \cap g.cooling)]
        BY <1>c, <2>2 DEF CoolDown, Rescheduled
      <3>2. /\ t \in Tracker /\ t.delayed = g.delayed /\ t.active = g.active
            /\ t.chained = g.chained /\ t.cooling = g.cooling /\ t.completed = g.completed
            /\ t.lost = g.lost \cup ({w} \cap g.cooling) /\ t.alarm[w] = "none"
            /\ \A v \in WhimSet \ {w} : t.alarm[v] = g.alarm[v]
        BY <1>b, <3>1 DEF Tracker
      <3> QED BY <1>b, <2>2, <3>2
    <2>3. CASE w \notin Uncooled /\ w \notin g.cooling
      <3>1. t = [g EXCEPT !.cooling = @ \cup {w}, !.alarm[w] = "cooldown"]
        BY <1>c, <2>3 DEF CoolDown
      <3>2. /\ t \in Tracker /\ t.delayed = g.delayed /\ t.active = g.active
            /\ t.chained = g.chained /\ t.cooling = g.cooling \cup {w}
            /\ t.completed = g.completed /\ t.lost = g.lost /\ t.alarm[w] = "cooldown"
            /\ \A v \in WhimSet \ {w} : t.alarm[v] = g.alarm[v]
        BY <1>b, <3>1 DEF Tracker
      <3>3. g.lost \cup ({w} \cap s.cooling) = g.lost
        BY <1>b, <2>3
      <3> QED BY <1>b, <2>3, <3>2, <3>3
    <2> QED BY <2>1, <2>2, <2>3
  <1>2. /\ t.active = s.active \ {w}
        /\ t.chained = IF w \in s.active THEN s.chained ELSE s.chained \ {w}
    BY <1>1, <1>b
  <1>3. t.active \subseteq WhimSet /\ t.chained \subseteq WhimSet
    BY <1>1 DEF Tracker
  <1>4. Accounted(t)
    BY <1>1, <1>2, <1>3 DEF SoundBut, Accounted, Triggered
  <1> QED BY <1>1, <1>4 DEF Sound, t

\* So does a set that is tested again.
LEMMA TimedOutSound ==
    ASSUME NEW w \in WhimSet, NEW s, SoundBut(s, w), NEW passes \in BOOLEAN
    PROVE  /\ Sound(TimedOut(s, w, passes))
           /\ TimedOut(s, w, passes).delayed = s.delayed
  <1>1. CASE passes
    <2> DEFINE t == [s EXCEPT !.alarm[w] = "expiry", !.lost = @ \cup ({w} \cap s.cooling)]
    <2>1. TimedOut(s, w, passes) = t
      BY <1>1 DEF TimedOut, Rescheduled
    <2>2. /\ t \in Tracker /\ t.active = s.active /\ t.chained = s.chained
          /\ t.cooling = s.cooling /\ t.completed = s.completed /\ t.delayed = s.delayed
          /\ t.lost = s.lost \cup ({w} \cap s.cooling)
          /\ \A v \in WhimSet : t.alarm[v] = IF v = w THEN "expiry" ELSE s.alarm[v]
          /\ t.active \subseteq WhimSet /\ t.chained \subseteq WhimSet
      BY DEF SoundBut, Tracker
    <2> HIDE DEF t
    <2>3. Accounted(t)
      BY <2>2 DEF SoundBut, Accounted, Triggered
    <2> QED BY <2>1, <2>2, <2>3 DEF Sound
  <1>2. CASE ~passes
    BY <1>2, DeactivatedSound DEF TimedOut
  <1> QED BY <1>1, <1>2

\* What is done to single whims leaves the sets alone.
LEMMA GoneSound ==
    ASSUME NEW s, Sound(s), NEW w
    PROVE  Sound(Gone(s, w)) /\ Gone(s, w).delayed = s.delayed
  <1>1. s \in Tracker /\ Accounted(s)
    BY DEF Sound
  <1>2. Gone(s, w) \in Tracker /\ SameSets(s, Gone(s, w))
    BY <1>1 DEF Gone, Tracker, SameSets
  <1> QED BY <1>1, <1>2, SameSetsSound DEF SameSets

LEMMA DirtySound ==
    ASSUME NEW s, Sound(s), NEW d \in BOOLEAN
    PROVE  Sound([s EXCEPT !.dirty = d]) /\ [s EXCEPT !.dirty = d].delayed = s.delayed
  <1> DEFINE t == [s EXCEPT !.dirty = d]
  <1>1. s \in Tracker /\ Accounted(s)
    BY DEF Sound
  <1>2. t \in Tracker /\ SameSets(s, t)
    BY <1>1 DEF Tracker, SameSets
  <1> QED BY <1>1, <1>2, SameSetsSound DEF SameSets

LEMMA RemovedSound ==
    ASSUME NEW w \in WhimSet, NEW s, Sound(s)
    PROVE  Sound(Removed(s, w)) /\ Removed(s, w).delayed = s.delayed
  BY SoundIsSoundBut, DeactivatedSound, GoneSound DEF Removed

\* _send_goals_update, which may remove an emotional whim
LEMMA SentSound ==
    ASSUME NEW s, Sound(s), NEW m
    PROVE  Sound(Sent(s, m)) /\ Sent(s, m).delayed = s.delayed
  <1> DEFINE v == Verified(s, m)
  <1>1. s.emotion = NONE \/ s.emotion \in WhimSet
    BY DEF Sound, Tracker
  <1>2. Sound(v) /\ v.delayed = s.delayed
    BY <1>1, RemovedSound DEF Verified, Fits, Emotional
  <1> HIDE DEF v
  <1>3. CASE v.dirty
    <2> DEFINE t == [v EXCEPT !.dirty = FALSE, !.shown = OnOffer(v)]
    <2>1. v \in Tracker /\ Accounted(v)
      BY <1>2 DEF Sound
    <2>2. OnOffer(v) \subseteq WhimSet
      BY <2>1 DEF OnOffer, Tracker
    <2>3. t \in Tracker /\ SameSets(v, t)
      BY <2>1, <2>2 DEF Tracker, SameSets
    <2>4. Sent(s, m) = t
      BY <1>3 DEF Sent, v
    <2> QED BY <1>2, <2>1, <2>3, <2>4, SameSetsSound DEF SameSets
  <1>4. CASE ~v.dirty
    BY <1>2, <1>4 DEF Sent, v
  <1> QED BY <1>3, <1>4

\* offer_goals
LEMMA OffersSound ==
    ASSUME NEW s, Sound(s), NEW m, NEW single, NEW emotionOnly,
           NEW t \in Offers(s, m, single, emotionOnly)
    PROVE  Sound(t) /\ t.delayed = s.delayed
  <1>1. s \in Tracker /\ Accounted(s)
    BY DEF Sound
  <1>2. CASE sim = "away"
    BY <1>2 DEF Offers
  <1>3. CASE sim # "away"
    <2>1. PICK n \in NormalChoices(s, single, emotionOnly), e \in EmotionalChoices(s, m) :
             t \in {Realized(s, n, e, last) : last \in IF e = {} THEN {s.emotion} ELSE e}
      BY <1>3 DEF Offers
    <2>2. n \subseteq WhimSet /\ e \subseteq WhimSet
      <3>1. Offerable(s) \subseteq WhimSet
        BY <1>1, WhimAssumption DEF Offerable, Triggered, Tracker
      <3> QED BY <2>1, <3>1 DEF NormalChoices, EmotionalChoices, Chosen
    <2>3. PICK last \in WhimSet \cup {NONE} : t = Realized(s, n, e, last)
      BY <1>1, <2>1, <2>2 DEF Tracker
    <2>4. t \in Tracker /\ SameSets(s, t)
      BY <1>1, <2>2, <2>3 DEF Realized, Tracker, SameSets
    <2> QED BY <1>1, <2>4, SameSetsSound DEF SameSets
  <1> QED BY <1>2, <1>3

\* refresh_goals
LEMMA RefreshedSound ==
    ASSUME NEW s, Sound(s), NEW m, NEW single, NEW delay \in BOOLEAN, NEW emotionOnly,
           NEW r \in Refreshed(s, m, single, delay, emotionOnly)
    PROVE  Sound(r)
  <1>1. CASE delay
    <2> DEFINE t == [s EXCEPT !.delayed = @ + 1]
    <2>1. s \in Tracker /\ Accounted(s)
      BY DEF Sound
    <2>2. t \in Tracker /\ t.active = s.active /\ t.chained = s.chained
          /\ t.cooling = s.cooling /\ t.lost = s.lost /\ t.alarm = s.alarm
          /\ t.completed = s.completed
      BY <2>1 DEF Tracker
    <2>3. Sound(t)
      <3> HIDE DEF t
      <3> QED BY <2>1, <2>2 DEF Sound, Accounted, Triggered
    <2> QED BY <1>1, <2>3, SentSound DEF Refreshed
  <1>2. CASE ~delay
    BY <1>2, OffersSound, SentSound DEF Refreshed
  <1> QED BY <1>1, <1>2

\* dismiss_whim
LEMMA DismissedSound ==
    ASSUME NEW s, Sound(s), NEW m, NEW w \in WhimSet, NEW r \in Dismissed(s, m, w)
    PROVE  Sound(r)
  <1> DEFINE first == IF w \in s.realized THEN Removed(s, w) ELSE s
             gone == [first EXCEPT !.dirty = TRUE]
  <1>1. Sound(first)
    BY RemovedSound
  <1> HIDE DEF first
  <1>2. Sound(gone)
    BY <1>1, DirtySound
  <1>3. PICK delay \in BOOLEAN :
           r \in Refreshed(gone, m, TRUE, delay, w \in s.realized /\ s.emotion = w)
    BY DEF Dismissed, Delays, first
  <1> QED BY <1>2, <1>3, RefreshedSound

\* activate_set of a set that does not cool and whose milestone has just been completed
LEMMA ActivatedSound ==
    ASSUME NEW w \in WhimSet, NEW s \in Tracker, Accounted(s), w \notin s.cooling,
           NEW done \in Tracker,
           /\ done.active = s.active /\ done.chained = s.chained
           /\ done.cooling = s.cooling /\ done.lost = s.lost /\ done.alarm = s.alarm
           /\ done.completed = s.completed \cup {w}
    PROVE  Sound(Activated(done, w))
  <1> DEFINE t == Activated(done, w)
  <1>1. CASE w \in Triggered(done)
    BY <1>1 DEF Activated, Sound, Accounted, Triggered
  <1>2. CASE w \notin Triggered(done)
    <2>1. /\ t \in Tracker /\ t.active = done.active \cup {w}
          /\ t.chained = done.chained /\ t.cooling = done.cooling
          /\ t.completed = done.completed /\ t.lost = done.lost
          /\ \A v \in WhimSet : t.alarm[v] = IF v = w THEN "expiry" ELSE done.alarm[v]
          /\ t.active \subseteq WhimSet /\ t.chained \subseteq WhimSet
      BY <1>2 DEF Activated, Tracker
    <2> HIDE DEF t
    <2>2. Sound(t)
      BY <1>2, <2>1 DEF Sound, Accounted, Triggered
    <2> QED BY <2>2 DEF t
  <1> QED BY <1>1, <1>2

\* complete_milestone and activate_set: the milestone that is completed belongs to
\* a set that cools or becomes triggered.
LEMMA TriggersSound ==
    ASSUME NEW s, Sound(s), NEW m, NEW w \in WhimSet, NEW r \in Triggers(s, m, w)
    PROVE  Sound(r)
  <1> DEFINE done == [s EXCEPT !.completed = @ \cup {w}]
  <1>1. s \in Tracker /\ Accounted(s)
    BY DEF Sound
  <1>2. /\ done \in Tracker /\ done.active = s.active /\ done.chained = s.chained
        /\ done.cooling = s.cooling /\ done.lost = s.lost /\ done.alarm = s.alarm
        /\ done.completed = s.completed \cup {w}
    BY <1>1 DEF Tracker
  <1> HIDE DEF done
  <1>3. CASE w \in s.cooling
    BY <1>1, <1>2, <1>3 DEF Triggers, Sound, Accounted, Triggered, done
  <1>4. CASE w \notin s.cooling
    <2> DEFINE t == Activated(done, w)
    <2>1. Sound(t)
      BY <1>1, <1>2, <1>4, ActivatedSound
    <2> HIDE DEF t
    <2>2. PICK delay \in BOOLEAN : r \in Refreshed(t, m, TRUE, delay, FALSE)
      BY <1>4 DEF Triggers, Delays, done, t
    <2> QED BY <2>1, <2>2, RefreshedSound
  <1> QED BY <1>3, <1>4

\* activate_chained_set
LEMMA ChainedSound ==
    ASSUME NEW s, Sound(s), NEW w \in WhimSet
    PROVE  Sound(Chained(s, w))
  <1> DEFINE sets == Connected[w] \ (s.chained \cup s.cooling)
             t == [s EXCEPT !.chained = @ \cup sets, !.active = @ \ sets,
                            !.alarm = [v \in WhimSet |-> IF v \in sets THEN "expiry" ELSE @[v]]]
  <1>1. s \in Tracker /\ Accounted(s) /\ sets \subseteq WhimSet
    BY WhimAssumption DEF Sound
  <1>2. sets \cap (s.chained \cup s.cooling) = {}
    OBVIOUS
  <1>3. t = Chained(s, w)
    BY DEF Chained
  <1> HIDE DEF sets
  <1>4. /\ t \in Tracker /\ t.active = s.active \ sets /\ t.chained = s.chained \cup sets
        /\ t.cooling = s.cooling /\ t.lost = s.lost /\ t.completed = s.completed
        /\ \A v \in WhimSet : t.alarm[v] = IF v \in sets THEN "expiry" ELSE s.alarm[v]
        /\ s.active \subseteq WhimSet /\ s.chained \subseteq WhimSet
    BY <1>1 DEF Tracker
  <1> HIDE DEF t
  <1>5. Accounted(t)
    BY <1>1, <1>2, <1>4 DEF Accounted, Triggered
  <1> QED BY <1>3, <1>4, <1>5 DEF Sound

\* _on_goal_completed
LEMMA CompletedSound ==
    ASSUME NEW s, Sound(s), NEW m, NEW w \in WhimSet, NEW r \in Completed(s, m, w)
    PROVE  Sound(r)
  <1>1. PICK t \in Over(s, w) : r \in Achieved(t, m, w)
    BY DEF Completed
  <1>2. Sound(t)
    <2>1. t = s \/ \E p \in BOOLEAN : t = TimedOut(s, w, p)
      BY DEF Over, Retest
    <2> QED BY <2>1, SoundIsSoundBut, TimedOutSound
  <1>3. Sound(Gone(Chained(t, w), w))
    BY <1>2, ChainedSound, GoneSound
  <1> DEFINE gone == [Gone(Chained(t, w), w) EXCEPT !.dirty = TRUE]
  <1>4. Sound(gone)
    BY <1>3, DirtySound
  <1>5. PICK delay \in BOOLEAN : r \in Refreshed(gone, m, TRUE, delay, FALSE)
    BY <1>1 DEF Achieved, Delays
  <1> QED BY <1>4, <1>5, RefreshedSound

\* What load_whims_info_from_proto realizes is saved, and so is what it puts in the
\* emotional slot.
LEMMA LoadedHeld ==
    ASSUME NEW s, NEW t \in Loaded(s)
    PROVE  \E ws \in SUBSET saved, last \in saved \cup {s.emotion}, kept \in SUBSET s.listed :
              t = Held(s, ws, last, kept) /\ last \in ws \cup {s.emotion}
  <1>1. CASE t \in LoadedAll(s)
    <2>1. PICK last \in IF saved \cap Emotional = {} THEN {s.emotion} ELSE saved \cap Emotional,
                kept \in NotOverwritten(s, saved \ Emotional) : t = Held(s, saved, last, kept)
      BY <1>1 DEF LoadedAll
    <2>2. kept \in SUBSET s.listed
      BY DEF NotOverwritten
    <2>3. last \in saved \cup {s.emotion}
      BY <2>1
    <2> QED BY <2>1, <2>2, <2>3
  <1>2. CASE t \in LoadedSome(s)
    <2>1. PICK ws \in SUBSET saved : \E last \in ws \ Emotional : t = Held(s, ws, last, {})
      BY <1>2 DEF LoadedSome
    <2> QED BY <2>1
  <1> QED BY <1>1, <1>2 DEF Loaded

\* load_whims_info_from_proto
LEMMA LoadedSound ==
    ASSUME NEW s, Sound(s), saved \subseteq WhimSet, NEW t \in Loaded(s)
    PROVE  Sound(t)
  <1>1. s \in Tracker /\ Accounted(s)
    BY DEF Sound
  <1>2. PICK ws \in SUBSET saved, last \in saved \cup {s.emotion}, kept \in SUBSET s.listed :
           t = Held(s, ws, last, kept) /\ last \in ws \cup {s.emotion}
    BY LoadedHeld
  <1>a. ws \subseteq WhimSet /\ last \in WhimSet \cup {NONE} /\ kept \subseteq WhimSet
    BY <1>1 DEF Tracker
  <1>3. t \in Tracker /\ SameSets(s, t)
    BY <1>1, <1>2, <1>a DEF Held, Tracker, SameSets
  <1> QED BY <1>1, <1>3, SameSetsSound

-----------------------------------------------------------------------------
\* The inductive invariant: the types, and that the sets are accounted for
Inv == TypeOK /\ SetsAccounted

\* A step whose tracker is sound keeps the invariant.
LEMMA StepSound ==
    ASSUME Sound(whims'), mood' \in Mood, sim' \in {"away", "starting", "loading", "here"},
           stale' \subseteq WhimSet, saved' \in (SUBSET WhimSet) \cup {NONE}
    PROVE  Inv'
  BY DEF Inv, TypeOK, SetsAccounted, Sound

LEMMA InitInv == Init => Inv
  <1> SUFFICES ASSUME Init PROVE Inv
    OBVIOUS
  <1>1. Fresh \in Tracker
    BY DEF Fresh, Tracker
  <1>2. Accounted(Fresh)
    BY DEF Fresh, Accounted, Triggered
  <1>3. saved \in (SUBSET WhimSet) \cup {NONE}
    BY DEF Init, Saves
  <1> QED BY <1>1, <1>2, <1>3 DEF Init, Inv, TypeOK, SetsAccounted

LEMMA NextInv == Inv /\ [Next]_vars => Inv'
  <1> SUFFICES ASSUME Inv, [Next]_vars PROVE Inv'
    OBVIOUS
  <1> USE DEF Inv
  <1>0. /\ Sound(whims) /\ mood \in Mood /\ sim \in {"away", "starting", "loading", "here"}
        /\ stale \subseteq WhimSet /\ saved \in (SUBSET WhimSet) \cup {NONE}
        /\ whims.realized \subseteq WhimSet /\ whims.emotion \in WhimSet \cup {NONE}
    BY DEF TypeOK, SetsAccounted, Sound, Tracker
  <1>1. ASSUME NEW w \in WhimSet, MilestoneCompletes(w) PROVE Inv'
    BY <1>0, <1>1, TriggersSound, StepSound DEF MilestoneCompletes
  <1>2. ASSUME NEW w \in WhimSet, Expire(w) PROVE Inv'
    <2> DEFINE s == [whims EXCEPT !.alarm[w] = "none"]
    <2>1. SoundBut(s, w)
      BY <1>0 DEF Sound, SoundBut, Accounted, Triggered, Tracker
    <2> HIDE DEF s
    <2>2. PICK passes \in BOOLEAN : whims' = TimedOut(s, w, passes)
      BY <1>2 DEF Expire, Retest, s
    <2>3. Sound(whims')
      BY <2>1, <2>2, TimedOutSound
    <2> QED BY <1>0, <1>2, <2>3, StepSound DEF Expire
  <1>3. ASSUME NEW w \in WhimSet, FinishCooldown(w) PROVE Inv'
    <2>1. /\ whims' \in Tracker
          /\ whims'.active = whims.active /\ whims'.chained = whims.chained
          /\ whims'.cooling = whims.cooling \ {w} /\ whims'.lost = whims.lost
          /\ w \in whims.cooling \ whims.lost /\ whims'.alarm[w] = "none"
          /\ whims'.completed = IF w \in whims.cooling THEN whims.completed \ {w}
                                ELSE whims.completed
          /\ \A v \in WhimSet \ {w} : whims'.alarm[v] = whims.alarm[v]
          /\ whims.active \subseteq WhimSet /\ whims.chained \subseteq WhimSet
      BY <1>0, <1>3 DEF FinishCooldown, Sound, Tracker, Accounted
    <2>2. w \notin Triggered(whims)
      BY <1>0, <1>3 DEF FinishCooldown, Sound, Accounted
    <2>3. Accounted(whims)'
      BY <1>0, <2>1, <2>2 DEF Sound, Accounted, Triggered
    <2> QED BY <1>0, <1>3, <2>1, <2>3, StepSound DEF FinishCooldown, Sound
  <1>4. ASSUME NEW w \in WhimSet, GoalCompletes(w) PROVE Inv'
    <2>1. PICK s : /\ s = whims \/ \E u \in WhimSet : s \in Triggers(whims, mood, u)
                   /\ whims' \in Completed(s, mood, w)
      BY <1>4 DEF GoalCompletes
    <2>2. Sound(s)
      BY <1>0, <2>1, TriggersSound
    <2>3. Sound(whims')
      BY <2>1, <2>2, CompletedSound
    <2> QED BY <1>0, <1>4, <2>3, StepSound DEF GoalCompletes
  <1>5. ASSUME NEW w \in WhimSet, GoalProgresses(w) PROVE Inv'
    <2>1. Sound(whims')
      BY <1>0, <1>5, DirtySound, SentSound DEF GoalProgresses
    <2> QED BY <1>0, <1>5, <2>1, StepSound DEF GoalProgresses
  <1>6. ASSUME NEW w \in WhimSet, Dismiss(w) PROVE Inv'
    BY <1>0, <1>6, DismissedSound, StepSound DEF Dismiss
  <1>7. ASSUME NEW w \in WhimSet, DismissStale(w) PROVE Inv'
    <2>1. Sound(whims')
      BY <1>0, <1>7, DismissedSound DEF DismissStale
    <2> QED BY <1>0, <1>7, <2>1, StepSound DEF DismissStale
  <1>8. ASSUME NEW m \in Mood, MoodChanges(m) PROVE Inv'
    <2> DEFINE w == whims.emotion
               first == IF w # NONE /\ Emotion[w] # m THEN Dismissed(whims, m, w)
                        ELSE {Sent([whims EXCEPT !.dirty = TRUE], m)}
    <2>1. PICK s \in first : whims' \in Offers(s, m, FALSE, TRUE)
      BY <1>8 DEF MoodChanges
    <2>2. Sound(s)
      <3>1. CASE w # NONE /\ Emotion[w] # m
        BY <1>0, <2>1, <3>1, DismissedSound
      <3>2. CASE ~(w # NONE /\ Emotion[w] # m)
        <4>1. s = Sent([whims EXCEPT !.dirty = TRUE], m)
          BY <2>1, <3>2
        <4>2. Sound([whims EXCEPT !.dirty = TRUE])
          BY <1>0, DirtySound
        <4> QED BY <4>1, <4>2, SentSound
      <3> QED BY <3>1, <3>2
    <2>3. Sound(whims')
      BY <2>1, <2>2, OffersSound
    <2> QED BY <1>0, <1>8, <2>3, StepSound DEF MoodChanges
  <1>9. CASE DelayedOffer
    <2>1. PICK t \in Offers(whims, mood, TRUE, FALSE) :
             whims' = [Sent(t, mood) EXCEPT !.delayed = @ - 1]
      BY <1>9 DEF DelayedOffer
    <2> DEFINE r == Sent(t, mood)
    <2>2. Sound(r) /\ r.delayed = whims.delayed
      <3>1. Sound(t) /\ t.delayed = whims.delayed
        <4>1. t \in Offers(whims, mood, TRUE, FALSE)
          OBVIOUS
        <4>2. Sound(whims)
          BY <1>0
        <4>3. Sound(t)
          BY <4>1, <4>2, OffersSound
        <4>4. t.delayed = whims.delayed
          BY <4>1, <4>2, OffersSound
        <4> QED BY <4>3, <4>4
      <3> QED BY <3>1, SentSound
    <2> HIDE DEF r
    <2>3. whims.delayed > 0 /\ whims' = [r EXCEPT !.delayed = @ - 1]
      BY <1>9, <2>1 DEF DelayedOffer, r
    <2>4. /\ whims' \in Tracker
          /\ whims'.active = r.active /\ whims'.chained = r.chained
          /\ whims'.cooling = r.cooling /\ whims'.alarm = r.alarm /\ whims'.lost = r.lost
          /\ whims'.completed = r.completed
      BY <2>2, <2>3 DEF Sound, Tracker
    <2>5. Sound(whims')
      BY <2>2, <2>4 DEF Sound, Accounted, Triggered
    <2> QED BY <1>0, <1>9, <2>5, StepSound DEF DelayedOffer
  <1>10. CASE Regenerate
    BY <1>0, <1>10, RefreshedSound, StepSound DEF Regenerate
  <1>11. CASE Save
    <2>1. /\ whims' \in Tracker
          /\ whims'.active = whims.active /\ whims'.chained = whims.chained
          /\ whims'.cooling = whims.cooling /\ whims'.alarm = whims.alarm
          /\ whims'.completed = {} /\ whims'.lost = whims.lost
      BY <1>0, <1>11 DEF Save, Sound, Tracker
    <2>2. Sound(whims')
      BY <1>0, <2>1 DEF Sound, Accounted, Triggered
    <2> QED BY <1>0, <1>11, <2>2, StepSound DEF Save
  <1>12. CASE SimAppears
    BY <1>0, <1>12, StepSound DEF SimAppears
  <1>13. CASE StartLoading
    BY <1>0, <1>13, StepSound DEF StartLoading
  <1>14. CASE SimStarts
    <2>1. PICK s : /\ IF saved = NONE THEN s = whims ELSE s \in Loaded(whims)
                   /\ whims' \in Refreshed(s, mood, FALSE, FALSE, FALSE)
      BY <1>14 DEF SimStarts
    <2>2. Sound(s)
      BY <1>0, <2>1, LoadedSound
    <2>3. Sound(whims')
      BY <2>1, <2>2, RefreshedSound
    <2> QED BY <1>0, <1>14, <2>3, StepSound DEF SimStarts
  <1>15. CASE SimLeaves
    BY <1>0, <1>15, StepSound DEF SimLeaves
  <1>16. CASE UNCHANGED vars
    BY <1>16 DEF vars, TypeOK, SetsAccounted, Accounted, Triggered
  <1> QED BY <1>1, <1>2, <1>3, <1>4, <1>5, <1>6, <1>7, <1>8, <1>9, <1>10, <1>11, <1>12,
             <1>13, <1>14, <1>15, <1>16 DEF Next

\* Every variable keeps its type, whatever the tuning: at no time does an empty slot
\* go to the client as a whim, or a delay run out that was not waited for.
THEOREM TypeCorrect == Spec => []TypeOK
  BY InitInv, NextInv, PTL DEF Spec, Inv

\* For every number of sets, moods and tuned connections, a set is triggered, chained
\* or cooling, and has the alarm that ends what it is: only one whose whim was completed
\* or removed while it cooled has none, and cools for good. A completed milestone belongs
\* to a set that is triggered or cools.
THEOREM SetsStayAccounted == Spec => []SetsAccounted
  BY InitInv, NextInv, PTL DEF Spec, Inv

-----------------------------------------------------------------------------
(* What is on offer. *)

\* t differs from s in what concerns the sets only.
SameWhims(s, t) ==
    /\ t.realized = s.realized /\ t.emotion = s.emotion /\ t.listed = s.listed
    /\ t.dirty = s.dirty /\ t.shown = s.shown

\* What OnOfferIsReal says of a tracker
Real(s, m) ==
    /\ OnOffer(s) \subseteq s.realized /\ s.shown \subseteq s.realized
    /\ Fits(s, m)

\* What the next update for the client makes real: it is due where a whim is gone,
\* and a whim that it removes was not shown.
Ready(s, m) ==
    /\ OnOffer(s) \subseteq s.realized
    /\ ~s.dirty => /\ s.shown \subseteq s.realized
                   /\ Fits(s, m) \/ s.emotion \notin s.shown

LEMMA RealIsReady ==
    ASSUME NEW s, NEW m, Real(s, m) PROVE Ready(s, m)
  BY DEF Real, Ready

\* What is done to the sets leaves what is on offer alone.
LEMMA SetsLeaveWhims ==
    ASSUME NEW s \in Tracker, NEW w \in WhimSet
    PROVE  /\ SameWhims(s, Deactivated(s, w))
           /\ SameWhims(s, Activated(s, w))
           /\ SameWhims(s, Chained(s, w))
           /\ \A passes : SameWhims(s, TimedOut(s, w, passes))
  <1>1. SameWhims(s, Deactivated(s, w))
    <2> DEFINE g == [s EXCEPT !.active = @ \ {w},
                              !.chained = IF w \in s.active THEN @ ELSE @ \ {w}]
    <2>1. g \in Tracker /\ SameWhims(s, g)
      BY DEF Tracker, SameWhims
    <2>2. Deactivated(s, w) = IF w \in Uncooled
                              THEN [g EXCEPT !.alarm[w] = "none", !.completed = @ \ {w}]
                              ELSE CoolDown(g, w)
      BY DEF Deactivated
    <2> HIDE DEF g
    <2> QED BY <2>1, <2>2 DEF CoolDown, Rescheduled, Tracker, SameWhims
  <1>2. SameWhims(s, Activated(s, w))
    BY DEF Activated, Tracker, SameWhims
  <1>3. SameWhims(s, Chained(s, w))
    BY DEF Chained, Tracker, SameWhims
  <1>4. ASSUME NEW passes PROVE SameWhims(s, TimedOut(s, w, passes))
    <2>1. CASE passes
      BY <2>1 DEF TimedOut, Rescheduled, Tracker, SameWhims
    <2>2. CASE ~passes
      BY <1>1, <2>2 DEF TimedOut
    <2> QED BY <2>1, <2>2
  <1> QED BY <1>1, <1>2, <1>3, <1>4

LEMMA SameWhimsReal ==
    ASSUME NEW s, NEW t, SameWhims(s, t), NEW m
    PROVE  (Real(s, m) => Real(t, m)) /\ (Ready(s, m) => Ready(t, m))
  BY DEF SameWhims, Real, Ready, Fits, OnOffer

\* A whim that goes leaves its slot; the client is told.
LEMMA GoneReady ==
    ASSUME NEW s \in Tracker, OnOffer(s) \subseteq s.realized, NEW w \in WhimSet, NEW m
    PROVE  /\ OnOffer(Gone(s, w)) \subseteq Gone(s, w).realized
           /\ Ready([Gone(s, w) EXCEPT !.dirty = TRUE], m)
  <1>1. /\ Gone(s, w) \in Tracker /\ Gone(s, w).realized = s.realized \ {w}
        /\ Gone(s, w).listed = s.listed \ {w}
        /\ Gone(s, w).emotion = IF s.emotion = w THEN NONE ELSE s.emotion
    BY DEF Gone, Tracker
  <1>2. OnOffer(Gone(s, w)) \subseteq Gone(s, w).realized
    BY <1>1 DEF OnOffer
  <1> DEFINE t == [Gone(s, w) EXCEPT !.dirty = TRUE]
  <1>3. /\ t.dirty = TRUE /\ t.realized = Gone(s, w).realized
        /\ t.listed = Gone(s, w).listed /\ t.emotion = Gone(s, w).emotion
    BY <1>1 DEF Tracker
  <1> HIDE DEF t
  <1>4. Ready(t, m)
    BY <1>2, <1>3 DEF Ready, OnOffer
  <1> QED BY <1>2, <1>4 DEF t

\* _remove_whim_goal, told to the client or not
LEMMA RemovedIs ==
    ASSUME NEW s \in Tracker, NEW w \in WhimSet
    PROVE  /\ Removed(s, w).realized = s.realized \ {w}
           /\ Removed(s, w).listed = s.listed \ {w}
           /\ Removed(s, w).emotion = IF s.emotion = w THEN NONE ELSE s.emotion
           /\ Removed(s, w).dirty = s.dirty /\ Removed(s, w).shown = s.shown
  <1> DEFINE t == Deactivated(s, w)
  <1>1. SameWhims(s, t)
    BY SetsLeaveWhims
  <1>2. t \in Tracker
    <2> DEFINE g == [s EXCEPT !.active = @ \ {w},
                              !.chained = IF w \in s.active THEN @ ELSE @ \ {w}]
    <2>1. g \in Tracker
      BY DEF Tracker
    <2>2. t = IF w \in Uncooled
              THEN [g EXCEPT !.alarm[w] = "none", !.completed = @ \ {w}]
              ELSE CoolDown(g, w)
      BY DEF Deactivated
    <2> HIDE DEF g, t
    <2> QED BY <2>1, <2>2 DEF CoolDown, Rescheduled, Tracker
  <1> HIDE DEF t
  <1>3. /\ Gone(t, w).realized = t.realized \ {w} /\ Gone(t, w).listed = t.listed \ {w}
        /\ Gone(t, w).emotion = IF t.emotion = w THEN NONE ELSE t.emotion
        /\ Gone(t, w).dirty = t.dirty /\ Gone(t, w).shown = t.shown
    BY <1>2 DEF Gone, Tracker
  <1>4. Removed(s, w) = Gone(t, w)
    BY DEF Removed, t
  <1> QED BY <1>1, <1>3, <1>4 DEF SameWhims, t

\* _send_goals_update makes it real.
LEMMA SentReal ==
    ASSUME NEW s, Sound(s), NEW m, Ready(s, m) PROVE Real(Sent(s, m), m)
  <1> DEFINE v == Verified(s, m)
  <1>1. s \in Tracker /\ (s.emotion # NONE => s.emotion \in WhimSet)
    BY DEF Sound, Tracker
  <1>2. v \in Tracker
    BY <1>1, RemovedSound DEF Verified, Fits, Emotional, Sound
  <1>3. /\ OnOffer(v) \subseteq v.realized /\ Fits(v, m)
        /\ ~v.dirty => v.shown \subseteq v.realized
    <2>1. CASE Fits(s, m)
      BY <2>1 DEF Verified, Ready
    <2>2. CASE ~Fits(s, m)
      <3>1. v = Removed(s, s.emotion) /\ s.emotion \in WhimSet
        BY <1>1, <2>2 DEF Verified, Fits, Emotional
      <3> HIDE DEF v
      <3>2. v.emotion = NONE /\ NONE \notin Emotional
        BY <1>1, <3>1, RemovedIs, WhimAssumption DEF Emotional
      <3> QED BY <1>1, <2>2, <3>1, <3>2, RemovedIs DEF Ready, OnOffer, Fits
    <2> QED BY <2>1, <2>2
  <1>4. Sent(s, m) = IF v.dirty THEN [v EXCEPT !.dirty = FALSE, !.shown = OnOffer(v)] ELSE v
    BY DEF Sent
  <1> HIDE DEF v
  <1>5. CASE v.dirty
    <2> DEFINE t == [v EXCEPT !.dirty = FALSE, !.shown = OnOffer(v)]
    <2>1. /\ t.shown = OnOffer(v) /\ t.realized = v.realized /\ t.emotion = v.emotion
          /\ t.listed = v.listed
      BY <1>2 DEF Tracker
    <2>2. Sent(s, m) = t
      BY <1>4, <1>5
    <2> HIDE DEF t
    <2> QED BY <1>3, <2>1, <2>2 DEF Real, OnOffer, Fits
  <1>6. CASE ~v.dirty
    BY <1>3, <1>4, <1>6 DEF Real
  <1> QED BY <1>5, <1>6

\* What offer_goals adds is realized, and an emotional whim fits the mood.
LEMMA OffersReal ==
    ASSUME NEW s, Sound(s), NEW m, NEW single, NEW emotionOnly,
           NEW t \in Offers(s, m, single, emotionOnly)
    PROVE  (Real(s, m) => Real(t, m)) /\ (Ready(s, m) => Ready(t, m))
  <1>1. s \in Tracker
    BY DEF Sound
  <1>2. CASE sim = "away"
    BY <1>2 DEF Offers
  <1>3. CASE sim # "away"
    <2>1. PICK n \in NormalChoices(s, single, emotionOnly), e \in EmotionalChoices(s, m) :
             t \in {Realized(s, n, e, last) : last \in IF e = {} THEN {s.emotion} ELSE e}
      BY <1>3 DEF Offers
    <2>2. PICK last \in IF e = {} THEN {s.emotion} ELSE e : t = Realized(s, n, e, last)
      BY <2>1
    <2>3. \A w \in e : Emotion[w] = m
      BY <2>1 DEF EmotionalChoices, Chosen
    <2>4. /\ t.realized = s.realized \cup n \cup e /\ t.emotion = last
          /\ t.listed = s.listed \cup n /\ t.shown = s.shown
          /\ t.dirty = (s.dirty \/ n \cup e # {})
      BY <1>1, <2>2 DEF Realized, Tracker
    <2>5. OnOffer(s) \subseteq s.realized => OnOffer(t) \subseteq t.realized
      BY <2>2, <2>4 DEF OnOffer
    <2>6. (Fits(s, m) => Fits(t, m)) /\ (e # {} => t.dirty)
      BY <2>2, <2>3, <2>4 DEF Fits
    <2>7. e = {} => t.emotion = s.emotion
      BY <2>2, <2>4
    <2>8. ~t.dirty => ~s.dirty /\ e = {}
      BY <2>4
    <2> QED BY <2>4, <2>5, <2>6, <2>7, <2>8 DEF Real, Ready
  <1> QED BY <1>2, <1>3

\* refresh_goals
LEMMA RefreshedReal ==
    ASSUME NEW s, Sound(s), NEW m, NEW single, NEW delay \in BOOLEAN, NEW emotionOnly,
           NEW r \in Refreshed(s, m, single, delay, emotionOnly), Ready(s, m)
    PROVE  Real(r, m)
  <1>1. CASE delay
    <2> DEFINE t == [s EXCEPT !.delayed = @ + 1]
    <2>1. s \in Tracker /\ Accounted(s)
      BY DEF Sound
    <2>2. /\ t \in Tracker /\ t.active = s.active /\ t.chained = s.chained
          /\ t.cooling = s.cooling /\ t.lost = s.lost /\ t.alarm = s.alarm
          /\ t.completed = s.completed
          /\ SameWhims(s, t)
      BY <2>1 DEF Tracker, SameWhims
    <2>3. r = Sent(t, m)
      BY <1>1 DEF Refreshed
    <2> HIDE DEF t
    <2>4. Sound(t) /\ Ready(t, m)
      BY <2>1, <2>2, SameWhimsReal DEF Sound, Accounted, Triggered
    <2> QED BY <2>3, <2>4, SentReal
  <1>2. CASE ~delay
    <2>1. PICK t \in Offers(s, m, single, emotionOnly) : r = Sent(t, m)
      BY <1>2 DEF Refreshed
    <2>2. Sound(t) /\ Ready(t, m)
      BY <2>1, OffersSound, OffersReal
    <2> QED BY <2>1, <2>2, SentReal
  <1> QED BY <1>1, <1>2

\* A tracker that is about to be sent only has to hold what is realized.
LEMMA DirtyReady ==
    ASSUME NEW s \in Tracker, OnOffer(s) \subseteq s.realized, NEW m
    PROVE  Ready([s EXCEPT !.dirty = TRUE], m)
  <1> DEFINE t == [s EXCEPT !.dirty = TRUE]
  <1>1. t.dirty = TRUE /\ t.realized = s.realized /\ t.listed = s.listed
        /\ t.emotion = s.emotion
    BY DEF Tracker
  <1> HIDE DEF t
  <1>2. Ready(t, m)
    BY <1>1 DEF Ready, OnOffer
  <1> QED BY <1>2 DEF t

\* dismiss_whim
LEMMA DismissedReal ==
    ASSUME NEW s, Sound(s), OnOffer(s) \subseteq s.realized, NEW m, NEW w \in WhimSet,
           NEW r \in Dismissed(s, m, w)
    PROVE  Real(r, m)
  <1> DEFINE first == IF w \in s.realized THEN Removed(s, w) ELSE s
             gone == [first EXCEPT !.dirty = TRUE]
  <1>1. s \in Tracker
    BY DEF Sound
  <1>2. Sound(first)
    BY RemovedSound
  <1>3. OnOffer(first) \subseteq first.realized
    <2>1. CASE w \in s.realized
      BY <1>1, <2>1, RemovedIs DEF OnOffer
    <2>2. CASE w \notin s.realized
      BY <2>2
    <2> QED BY <2>1, <2>2
  <1>4. PICK delay \in BOOLEAN :
           r \in Refreshed(gone, m, TRUE, delay, w \in s.realized /\ s.emotion = w)
    BY DEF Dismissed, Delays
  <1> HIDE DEF first
  <1>5. Sound(gone) /\ Ready(gone, m)
    BY <1>2, <1>3, DirtySound, DirtyReady DEF Sound
  <1> QED BY <1>4, <1>5, RefreshedReal

\* complete_milestone and activate_set
LEMMA TriggersReal ==
    ASSUME NEW s, Sound(s), NEW m, Real(s, m), NEW w \in WhimSet, NEW r \in Triggers(s, m, w)
    PROVE  Real(r, m)
  <1> DEFINE done == [s EXCEPT !.completed = @ \cup {w}]
  <1>1. s \in Tracker /\ Accounted(s)
    BY DEF Sound
  <1>2. /\ done \in Tracker /\ done.active = s.active /\ done.chained = s.chained
        /\ done.cooling = s.cooling /\ done.lost = s.lost /\ done.alarm = s.alarm
        /\ done.completed = s.completed \cup {w} /\ SameWhims(s, done)
    BY <1>1 DEF Tracker, SameWhims
  <1> HIDE DEF done
  <1>3. CASE w \in s.cooling
    BY <1>2, <1>3, SameWhimsReal DEF Triggers, done
  <1>4. CASE w \notin s.cooling
    <2> DEFINE t == Activated(done, w)
    <2>1. Ready(t, m)
      BY <1>2, RealIsReady, SameWhimsReal, SetsLeaveWhims
    <2>2. Sound(t)
      BY <1>1, <1>2, <1>4, ActivatedSound
    <2> HIDE DEF t
    <2>3. PICK delay \in BOOLEAN : r \in Refreshed(t, m, TRUE, delay, FALSE)
      BY <1>4 DEF Triggers, Delays, done, t
    <2> QED BY <2>1, <2>2, <2>3, RefreshedReal
  <1> QED BY <1>3, <1>4

\* _on_goal_completed
LEMMA CompletedReal ==
    ASSUME NEW s, Sound(s), NEW m, Real(s, m), NEW w \in WhimSet, NEW r \in Completed(s, m, w)
    PROVE  Real(r, m)
  <1>1. PICK t \in Over(s, w) : r \in Achieved(t, m, w)
    BY DEF Completed
  <1>2. s \in Tracker
    BY DEF Sound
  <1>3. Sound(t) /\ Real(t, m)
    <2>1. t = s \/ \E p \in BOOLEAN : t = TimedOut(s, w, p)
      BY <1>1 DEF Over, Retest
    <2> QED BY <1>2, <2>1, SoundIsSoundBut, TimedOutSound, SetsLeaveWhims, SameWhimsReal
  <1> DEFINE c == Chained(t, w)
             gone == [Gone(c, w) EXCEPT !.dirty = TRUE]
  <1>4. t \in Tracker
    BY <1>3 DEF Sound
  <1>5. Sound(c) /\ Real(c, m)
    BY <1>3, <1>4, ChainedSound, SetsLeaveWhims, SameWhimsReal
  <1>6. PICK delay \in BOOLEAN : r \in Refreshed(gone, m, TRUE, delay, FALSE)
    BY <1>1 DEF Achieved, Delays
  <1> HIDE DEF c
  <1>7. Sound(gone) /\ Ready(gone, m)
    BY <1>5, GoneSound, DirtySound, GoneReady DEF Sound, Real
  <1> QED BY <1>6, <1>7, RefreshedReal

\* load_whims_info_from_proto of whims that are not realized
LEMMA LoadedReady ==
    ASSUME NEW s, Sound(s), NEW m, Real(s, m), saved \subseteq WhimSet,
           saved \cap s.realized = {}, NEW t \in Loaded(s)
    PROVE  Ready(t, m)
  <1>1. s \in Tracker
    BY DEF Sound
  <1>2. PICK ws \in SUBSET saved, last \in saved \cup {s.emotion}, kept \in SUBSET s.listed :
           t = Held(s, ws, last, kept) /\ last \in ws \cup {s.emotion}
    BY LoadedHeld
  <1>3. /\ t.realized = s.realized \cup ws /\ t.emotion = last
        /\ t.listed = kept \cup (ws \ (Emotional \cup {last})) /\ t.shown = s.shown
    BY <1>1, <1>2 DEF Held, Tracker
  <1>4. OnOffer(t) \subseteq t.realized
    BY <1>2, <1>3 DEF Real, OnOffer
  <1>5. Fits(t, m) \/ t.emotion \notin t.shown
    BY <1>3 DEF Real, Fits
  <1> QED BY <1>3, <1>4, <1>5 DEF Real, Ready

-----------------------------------------------------------------------------
\* What is on offer is real in every mood and phase; while the saved whims load, those
\* that are realized already are still to be dismissed.
OfferInv ==
    /\ Real(whims, mood)
    /\ sim = "loading" /\ saved # NONE => whims.realized \cap saved \subseteq stale

LEMMA InitOffer == Init => OfferInv
  <1> SUFFICES ASSUME Init PROVE OfferInv
    OBVIOUS
  <1>1. Real(Fresh, mood)
    BY WhimAssumption DEF Fresh, Real, Fits, Emotional, OnOffer
  <1> QED BY <1>1 DEF Init, OfferInv

LEMMA NextOffer == Inv /\ OfferInv /\ [Next]_vars => OfferInv'
  <1> SUFFICES ASSUME Inv, OfferInv, [Next]_vars PROVE OfferInv'
    OBVIOUS
  <1>0. /\ Sound(whims) /\ whims \in Tracker /\ Real(whims, mood)
        /\ OnOffer(whims) \subseteq whims.realized
        /\ whims.realized \subseteq WhimSet /\ whims.emotion \in WhimSet \cup {NONE}
        /\ saved # NONE => saved \subseteq WhimSet
    BY DEF Inv, TypeOK, SetsAccounted, Sound, Tracker, OfferInv, Real
  \* Outside of the loading what is on offer is all there is to keep.
  <1>a. ASSUME Real(whims', mood), sim # "loading", UNCHANGED <<mood, sim>> PROVE OfferInv'
    BY <1>a DEF OfferInv, Real, Fits, OnOffer
  <1>1. ASSUME NEW w \in WhimSet, MilestoneCompletes(w) PROVE OfferInv'
    BY <1>0, <1>1, <1>a, TriggersReal DEF MilestoneCompletes, Hears
  <1>2. ASSUME NEW w \in WhimSet, Expire(w) PROVE OfferInv'
    <2> DEFINE s == [whims EXCEPT !.alarm[w] = "none"]
    <2>1. s \in Tracker /\ SameWhims(whims, s)
      BY <1>0 DEF Tracker, SameWhims
    <2> HIDE DEF s
    <2>2. PICK passes \in BOOLEAN : whims' = TimedOut(s, w, passes)
      BY <1>2 DEF Expire, Retest, s
    <2>3. Real(whims', mood)
      BY <1>0, <2>1, <2>2, SetsLeaveWhims, SameWhimsReal
    <2> QED BY <1>2, <1>a, <2>3 DEF Expire, Idle
  <1>3. ASSUME NEW w \in WhimSet, FinishCooldown(w) PROVE OfferInv'
    <2>1. SameWhims(whims, whims')
      BY <1>0, <1>3 DEF FinishCooldown, Tracker, SameWhims
    <2> QED BY <1>0, <1>3, <1>a, <2>1, SameWhimsReal DEF FinishCooldown, Idle
  <1>4. ASSUME NEW w \in WhimSet, GoalCompletes(w) PROVE OfferInv'
    <2>1. PICK s : /\ s = whims \/ \E u \in WhimSet : s \in Triggers(whims, mood, u)
                   /\ whims' \in Completed(s, mood, w)
      BY <1>4 DEF GoalCompletes
    <2>2. Sound(s) /\ Real(s, mood)
      BY <1>0, <2>1, TriggersSound, TriggersReal
    <2>3. Real(whims', mood)
      BY <2>1, <2>2, CompletedReal
    <2> QED BY <1>4, <1>a, <2>3 DEF GoalCompletes, Hears
  <1>5. ASSUME NEW w \in WhimSet, GoalProgresses(w) PROVE OfferInv'
    <2> DEFINE t == [whims EXCEPT !.dirty = TRUE]
    <2>1. Sound(t) /\ Ready(t, mood)
      BY <1>0, DirtySound, DirtyReady
    <2> HIDE DEF t
    <2>2. Real(whims', mood)
      BY <1>5, <2>1, SentReal DEF GoalProgresses, t
    <2> QED BY <1>5, <1>a, <2>2 DEF GoalProgresses, Hears
  <1>6. ASSUME NEW w \in WhimSet, Dismiss(w) PROVE OfferInv'
    BY <1>0, <1>6, <1>a, DismissedReal DEF Dismiss, Idle
  <1>7. ASSUME NEW w \in WhimSet, DismissStale(w) PROVE OfferInv'
    <2>1. Real(whims', mood)
      BY <1>0, <1>7, DismissedReal DEF DismissStale
    <2> QED BY <1>7, <2>1 DEF DismissStale, OfferInv, Real, Fits, OnOffer
  <1>8. ASSUME NEW m \in Mood, MoodChanges(m) PROVE OfferInv'
    <2> DEFINE w == whims.emotion
               first == IF w # NONE /\ Emotion[w] # m THEN Dismissed(whims, m, w)
                        ELSE {Sent([whims EXCEPT !.dirty = TRUE], m)}
    <2>1. PICK s \in first : whims' \in Offers(s, m, FALSE, TRUE)
      BY <1>8 DEF MoodChanges
    <2>2. Sound(s) /\ Real(s, m)
      <3>1. CASE w # NONE /\ Emotion[w] # m
        BY <1>0, <2>1, <3>1, DismissedSound, DismissedReal
      <3>2. CASE ~(w # NONE /\ Emotion[w] # m)
        <4>1. s = Sent([whims EXCEPT !.dirty = TRUE], m)
          BY <2>1, <3>2
        <4>2. Sound([whims EXCEPT !.dirty = TRUE]) /\ Ready([whims EXCEPT !.dirty = TRUE], m)
          BY <1>0, DirtySound, DirtyReady
        <4> QED BY <4>1, <4>2, SentSound, SentReal
      <3> QED BY <3>1, <3>2
    <2>3. Real(whims', m)
      BY <2>1, <2>2, OffersReal
    <2> QED BY <1>8, <2>3 DEF MoodChanges, Hears, OfferInv, Real, Fits, OnOffer
  <1>9. CASE DelayedOffer
    <2>1. PICK t \in Offers(whims, mood, TRUE, FALSE) :
             whims' = [Sent(t, mood) EXCEPT !.delayed = @ - 1]
      BY <1>9 DEF DelayedOffer
    <2>2. Sound(t) /\ Real(t, mood)
      BY <1>0, <2>1, OffersSound, OffersReal
    <2> DEFINE r == Sent(t, mood)
    <2>3. Sound(r) /\ Real(r, mood)
      BY <2>2, SentSound, SentReal, RealIsReady
    <2> HIDE DEF r
    <2>4. whims' = [r EXCEPT !.delayed = @ - 1]
      BY <2>1 DEF r
    <2>5. SameWhims(r, whims')
      BY <2>3, <2>4 DEF Sound, Tracker, SameWhims
    <2> QED BY <1>9, <1>a, <2>3, <2>5, SameWhimsReal DEF DelayedOffer, Idle
  <1>10. CASE Regenerate
    BY <1>0, <1>10, <1>a, RefreshedReal, RealIsReady DEF Regenerate
  <1>11. CASE Save
    <2>1. SameWhims(whims, whims')
      BY <1>0, <1>11 DEF Save, Tracker, SameWhims
    <2> QED BY <1>0, <1>11, <1>a, <2>1, SameWhimsReal DEF Save, Idle
  <1>12. CASE SimAppears
    BY <1>12 DEF SimAppears, OfferInv, Real, Fits, OnOffer
  <1>13. CASE StartLoading
    BY <1>13 DEF StartLoading, OfferInv, Real, Fits, OnOffer
  <1>14. CASE SimStarts
    <2>1. PICK s : /\ IF saved = NONE THEN s = whims ELSE s \in Loaded(whims)
                   /\ whims' \in Refreshed(s, mood, FALSE, FALSE, FALSE)
      BY <1>14 DEF SimStarts
    <2>2. saved # NONE => saved \cap whims.realized = {}
      BY <1>14 DEF SimStarts, OfferInv
    <2>3. Sound(s) /\ Ready(s, mood)
      <3>1. CASE saved = NONE
        BY <1>0, <2>1, <3>1, RealIsReady
      <3>2. CASE saved # NONE
        BY <1>0, <2>1, <2>2, <3>2, LoadedSound, LoadedReady
      <3> QED BY <3>1, <3>2
    <2>4. Real(whims', mood)
      BY <2>1, <2>3, RefreshedReal
    <2>5. mood' = mood /\ saved' = NONE
      BY <1>14 DEF SimStarts
    <2> QED BY <2>4, <2>5 DEF OfferInv, Real, Fits, OnOffer
  <1>15. CASE SimLeaves
    BY <1>15 DEF SimLeaves, OfferInv, Real, Fits, OnOffer
  <1>16. CASE UNCHANGED vars
    BY <1>16 DEF vars, OfferInv, Real, Fits, OnOffer
  <1> QED BY <1>1, <1>2, <1>3, <1>4, <1>5, <1>6, <1>7, <1>8, <1>9, <1>10, <1>11, <1>12,
             <1>13, <1>14, <1>15, <1>16 DEF Next

\* Whatever is triggered, completed, dismissed, offered late or loaded, in whatever
\* mood: the slots and the client hold only whims that are realized, and an
\* emotional whim fits the mood.
THEOREM OfferStaysReal == Spec => []OnOfferIsReal
  <1>1. OfferInv => OnOfferIsReal
    BY DEF OfferInv, OnOfferIsReal, Real, Fits, OnOffer
  <1> QED BY <1>1, InitInv, NextInv, InitOffer, NextOffer, PTL DEF Spec
=============================================================================
