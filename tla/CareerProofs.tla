----------------------------- MODULE CareerProofs -----------------------------
(***************************************************************************)
(* That a shift is paid once at its end, and that a shift that has begun   *)
(* ends, for any careers, schedules and answers of the player.             *)
(***************************************************************************)
EXTENDS Career, WellFoundedInduction, TLAPS

-----------------------------------------------------------------------------
(* The schedule                                                            *)

\* Of some numbers one is the least.
LEMMA LeastNumber ==
    ASSUME NEW T \in SUBSET Nat, T # {}
    PROVE  \E x \in T : \A y \in T : x <= y
  <1> DEFINE R == {p \in Nat \X Nat : p[1] < p[2]}
  <1>1. IsWellFoundedOn(R, Nat)
    BY NatLessThanWellFounded DEF OpToRel
  <1> HIDE DEF R
  <1>2. PICK x \in T : \A y \in T : <<y, x>> \notin R
    BY <1>1, WFMin
  <1>3. \A y \in T : ~(y < x)
    BY <1>2 DEF R
  <1> QED BY <1>2, <1>3

\* What the time of the week is taken of.
LEMMA WeekTime ==
    /\ 0 \in TimeOfWeek
    /\ \A x \in TimeOfWeek : x % Week = x
    /\ \A x \in Int : x % Week \in TimeOfWeek
    /\ \A x \in TimeOfWeek : (x + 1) % Week = IF x + 1 = Week THEN 0 ELSE x + 1
  <1>1. Week \in Nat /\ Week > 0
    BY WeekAssumption
  <1>2. \A x \in Int : x % Week \in 0 .. Week - 1
    BY <1>1
  <1>3. \A x \in 0 .. Week - 1 : x % Week = x
    BY <1>1
  <1>4. Week % Week = 0
    BY <1>1
  <1>5. \A x \in 0 .. Week - 1 : (x + 1) % Week = IF x + 1 = Week THEN 0 ELSE x + 1
    BY <1>1, <1>3, <1>4
  <1> QED BY <1>1, <1>2, <1>3, <1>5 DEF TimeOfWeek

\* Each tick brings a time nearer, until it is there.
LEMMA TicksToPasses ==
    ASSUME NEW now \in TimeOfWeek, NEW time \in TimeOfWeek
    PROVE  /\ TicksTo(now, time) \in TimeOfWeek
           /\ TicksTo(now, time) # 0 =>
                 TicksTo((now + 1) % Week, time) = TicksTo(now, time) - 1
           /\ TicksTo(now, now) = 0
  <1>1. /\ Week \in Nat /\ now \in 0 .. Week - 1 /\ time \in 0 .. Week - 1
        /\ time % Week = time /\ now % Week = now
        /\ (now + 1) % Week = IF now + 1 = Week THEN 0 ELSE now + 1
    BY WeekAssumption, WeekTime DEF TimeOfWeek
  <1> QED BY <1>1 DEF TicksTo, TimeOfWeek

\* The alarm for the next shift is set for a later time, a week later at most.
LEMMA NextAlarmType ==
    ASSUME NEW now \in TimeOfWeek, NEW entries \in SUBSET Entry, entries # {}
    PROVE  NextAlarm(now, entries, FALSE) \in 1 .. Week
  <1> DEFINE till(e) == TicksTill(now, e, FALSE, 0)
  <1>1. Week \in Nat /\ now \in 0 .. Week - 1
    BY WeekAssumption DEF TimeOfWeek
  <1>2. \A e \in entries : e.start \in 0 .. Week - 1
    BY DEF Entry, TimeOfWeek
  <1>3. \A e \in entries : till(e) \in 1 .. Week
    BY <1>1, <1>2 DEF TicksTill
  <1> HIDE DEF till
  <1>4. PICK least \in {till(e) : e \in entries} : \A n \in {till(e) : e \in entries} : least <= n
    <2>1. {till(e) : e \in entries} \subseteq Nat
      BY <1>1, <1>3
    <2>2. {till(e) : e \in entries} # {}
      OBVIOUS
    <2> QED BY <2>1, <2>2, LeastNumber
  <1>5. \E e \in entries : IsNext(now, entries, FALSE, e)
    BY <1>4 DEF IsNext, till
  <1>6. NextEvent(now, entries, FALSE) \in entries
    BY <1>5 DEF NextEvent, IsNext
  <1>7. TicksUntilNext(now, entries, FALSE) = till(NextEvent(now, entries, FALSE))
    BY DEF TicksUntilNext, till
  <1>8. NextAlarm(now, entries, FALSE) = till(NextEvent(now, entries, FALSE))
    BY <1>7 DEF NextAlarm
  <1> QED BY <1>3, <1>6, <1>8

-----------------------------------------------------------------------------
(* The inductive invariant                                                 *)

\* A job at a level its track has. Time does not pass for who is at work without
\* a session, since the interaction is cancelled, and until it does no session
\* begins.
Holds(work, job) ==
    /\ job.level < Levels[job.track]
    /\ job.attended => job.session # NONE /\ job.listeners > 0
    /\ job.session = NONE => job.endAlarm = NONE
    /\ job.lateAlarm # NONE => job.session # NONE /\ ~job.attended
    /\ work = "running" =>
          \/ job.interaction /\ job.session # NONE /\ job.listeners > 0
          \/ job.session = NONE /\ job.workAlarm # 0

\* The session is going to end.
Timed(now, work, job) ==
    job.session # NONE /\ ~job.untimed =>
        \/ job.endAlarm # NONE /\ job.endAlarm = TicksTo(now, job.session.end) + 1
        \/ job.endAlarm = 0
        \/ job.interaction /\ work = "running"

JobFits(now, work, job) == Holds(work, job) /\ Timed(now, work, job)

PastFits(past) == past # NONE => past.level < Levels[past.track]

\* A shift is not paid before its session ends, but for the commands to leave it
\* that came before the Sim.
Unpaid(job) ==
    /\ job.pays <= job.astray + 1
    /\ job.session # NONE => job.pays = job.astray

Fits(s, c) ==
    /\ JobFits(s.now, s.work[c], s.job[c]) /\ PastFits(s.history[c]) /\ Unpaid(s.job[c])
    /\ c \notin s.joined => s.job[c].session = NONE /\ s.job[c].workAlarm = NONE

Retired(s) == s.retired # NONE => s.joined = {} /\ s.history[s.retired] # NONE

IInv(s) == s \in SimState /\ (\A c \in Career : Fits(s, c)) /\ Retired(s)

-----------------------------------------------------------------------------
(* What handlers of one career leave alone                                 *)

Only(s, t, c) ==
    /\ t \in SimState
    /\ t.now = s.now /\ t.retired = s.retired
    /\ t.joined \subseteq s.joined
    /\ s.history[c] # NONE => t.history[c] # NONE
    /\ \A d \in Career \ {c} :
          /\ t.job[d] = s.job[d] /\ t.history[d] = s.history[d] /\ t.work[d] = s.work[d]
          /\ d \in s.joined => d \in t.joined

LEMMA OnlyStep ==
    ASSUME NEW s, IInv(s), NEW c \in Career, NEW t, Only(s, t, c), Fits(t, c)
    PROVE  IInv(t)
  <1>1. \A d \in Career : Fits(t, d)
    BY DEF IInv, Only, Fits
  <1>2. Retired(t)
    BY DEF IInv, Only, Retired, SimState
  <1> QED BY <1>1, <1>2 DEF IInv, Only

LEMMA OnlyAgain ==
    ASSUME NEW s, NEW c \in Career, NEW t, Only(s, t, c), NEW u, Only(t, u, c)
    PROVE  Only(s, u, c)
  BY DEF Only

WithJob(s, c, job) == [s EXCEPT !.job = [s.job EXCEPT ![c] = job]]

LEMMA WithJobDoes ==
    ASSUME NEW s \in SimState, NEW c \in Career, NEW job \in JobState
    PROVE  LET t == WithJob(s, c, job) IN
           /\ Only(s, t, c) /\ t.job[c] = job
           /\ t.joined = s.joined /\ t.history = s.history /\ t.work = s.work
           /\ t.away = s.away /\ t.instanced = s.instanced
  <1> DEFINE jobs == [s.job EXCEPT ![c] = job]
             t == [s EXCEPT !.job = jobs]
  <1>1. /\ jobs \in [Career -> JobState] /\ jobs[c] = job
        /\ \A d \in Career \ {c} : jobs[d] = s.job[d]
    BY DEF SimState
  <1> HIDE DEF jobs
  <1>2. /\ t \in SimState /\ t.job = jobs /\ t.now = s.now /\ t.retired = s.retired
        /\ t.joined = s.joined /\ t.history = s.history /\ t.work = s.work
        /\ t.away = s.away /\ t.instanced = s.instanced
    BY <1>1 DEF SimState
  <1>3. t = WithJob(s, c, job)
    BY DEF WithJob, jobs
  <1> HIDE DEF t
  <1>4. Only(s, t, c)
    BY <1>1, <1>2 DEF Only
  <1> QED BY <1>1, <1>2, <1>3, <1>4

\* career_stop
LEMMA CareerStopDoes ==
    ASSUME NEW s \in SimState, NEW c \in Career
    PROVE  \E job \in JobState :
             /\ CareerStop(s, c) = WithJob(s, c, job)
             /\ job.workAlarm = NONE /\ job.endAlarm = NONE /\ job.lateAlarm = NONE
             /\ job.untimed <=> s.job[c].session # NONE
             /\ job.track = s.job[c].track /\ job.level = s.job[c].level
             /\ job.pending = s.job[c].pending /\ job.offered = s.job[c].offered
             /\ job.session = s.job[c].session /\ job.attended = s.job[c].attended
             /\ job.interaction = s.job[c].interaction
             /\ job.listeners = s.job[c].listeners /\ job.pays = s.job[c].pays
             /\ job.astray = s.job[c].astray
  <1> DEFINE b == s.job[c].session # NONE
             job == [s.job[c] EXCEPT !.workAlarm = NONE, !.endAlarm = NONE,
                                     !.lateAlarm = NONE, !.untimed = b]
  <1>0. b \in BOOLEAN /\ (b <=> s.job[c].session # NONE)
    OBVIOUS
  <1>1. s.job[c] \in JobState
    BY DEF SimState
  <1>2. CareerStop(s, c) = WithJob(s, c, job)
    BY <1>1 DEF CareerStop, WithJob, SimState, JobState
  <1> HIDE DEF b
  <1>3. job \in JobState
    BY <1>0, <1>1 DEF JobState, Alarm
  <1>4. /\ job.workAlarm = NONE /\ job.endAlarm = NONE /\ job.lateAlarm = NONE
        /\ job.untimed = b
        /\ job.track = s.job[c].track /\ job.level = s.job[c].level
        /\ job.pending = s.job[c].pending /\ job.offered = s.job[c].offered
        /\ job.session = s.job[c].session /\ job.attended = s.job[c].attended
        /\ job.interaction = s.job[c].interaction
        /\ job.listeners = s.job[c].listeners /\ job.pays = s.job[c].pays
        /\ job.astray = s.job[c].astray
    BY <1>1 DEF JobState
  <1> HIDE DEF job
  <1> QED BY <1>0, <1>2, <1>3, <1>4

\* career_start sets the alarm for the next shift.
LEMMA CareerStartDoes ==
    ASSUME NEW s \in SimState, NEW c \in Career
    PROVE  \E n \in 1 .. Week :
             LET job == [s.job[c] EXCEPT !.workAlarm = n]
             IN  job \in JobState /\ CareerStart(s, c) = WithJob(s, c, job)
  <1> DEFINE n == NextAlarm(s.now, Shift[c], FALSE)
             job == [s.job[c] EXCEPT !.workAlarm = n]
  <1>1. s.now \in TimeOfWeek /\ s.job[c] \in JobState
    BY DEF SimState
  <1>2. Shift[c] \in SUBSET Entry /\ Shift[c] # {}
    BY CareerAssumption
  <1>3. n \in 1 .. Week
    BY <1>1, <1>2, NextAlarmType
  <1>4. CareerStart(s, c) = WithJob(s, c, job)
    BY DEF CareerStart, WithJob
  <1> HIDE DEF n
  <1>5. n \in Alarm
    BY <1>3, WeekAssumption DEF Alarm
  <1>6. job \in JobState
    BY <1>1, <1>5 DEF JobState
  <1> QED BY <1>3, <1>4, <1>6

LEMMA UpdateHistoryDoes ==
    ASSUME NEW s \in SimState, NEW c \in Career
    PROVE  LET t == UpdateHistory(s, c) IN
           /\ Only(s, t, c) /\ t.job = s.job /\ t.joined = s.joined /\ t.work = s.work
           /\ t.history[c] = [track |-> s.job[c].track, level |-> s.job[c].level]
           /\ t.history[c] # NONE
  <1> DEFINE past == [track |-> s.job[c].track, level |-> s.job[c].level]
             h == [s.history EXCEPT ![c] = past]
             t == [s EXCEPT !.history = h]
  <1>1. past \in [track : Track, level : Nat]
    BY DEF SimState, JobState
  <1>2. past # NONE
    BY <1>1, CareerAssumption
  <1>3. t = UpdateHistory(s, c)
    BY DEF UpdateHistory
  <1> HIDE DEF past
  <1>4. /\ h \in [Career -> [track : Track, level : Nat] \cup {NONE}] /\ h[c] = past
        /\ \A d \in Career \ {c} : h[d] = s.history[d]
    BY <1>1 DEF SimState
  <1> HIDE DEF h
  <1>5. /\ t \in SimState /\ t.job = s.job /\ t.now = s.now /\ t.retired = s.retired
        /\ t.joined = s.joined /\ t.history = h /\ t.work = s.work
    BY <1>4 DEF SimState
  <1> HIDE DEF t
  <1>6. Only(s, t, c)
    BY <1>2, <1>4, <1>5 DEF Only
  <1> QED BY <1>2, <1>3, <1>4, <1>5, <1>6 DEF past

\* What a change of the level leaves of a job
Keeps(old, new) ==
    /\ new.session = old.session /\ new.attended = old.attended
    /\ new.interaction = old.interaction
    /\ new.listeners = old.listeners /\ new.pays = old.pays
    /\ new.astray = old.astray

\* The career goes on at another level.
Leveled(s, t, c) ==
    /\ Only(s, t, c) /\ t.joined = s.joined /\ t.work = s.work
    /\ Holds(t.work[c], t.job[c]) /\ PastFits(t.history[c])
    /\ Timed(s.now, s.work[c], s.job[c]) => Timed(t.now, t.work[c], t.job[c])
    /\ Keeps(s.job[c], t.job[c])

\* The career is left.
Left(s, t, c) ==
    /\ Only(s, t, c) /\ t.joined = s.joined \ {c} /\ t.work = s.work
    /\ t.job[c] = NoJob(c) /\ PastFits(t.history[c]) /\ t.history[c] # NONE

LEMMA RestartDoes ==
    ASSUME NEW s \in SimState, NEW c \in Career,
           Holds(s.work[c], s.job[c]),
           NEW track \in Track, NEW level \in Nat, level < Levels[track]
    PROVE  Leveled(s, Restart(s, c, track, level), c)
  <1>1. PICK j1 \in JobState :
             /\ CareerStop(s, c) = WithJob(s, c, j1)
             /\ j1.workAlarm = NONE /\ j1.endAlarm = NONE /\ j1.lateAlarm = NONE
             /\ j1.untimed <=> s.job[c].session # NONE
             /\ Keeps(s.job[c], j1)
    BY CareerStopDoes DEF Keeps
  <1> DEFINE s1 == WithJob(s, c, j1)
             j2 == [j1 EXCEPT !.track = track, !.level = level]
             s2 == WithJob(s1, c, j2)
             s3 == UpdateHistory(s2, c)
             t == Restart(s, c, track, level)
  <1>2. Only(s, s1, c) /\ s1.job[c] = j1 /\ s1.joined = s.joined /\ s1.work = s.work
    BY WithJobDoes
  <1>3. t = CareerStart(UpdateHistory([s1 EXCEPT !.job[c] = [@ EXCEPT !.track = track,
                                                                      !.level = level]], c), c)
    BY <1>1 DEF Restart
  <1>4. t = CareerStart(s3, c)
    BY <1>2, <1>3 DEF WithJob
  <1>5. /\ j2 \in JobState /\ Keeps(j1, j2) /\ j2.untimed = j1.untimed
        /\ j2.endAlarm = NONE /\ j2.lateAlarm = NONE
        /\ j2.track = track /\ j2.level = level
    BY <1>1 DEF JobState, Keeps
  <1> HIDE DEF j2, s1
  <1>6. Only(s1, s2, c) /\ s2.job[c] = j2 /\ s2.joined = s1.joined /\ s2.work = s1.work
    <2>1. s1 \in SimState
      BY <1>2 DEF Only
    <2> QED BY <1>5, <2>1, WithJobDoes
  <1> HIDE DEF s2
  <1>7. /\ Only(s2, s3, c) /\ s3.job = s2.job /\ s3.joined = s2.joined /\ s3.work = s2.work
        /\ s3.history[c] = [track |-> track, level |-> level]
    BY <1>5, <1>6, UpdateHistoryDoes DEF Only
  <1> HIDE DEF s3
  <1>8. PICK n \in 1 .. Week :
             LET job == [s3.job[c] EXCEPT !.workAlarm = n]
             IN  job \in JobState /\ CareerStart(s3, c) = WithJob(s3, c, job)
    BY <1>7, CareerStartDoes DEF Only
  <1> DEFINE j4 == [j2 EXCEPT !.workAlarm = n]
  <1>9. j4 \in JobState /\ t = WithJob(s3, c, j4)
    <2>1. s3.job[c] = j2
      BY <1>6, <1>7
    <2>2. j4 \in JobState /\ CareerStart(s3, c) = WithJob(s3, c, j4)
      BY <1>8, <2>1
    <2> HIDE DEF j4, t
    <2> QED BY <1>4, <2>2
  <1>10. /\ Keeps(j2, j4) /\ j4.untimed = j2.untimed /\ j4.workAlarm = n
         /\ j4.endAlarm = NONE /\ j4.lateAlarm = NONE
         /\ j4.track = track /\ j4.level = level
    BY <1>5 DEF JobState, Keeps
  <1> HIDE DEF j4, t
  <1>11. /\ Only(s3, t, c) /\ t.job[c] = j4 /\ t.joined = s3.joined /\ t.work = s3.work
         /\ t.history = s3.history
    <2>1. s3 \in SimState
      BY <1>7 DEF Only
    <2> QED BY <1>9, <2>1, WithJobDoes
  <1>12. Only(s, t, c)
    <2>1. Only(s, s2, c)
      BY <1>2, <1>6, OnlyAgain
    <2>2. Only(s, s3, c)
      BY <1>7, <2>1, OnlyAgain
    <2> QED BY <1>11, <2>2, OnlyAgain
  <1>13. Keeps(s.job[c], j4)
    BY <1>1, <1>5, <1>10 DEF Keeps
  <1>14. Holds(t.work[c], t.job[c]) /\ Timed(t.now, t.work[c], t.job[c])
    <2>1. n # NONE /\ n # 0 /\ n \in Nat
      BY WeekAssumption, CareerAssumption
    <2>2. t.work[c] = s.work[c]
      BY <1>2, <1>6, <1>7, <1>11
    <2>3. j4.untimed <=> j4.session # NONE
      BY <1>1, <1>5, <1>10, <1>13 DEF Keeps
    <2> QED BY <1>10, <1>11, <1>13, <2>1, <2>2, <2>3 DEF Holds, Timed, Keeps
  <1>15. PastFits(t.history[c])
    BY <1>7, <1>11 DEF PastFits
  <1> QED BY <1>2, <1>6, <1>7, <1>11, <1>12, <1>13, <1>14, <1>15 DEF Leveled, t

\* What is noted of the career beside
Beside(old, new) ==
    /\ new \in JobState /\ Keeps(old, new)
    /\ new.track = old.track /\ new.level = old.level /\ new.untimed = old.untimed
    /\ new.workAlarm = old.workAlarm /\ new.endAlarm = old.endAlarm
    /\ new.lateAlarm = old.lateAlarm

LEMMA BesideLeveled ==
    ASSUME NEW s, NEW c \in Career, NEW r, Leveled(s, r, c),
           NEW job, Beside(r.job[c], job)
    PROVE  Leveled(s, WithJob(r, c, job), c)
  <1> DEFINE t == WithJob(r, c, job)
  <1>0. r \in SimState /\ job \in JobState
    BY DEF Leveled, Only, Beside
  <1>1. /\ Only(r, t, c) /\ t.job[c] = job
        /\ t.joined = r.joined /\ t.history = r.history /\ t.work = r.work
    BY <1>0, WithJobDoes
  <1> HIDE DEF t
  <1>2. Only(s, t, c)
    BY <1>1, OnlyAgain DEF Leveled
  <1>3. t.now = r.now
    BY <1>1 DEF Only
  <1>4. Holds(t.work[c], t.job[c])
    BY <1>1 DEF Leveled, Beside, Keeps, Holds
  <1>5. Timed(s.now, s.work[c], s.job[c]) => Timed(t.now, t.work[c], t.job[c])
    BY <1>1, <1>3 DEF Leveled, Beside, Keeps, Timed
  <1>6. Keeps(s.job[c], t.job[c])
    BY <1>1 DEF Leveled, Beside, Keeps
  <1> QED BY <1>1, <1>2, <1>4, <1>5, <1>6 DEF Leveled, t

LEMMA SameLeveled ==
    ASSUME NEW s \in SimState, NEW c \in Career,
           Holds(s.work[c], s.job[c]), PastFits(s.history[c])
    PROVE  Leveled(s, s, c)
  BY DEF Leveled, Only, Keeps

LEMMA PendingBeside ==
    ASSUME NEW job \in JobState, NEW b \in BOOLEAN, NEW tracks \in SUBSET Track
    PROVE  /\ Beside(job, [job EXCEPT !.pending = b])
           /\ Beside(job, [job EXCEPT !.pending = b, !.offered = job.offered \cup tracks])
           /\ Beside(job, [job EXCEPT !.offered = {}])
           /\ Beside(job, [job EXCEPT !.sick = b])
  BY DEF Beside, Keeps, JobState

\* promote
LEMMA PromoteDoes ==
    ASSUME NEW s \in SimState, NEW c \in Career,
           Holds(s.work[c], s.job[c]), PastFits(s.history[c])
    PROVE  Leveled(s, Promote(s, c), c)
  <1> DEFINE job == s.job[c]
  <1>0. job \in JobState /\ job.track \in Track /\ job.level \in Nat
        /\ Branches[job.track] \in SUBSET Track
    BY CareerAssumption DEF SimState, JobState
  <1>1. CASE job.level + 1 < Levels[job.track]
    <2> DEFINE r == Restart(s, c, job.track, job.level + 1)
    <2>1. Leveled(s, r, c)
      BY <1>0, <1>1, RestartDoes
    <2>2. Promote(s, c) = WithJob(r, c, [r.job[c] EXCEPT !.pending = FALSE])
      BY <1>1 DEF Promote, WithJob
    <2> HIDE DEF r
    <2>3. r.job[c] \in JobState
      BY <2>1 DEF Leveled, Only, SimState
    <2>4. Beside(r.job[c], [r.job[c] EXCEPT !.pending = FALSE])
      BY <2>3, PendingBeside
    <2> QED BY <2>1, <2>2, <2>4, BesideLeveled
  <1>2. CASE ~(job.level + 1 < Levels[job.track])
    <2> DEFINE new == [job EXCEPT !.pending = TRUE,
                                  !.offered = job.offered \cup Branches[job.track]]
    <2>1. Promote(s, c) = WithJob(s, c, new)
      BY <1>2 DEF Promote, WithJob
    <2>2. Beside(s.job[c], new)
      BY <1>0, PendingBeside
    <2> HIDE DEF new
    <2> QED BY <2>1, <2>2, SameLeveled, BesideLeveled
  <1> QED BY <1>1, <1>2

\* set_new_career_track
LEMMA SetTrackDoes ==
    ASSUME NEW s \in SimState, NEW c \in Career, NEW track \in Track,
           Holds(s.work[c], s.job[c]), PastFits(s.history[c])
    PROVE  Leveled(s, SetTrack(s, c, track), c)
  <1>0. s.job[c] \in JobState
    BY DEF SimState
  <1>1. CASE track \in Branches[s.job[c].track]
    <2> DEFINE r == Restart(s, c, track, 0)
    <2>0. 0 \in Nat /\ 0 < Levels[track]
      <3>1. Levels[track] \in Nat \ {0}
        BY CareerAssumption
      <3> QED BY <3>1
    <2>1. Leveled(s, r, c)
      BY <2>0, RestartDoes
    <2>2. SetTrack(s, c, track) = WithJob(r, c, [r.job[c] EXCEPT !.pending = FALSE])
      BY <1>1 DEF SetTrack, WithJob
    <2> HIDE DEF r
    <2>3. r.job[c] \in JobState
      BY <2>1 DEF Leveled, Only, SimState
    <2>4. Beside(r.job[c], [r.job[c] EXCEPT !.pending = FALSE])
      BY <2>3, PendingBeside
    <2> QED BY <2>1, <2>2, <2>4, BesideLeveled
  <1>2. CASE track \notin Branches[s.job[c].track]
    <2>1. SetTrack(s, c, track) = WithJob(s, c, [s.job[c] EXCEPT !.pending = TRUE])
      BY <1>2 DEF SetTrack, WithJob
    <2>2. Beside(s.job[c], [s.job[c] EXCEPT !.pending = TRUE])
      BY <1>0, PendingBeside
    <2> QED BY <2>1, <2>2, SameLeveled, BesideLeveled
  <1> QED BY <1>1, <1>2

\* The job of who has none
LEMMA NoJobDoes ==
    ASSUME NEW c \in Career
    PROVE  LET job == NoJob(c) IN
           /\ job \in JobState
           /\ job.session = NONE /\ job.workAlarm = NONE /\ job.endAlarm = NONE
           /\ job.lateAlarm = NONE /\ ~job.attended /\ job.pays = 0 /\ job.astray = 0
           /\ job.track = StartTrack[c] /\ job.level = 0
           /\ \A now, work : JobFits(now, work, job)
           /\ Unpaid(job)
  <1> DEFINE job == NoJob(c)
  <1>0. /\ StartTrack[c] \in Track /\ Levels[StartTrack[c]] \in Nat \ {0}
        /\ JobStartDelay \in Nat /\ NONE # 0
    BY CareerAssumption
  <1>1. /\ job \in JobState
        /\ job.session = NONE /\ job.workAlarm = NONE /\ job.endAlarm = NONE
        /\ job.lateAlarm = NONE /\ job.attended = FALSE /\ job.pays = 0 /\ job.astray = 0
        /\ job.track = StartTrack[c] /\ job.level = 0
    <2> DEFINE new == NewJob(StartTrack[c], 0)
    <2>1. /\ -1 \in -1 .. JobStartDelay /\ JobStartDelay \in -1 .. JobStartDelay
          /\ {} \in SUBSET Track /\ NONE \in Alarm /\ 0 \in Nat
      BY <1>0 DEF Alarm
    <2>2. /\ new \in JobState
          /\ new.session = NONE /\ new.workAlarm = NONE /\ new.endAlarm = NONE
          /\ new.lateAlarm = NONE /\ new.attended = FALSE /\ new.pays = 0 /\ new.astray = 0
          /\ new.track = StartTrack[c] /\ new.level = 0
      BY <1>0, <2>1 DEF NewJob, JobState
    <2>3. job = [new EXCEPT !.delay = -1]
      BY DEF NoJob
    <2> HIDE DEF new, job
    <2> QED BY <2>1, <2>2, <2>3 DEF JobState
  <1> HIDE DEF job
  <1>2. \A now, work : JobFits(now, work, job)
    BY <1>0, <1>1 DEF JobFits, Holds, Timed
  <1>3. Unpaid(job)
    BY <1>1 DEF Unpaid
  <1> QED BY <1>1, <1>2, <1>3 DEF job

\* remove_career
LEMMA RemoveCareerDoes ==
    ASSUME NEW s \in SimState, NEW c \in Career, s.job[c].level < Levels[s.job[c].track]
    PROVE  Left(s, RemoveCareer(s, c), c)
  <1>1. PICK j1 \in JobState :
             /\ CareerStop(s, c) = WithJob(s, c, j1)
             /\ j1.track = s.job[c].track /\ j1.level = s.job[c].level
    BY CareerStopDoes
  <1> DEFINE s1 == WithJob(s, c, j1)
             s2 == UpdateHistory(s1, c)
             t == [s2 EXCEPT !.joined = s2.joined \ {c}, !.job = [s2.job EXCEPT ![c] = NoJob(c)]]
  <1>2. RemoveCareer(s, c) = t
    BY <1>1 DEF RemoveCareer
  <1>3. Only(s, s1, c) /\ s1.job[c] = j1 /\ s1.joined = s.joined /\ s1.work = s.work
    BY WithJobDoes
  <1> HIDE DEF s1
  <1>4. s1 \in SimState
    BY <1>3 DEF Only
  <1>5. /\ Only(s1, s2, c) /\ s2.joined = s1.joined /\ s2.work = s1.work
        /\ s2.history[c] = [track |-> j1.track, level |-> j1.level]
        /\ s2.history[c] # NONE
    BY <1>3, <1>4, UpdateHistoryDoes
  <1> HIDE DEF s2
  <1>6. Only(s, s2, c)
    BY <1>3, <1>5, OnlyAgain
  <1>7. s2 \in SimState /\ s2.joined \in SUBSET Career
    BY <1>6 DEF Only, SimState
  <1>8. /\ t \in SimState
        /\ t.job[c] = NoJob(c) /\ \A d \in Career \ {c} : t.job[d] = s2.job[d]
        /\ t.joined = s2.joined \ {c} /\ t.work = s2.work /\ t.history = s2.history
        /\ t.now = s2.now /\ t.retired = s2.retired
    <2> DEFINE jobs == [s2.job EXCEPT ![c] = NoJob(c)]
    <2>1. /\ jobs \in [Career -> JobState] /\ jobs[c] = NoJob(c)
          /\ \A d \in Career \ {c} : jobs[d] = s2.job[d]
      BY <1>7, NoJobDoes DEF SimState
    <2> HIDE DEF jobs
    <2>2. t = [s2 EXCEPT !.joined = s2.joined \ {c}, !.job = jobs]
      BY DEF jobs
    <2> HIDE DEF t
    <2> QED BY <1>7, <2>1, <2>2 DEF SimState
  <1> HIDE DEF t
  <1>9. Only(s2, t, c)
    BY <1>8 DEF Only
  <1>10. Only(s, t, c)
    BY <1>6, <1>9, OnlyAgain
  <1>11. PastFits(t.history[c])
    BY <1>1, <1>5, <1>8 DEF PastFits
  <1> QED BY <1>2, <1>3, <1>5, <1>8, <1>10, <1>11 DEF Left

LEMMA LeftFits ==
    ASSUME NEW s, NEW c \in Career, NEW t, Left(s, t, c) PROVE Fits(t, c)
  BY NoJobDoes DEF Left, Fits

\* demote
LEMMA DemoteDoes ==
    ASSUME NEW s \in SimState, NEW c \in Career, NEW autoFire \in BOOLEAN,
           Holds(s.work[c], s.job[c]), PastFits(s.history[c])
    PROVE  Leveled(s, Demote(s, c, autoFire), c) \/ Left(s, Demote(s, c, autoFire), c)
  <1> DEFINE level == s.job[c].level
  <1>0. /\ level \in Nat /\ s.job[c].track \in Track /\ level < Levels[s.job[c].track]
        /\ Levels[s.job[c].track] \in Nat
    BY CareerAssumption DEF SimState, JobState, Holds
  <1>1. CASE c \in CanBeFired /\ (autoFire \/ level = 0)
    BY <1>0, <1>1, RemoveCareerDoes DEF Demote
  <1>2. CASE ~(c \in CanBeFired /\ (autoFire \/ level = 0)) /\ level > 0
    <2>1. level - 1 \in Nat /\ level - 1 < Levels[s.job[c].track]
      BY <1>0, <1>2
    <2>2. Demote(s, c, autoFire) = Restart(s, c, s.job[c].track, level - 1)
      BY <1>2 DEF Demote
    <2> QED BY <1>0, <2>1, <2>2, RestartDoes
  <1>3. CASE ~(c \in CanBeFired /\ (autoFire \/ level = 0)) /\ ~(level > 0)
    BY <1>3, SameLeveled DEF Demote
  <1> QED BY <1>1, <1>2, <1>3

\* What a payment leaves of the job of who goes on working
Paid(s, t, c) ==
    /\ Only(s, t, c) /\ t.joined = s.joined /\ t.work = s.work
    /\ Holds(t.work[c], t.job[c]) /\ PastFits(t.history[c])
    /\ Timed(s.now, s.work[c], s.job[c]) => Timed(t.now, t.work[c], t.job[c])
    /\ t.job[c].session = s.job[c].session
    /\ t.job[c].listeners = s.job[c].listeners
    /\ t.job[c].pays = s.job[c].pays + 1 /\ t.job[c].astray = s.job[c].astray

\* handle_career_loot
LEMMA CareerLootDoes ==
    ASSUME NEW s \in SimState, NEW c \in Career, NEW verdict \in Verdict,
           Holds(s.work[c], s.job[c]), PastFits(s.history[c])
    PROVE  Paid(s, CareerLoot(s, c, verdict), c) \/ Left(s, CareerLoot(s, c, verdict), c)
  <1> DEFINE old == s.job[c]
             job == [old EXCEPT !.pays = old.pays + 1]
             p == WithJob(s, c, job)
  <1>0. old \in JobState /\ old.pays \in Nat
    BY DEF SimState, JobState
  <1>1. /\ job \in JobState /\ job.pays = old.pays + 1 /\ job.astray = old.astray
        /\ job.track = old.track /\ job.level = old.level
        /\ job.session = old.session /\ job.attended = old.attended
        /\ job.interaction = old.interaction /\ job.listeners = old.listeners
        /\ job.workAlarm = old.workAlarm /\ job.endAlarm = old.endAlarm
        /\ job.lateAlarm = old.lateAlarm /\ job.untimed = old.untimed
    BY <1>0 DEF JobState
  <1>2. CareerLoot(s, c, verdict) = CASE verdict = "stay"    -> p
                                      [] verdict = "promote" -> Promote(p, c)
                                      [] verdict = "demote"  -> Demote(p, c, FALSE)
                                      [] verdict = "fire"    -> Demote(p, c, TRUE)
    BY DEF CareerLoot, WithJob
  <1> HIDE DEF job
  <1>3. /\ Only(s, p, c) /\ p.job[c] = job
        /\ p.joined = s.joined /\ p.history = s.history /\ p.work = s.work
    BY <1>1, WithJobDoes
  <1> HIDE DEF p
  <1>4. p \in SimState /\ p.now = s.now
    BY <1>3 DEF Only
  <1>5. Holds(p.work[c], p.job[c]) /\ PastFits(p.history[c])
    BY <1>1, <1>3 DEF Holds
  <1>6. Timed(s.now, s.work[c], s.job[c]) => Timed(p.now, p.work[c], p.job[c])
    BY <1>1, <1>3, <1>4 DEF Timed
  <1>7. ASSUME NEW t, Leveled(p, t, c)
        PROVE  Paid(s, t, c)
    <2>1. Only(s, t, c)
      BY <1>3, <1>7, OnlyAgain DEF Leveled
    <2> QED BY <1>1, <1>3, <1>6, <1>7, <2>1 DEF Leveled, Paid, Keeps
  <1>8. ASSUME NEW t, Left(p, t, c)
        PROVE  Left(s, t, c)
    <2>1. Only(s, t, c)
      BY <1>3, <1>8, OnlyAgain DEF Left
    <2> QED BY <1>3, <1>8, <2>1 DEF Left
  <1>9. Leveled(p, p, c) /\ Leveled(p, Promote(p, c), c)
    BY <1>4, <1>5, SameLeveled, PromoteDoes
  <1>10. \A fire \in BOOLEAN : Leveled(p, Demote(p, c, fire), c) \/ Left(p, Demote(p, c, fire), c)
    BY <1>4, <1>5, DemoteDoes
  <1>11. CASE verdict = "stay"
    BY <1>2, <1>7, <1>9, <1>11
  <1>12. CASE verdict = "promote"
    BY <1>2, <1>7, <1>9, <1>12
  <1>13. CASE verdict = "demote"
    <2>1. CareerLoot(s, c, verdict) = Demote(p, c, FALSE)
      BY <1>2, <1>13
    <2> QED BY <1>7, <1>8, <1>10, <2>1
  <1>14. CASE verdict = "fire"
    <2>1. CareerLoot(s, c, verdict) = Demote(p, c, TRUE)
      BY <1>2, <1>14
    <2> QED BY <1>7, <1>8, <1>10, <2>1
  <1> QED BY <1>11, <1>12, <1>13, <1>14 DEF Verdict

\* end_career_session
LEMMA EndSessionDoes ==
    ASSUME NEW s \in SimState, NEW c \in Career
    PROVE  \E job \in JobState :
             /\ EndSession(s, c) = WithJob(s, c, job)
             /\ job.session = NONE /\ job.endAlarm = NONE /\ job.lateAlarm = NONE
             /\ ~job.attended /\ ~job.interaction
             /\ job.track = s.job[c].track /\ job.level = s.job[c].level
             /\ job.workAlarm = s.job[c].workAlarm
             /\ job.pays = s.job[c].pays
             /\ job.astray = s.job[c].astray
  <1> DEFINE old == s.job[c]
             job == [old EXCEPT !.endAlarm = NONE, !.lateAlarm = NONE,
                                !.interaction = FALSE, !.session = NONE,
                                !.attended = FALSE, !.untimed = FALSE]
  <1>1. old \in JobState
    BY DEF SimState
  <1>2. EndSession(s, c) = WithJob(s, c, job)
    BY DEF EndSession, WithJob
  <1>3. job \in JobState
    BY <1>1 DEF JobState, Alarm
  <1>4. /\ job.session = NONE /\ job.endAlarm = NONE /\ job.lateAlarm = NONE
        /\ ~job.attended /\ ~job.interaction
        /\ job.track = old.track /\ job.level = old.level
        /\ job.workAlarm = old.workAlarm /\ job.pays = old.pays
        /\ job.astray = old.astray
    BY <1>1 DEF JobState
  <1> HIDE DEF job
  <1> QED BY <1>2, <1>3, <1>4

\* What closes a session leaves the Sim as it may be.
LEMMA EndSessionFits ==
    ASSUME NEW s \in SimState, NEW c \in Career,
           s.job[c].level < Levels[s.job[c].track], PastFits(s.history[c]),
           s.work[c] # "running", s.job[c].pays <= s.job[c].astray + 1,
           c \notin s.joined => s.job[c].workAlarm = NONE
    PROVE  Only(s, EndSession(s, c), c) /\ Fits(EndSession(s, c), c)
  <1>1. PICK job \in JobState :
             /\ EndSession(s, c) = WithJob(s, c, job)
             /\ job.session = NONE /\ job.endAlarm = NONE /\ job.lateAlarm = NONE
             /\ ~job.attended /\ ~job.interaction
             /\ job.track = s.job[c].track /\ job.level = s.job[c].level
             /\ job.workAlarm = s.job[c].workAlarm
             /\ job.pays = s.job[c].pays
             /\ job.astray = s.job[c].astray
    BY EndSessionDoes
  <1> DEFINE t == WithJob(s, c, job)
  <1>2. /\ Only(s, t, c) /\ t.job[c] = job
        /\ t.joined = s.joined /\ t.history = s.history /\ t.work = s.work
    BY WithJobDoes
  <1> HIDE DEF t
  <1>3. Fits(t, c)
    BY <1>1, <1>2 DEF Fits, JobFits, Holds, Timed, Unpaid
  <1> QED BY <1>1, <1>2, <1>3 DEF t

-----------------------------------------------------------------------------
(* Tones, and the end of the work                                          *)

LEMMA AwayDoes ==
    ASSUME NEW s \in SimState, NEW c, NEW away \in Career \cup {"default", NONE}
    PROVE  LET t == [s EXCEPT !.away = away] IN
           /\ Only(s, t, c) /\ t.job = s.job
           /\ t.joined = s.joined /\ t.history = s.history /\ t.work = s.work
  <1> DEFINE t == [s EXCEPT !.away = away]
  <1>1. /\ t \in SimState /\ t.job = s.job /\ t.now = s.now /\ t.retired = s.retired
        /\ t.joined = s.joined /\ t.history = s.history /\ t.work = s.work
    BY DEF SimState
  <1> HIDE DEF t
  <1>2. Only(s, t, c)
    BY <1>1 DEF Only
  <1> QED BY <1>1, <1>2 DEF t

\* end_tones
LEMMA EndTonesDoes ==
    ASSUME NEW s \in SimState, NEW c \in Career, NEW default \in Default
    PROVE  LET t == EndTones(s, c, default) IN
           /\ Only(s, t, c)
           /\ t.joined = s.joined /\ t.history = s.history /\ t.work = s.work
           /\ t.job[c].track = s.job[c].track /\ t.job[c].level = s.job[c].level
           /\ t.job[c].workAlarm = s.job[c].workAlarm /\ t.job[c].pays = s.job[c].pays
           /\ t.job[c].astray = s.job[c].astray
           /\ t.job[c].session = s.job[c].session /\ t.job[c].attended = s.job[c].attended
           /\ t.job[c].interaction = s.job[c].interaction
           /\ t.job[c].endAlarm = s.job[c].endAlarm /\ t.job[c].lateAlarm = s.job[c].lateAlarm
           /\ t.job[c].untimed = s.job[c].untimed
  <1> DEFINE r == [s EXCEPT !.away = default]
             old == s.job[c]
             n == IF old.listeners > 0 THEN old.listeners - 1 ELSE 0
             job == [old EXCEPT !.listeners = n]
             t == WithJob(r, c, job)
  <1>1. /\ Only(s, r, c) /\ r.job = s.job
        /\ r.joined = s.joined /\ r.history = s.history /\ r.work = s.work
    <2>1. default \in Career \cup {"default", NONE}
      BY CareerAssumption
    <2> QED BY <2>1, AwayDoes
  <1>2. EndTones(s, c, default) = t
    BY <1>1 DEF EndTones, ResetAway, WithJob
  <1>3. r \in SimState /\ old \in JobState
    BY <1>1 DEF Only, SimState
  <1>4. n \in Nat
    BY <1>3 DEF JobState
  <1> HIDE DEF n
  <1>5. /\ job \in JobState /\ job.track = old.track /\ job.level = old.level
        /\ job.workAlarm = old.workAlarm /\ job.pays = old.pays
        /\ job.astray = old.astray
        /\ job.session = old.session /\ job.attended = old.attended
        /\ job.interaction = old.interaction
        /\ job.endAlarm = old.endAlarm /\ job.lateAlarm = old.lateAlarm
        /\ job.untimed = old.untimed
    BY <1>3, <1>4 DEF JobState
  <1> HIDE DEF r, job
  <1>6. /\ Only(r, t, c) /\ t.job[c] = job
        /\ t.joined = r.joined /\ t.history = r.history /\ t.work = r.work
    BY <1>3, <1>5, WithJobDoes
  <1> HIDE DEF t
  <1>7. Only(s, t, c)
    BY <1>1, <1>6, OnlyAgain
  <1> QED BY <1>1, <1>2, <1>5, <1>6, <1>7

\* Not paid but in advance; the command to leave counts before it pays.
Owed(job) == job.pays = job.astray \/ job.pays + 1 = job.astray

\* What leave_work and _end_work_callback need to pay and to end the session
MayEnd(s, c) ==
    /\ s \in SimState
    /\ Holds(s.work[c], s.job[c]) /\ PastFits(s.history[c]) /\ Owed(s.job[c])
    /\ s.work[c] # "running" /\ c \in s.joined /\ s.job[c].session # NONE

\* Who has been paid is at a level the track has.
Looted(s, t, c) ==
    /\ Only(s, t, c) /\ t.work = s.work
    /\ t.job[c].level < Levels[t.job[c].track] /\ PastFits(t.history[c])
    /\ t.job[c].pays <= t.job[c].astray + 1
    /\ c \notin t.joined => t.job[c].workAlarm = NONE

LEMMA LootedFits ==
    ASSUME NEW s, NEW c \in Career, NEW verdict \in Verdict, MayEnd(s, c)
    PROVE  Looted(s, CareerLoot(s, c, verdict), c)
  <1>1. Paid(s, CareerLoot(s, c, verdict), c) \/ Left(s, CareerLoot(s, c, verdict), c)
    BY CareerLootDoes DEF MayEnd
  <1>2. ASSUME NEW t, Paid(s, t, c)
        PROVE  Looted(s, t, c)
    <2>1. s.job[c] \in JobState
      BY DEF MayEnd, SimState
    <2>2. t.job[c].pays <= t.job[c].astray + 1 /\ c \in t.joined
      BY <1>2, <2>1 DEF Paid, MayEnd, Owed, JobState
    <2> QED BY <1>2, <2>2 DEF Looted, Paid, Holds
  <1>3. ASSUME NEW t, Left(s, t, c)
        PROVE  Looted(s, t, c)
    <2>1. /\ t.job[c].workAlarm = NONE /\ t.job[c].pays = 0 /\ t.job[c].astray = 0
          /\ \A now, work : JobFits(now, work, t.job[c])
      BY <1>3, NoJobDoes DEF Left
    <2>2. t.job[c].level < Levels[t.job[c].track]
      BY <2>1 DEF JobFits, Holds
    <2> QED BY <1>3, <2>1, <2>2 DEF Looted, Left
  <1> QED BY <1>1, <1>2, <1>3

\* leave_work ends the session it has paid.
LEMMA LeaveWorkFits ==
    ASSUME NEW s, NEW c \in Career, NEW verdict \in Verdict, NEW default \in Default,
           MayEnd(s, c), s.job[c].listeners > 0
    PROVE  LET t == LeaveWork(s, c, verdict, default) IN Only(s, t, c) /\ Fits(t, c)
  <1> DEFINE paid == CareerLoot(s, c, verdict)
             left == EndTones(paid, c, default)
             t == EndSession(left, c)
  <1>1. LeaveWork(s, c, verdict, default) = t
    <2>1. s.job[c].session # NONE /\ s.job[c].listeners # 0
      BY DEF MayEnd, SimState, JobState
    <2> QED BY <2>1 DEF LeaveWork
  <1>2. /\ Only(s, paid, c) /\ paid.work = s.work
        /\ paid.job[c].level < Levels[paid.job[c].track] /\ PastFits(paid.history[c])
        /\ paid.job[c].pays <= paid.job[c].astray + 1
        /\ c \notin paid.joined => paid.job[c].workAlarm = NONE
    BY LootedFits DEF Looted
  <1> HIDE DEF paid
  <1>3. paid \in SimState
    BY <1>2 DEF Only
  <1>4. /\ Only(paid, left, c)
        /\ left.joined = paid.joined /\ left.history = paid.history /\ left.work = paid.work
        /\ left.job[c].track = paid.job[c].track /\ left.job[c].level = paid.job[c].level
        /\ left.job[c].workAlarm = paid.job[c].workAlarm
        /\ left.job[c].pays = paid.job[c].pays
        /\ left.job[c].astray = paid.job[c].astray
    BY <1>3, EndTonesDoes
  <1> HIDE DEF left
  <1>5. left \in SimState
    BY <1>4 DEF Only
  <1>6. Only(left, t, c) /\ Fits(t, c)
    <2>1. left.work[c] # "running"
      BY <1>2, <1>4 DEF MayEnd
    <2>2. left.job[c].level < Levels[left.job[c].track]
      BY <1>2, <1>4
    <2> QED BY <1>2, <1>4, <1>5, <2>1, <2>2, EndSessionFits
  <1> HIDE DEF t
  <1>7. Only(s, t, c)
    <2>1. Only(s, left, c)
      BY <1>2, <1>4, OnlyAgain
    <2> QED BY <1>6, <2>1, OnlyAgain
  <1> QED BY <1>1, <1>6, <1>7

\* A session nobody came to is paid and ended.
LEMMA MissedFits ==
    ASSUME NEW s, NEW c \in Career, NEW verdict \in Verdict, MayEnd(s, c)
    PROVE  LET t == EndSession(CareerLoot(s, c, verdict), c) IN Only(s, t, c) /\ Fits(t, c)
  <1> DEFINE paid == CareerLoot(s, c, verdict)
             t == EndSession(paid, c)
  <1>1. /\ Only(s, paid, c) /\ paid.work = s.work
        /\ paid.job[c].level < Levels[paid.job[c].track] /\ PastFits(paid.history[c])
        /\ paid.job[c].pays <= paid.job[c].astray + 1
        /\ c \notin paid.joined => paid.job[c].workAlarm = NONE
    BY LootedFits DEF Looted
  <1> HIDE DEF paid
  <1>2. paid \in SimState /\ paid.work[c] # "running"
    BY <1>1 DEF Only, MayEnd
  <1>3. Only(paid, t, c) /\ Fits(t, c)
    BY <1>1, <1>2, EndSessionFits
  <1> HIDE DEF t
  <1>4. Only(s, t, c)
    BY <1>1, <1>3, OnlyAgain
  <1> QED BY <1>3, <1>4 DEF t, paid

\* leave_work of a Sim that has not come: paid, and the session is still open.
LEMMA LeaveWorkFails ==
    ASSUME NEW s, NEW c \in Career, NEW verdict \in Verdict, NEW default \in Default,
           MayEnd(s, c), Timed(s.now, s.work[c], s.job[c]),
           s.job[c].listeners = 0, s.job[c].pays + 1 = s.job[c].astray
    PROVE  LET t == LeaveWork(s, c, verdict, default) IN Only(s, t, c) /\ Fits(t, c)
  <1> DEFINE paid == CareerLoot(s, c, verdict)
             t == EndTones(paid, c, default)
  <1>1. LeaveWork(s, c, verdict, default) = t
    BY DEF LeaveWork, MayEnd
  <1>2. Paid(s, paid, c) \/ Left(s, paid, c)
    BY CareerLootDoes DEF MayEnd
  <1> HIDE DEF paid
  <1>3. Only(s, paid, c) /\ paid.work = s.work /\ PastFits(paid.history[c])
    BY <1>2 DEF Paid, Left
  <1>4. paid \in SimState
    BY <1>3 DEF Only
  <1>5. /\ Holds(paid.work[c], paid.job[c]) /\ Timed(paid.now, paid.work[c], paid.job[c])
        /\ ~paid.job[c].attended /\ Unpaid(paid.job[c])
        /\ c \notin paid.joined => paid.job[c].session = NONE /\ paid.job[c].workAlarm = NONE
    <2>1. CASE Paid(s, paid, c)
      <3>1. /\ Holds(paid.work[c], paid.job[c]) /\ Timed(paid.now, paid.work[c], paid.job[c])
            /\ paid.job[c].listeners = 0 /\ c \in paid.joined
            /\ paid.job[c].pays = s.job[c].pays + 1 /\ paid.job[c].astray = s.job[c].astray
        BY <2>1 DEF Paid, MayEnd
      <3>2. paid.job[c].pays = paid.job[c].astray
        BY <3>1
      <3>3. paid.job[c].pays \in Nat
        BY <1>4 DEF SimState, JobState
      <3> QED BY <3>1, <3>2, <3>3 DEF Holds, Unpaid
    <2>2. CASE Left(s, paid, c)
      BY <2>2, NoJobDoes DEF Left, JobFits
    <2> QED BY <1>2, <2>1, <2>2
  <1>6. paid.work[c] # "running"
    BY <1>3 DEF MayEnd
  <1>7. /\ Only(paid, t, c)
        /\ t.joined = paid.joined /\ t.history = paid.history /\ t.work = paid.work
        /\ t.job[c].track = paid.job[c].track /\ t.job[c].level = paid.job[c].level
        /\ t.job[c].workAlarm = paid.job[c].workAlarm /\ t.job[c].pays = paid.job[c].pays
        /\ t.job[c].astray = paid.job[c].astray
        /\ t.job[c].session = paid.job[c].session /\ t.job[c].attended = paid.job[c].attended
        /\ t.job[c].interaction = paid.job[c].interaction
        /\ t.job[c].endAlarm = paid.job[c].endAlarm
        /\ t.job[c].lateAlarm = paid.job[c].lateAlarm
        /\ t.job[c].untimed = paid.job[c].untimed
    BY <1>4, EndTonesDoes
  <1> HIDE DEF t
  <1>8. t.now = paid.now
    BY <1>7 DEF Only
  <1>9. Holds(t.work[c], t.job[c])
    BY <1>5, <1>6, <1>7 DEF Holds
  <1>10. Timed(t.now, t.work[c], t.job[c])
    BY <1>5, <1>7, <1>8 DEF Timed
  <1>11. Unpaid(t.job[c])
    BY <1>5, <1>7 DEF Unpaid
  <1>12. Fits(t, c)
    BY <1>3, <1>5, <1>7, <1>9, <1>10, <1>11 DEF Fits, JobFits
  <1>13. Only(s, t, c)
    BY <1>3, <1>7, OnlyAgain
  <1> QED BY <1>1, <1>12, <1>13

-----------------------------------------------------------------------------
(* Coming to work                                                          *)

\* attend_work
LEMMA AttendFits ==
    ASSUME NEW s \in SimState, NEW c \in Career, NEW interaction \in BOOLEAN,
           Holds("no", s.job[c]), Timed(s.now, "no", s.job[c]),
           PastFits(s.history[c]), Unpaid(s.job[c]),
           c \in s.joined, s.job[c].session # NONE,
           s.work[c] = "running" => interaction \/ s.job[c].interaction
    PROVE  LET t == Attend(s, c, interaction) IN
           Only(s, t, c) /\ Fits(t, c) /\ t.joined = s.joined
  <1> DEFINE old == s.job[c]
             b == interaction \/ old.interaction
             j1 == [old EXCEPT !.interaction = b]
             j2 == [j1 EXCEPT !.attended = TRUE, !.lateAlarm = NONE]
             j3 == [j2 EXCEPT !.listeners = j2.listeners + 1]
             s1 == WithJob(s, c, j1)
             s2 == WithJob(s1, c, j2)
             s3 == WithJob(s2, c, j3)
             s4 == [s3 EXCEPT !.away = c]
  <1>0. old \in JobState
    BY DEF SimState
  <1>1. b \in BOOLEAN
    BY <1>0 DEF JobState
  <1>2. (IF interaction THEN [s EXCEPT !.job[c].interaction = TRUE] ELSE s) = s1
    <2>1. CASE interaction
      <3>1. b = TRUE
        BY <2>1
      <3> HIDE DEF b
      <3> QED BY <2>1, <3>1 DEF WithJob
    <2>2. CASE ~interaction
      <3>1. b = old.interaction
        BY <1>0, <2>2 DEF JobState
      <3> HIDE DEF b
      <3>2. [old EXCEPT !.interaction = old.interaction] = old
        BY <1>0 DEF JobState
      <3>3. j1 = old
        BY <3>1, <3>2
      <3> HIDE DEF j1
      <3>4. s1 = s
        BY <3>3 DEF WithJob, SimState
      <3> QED BY <2>2, <3>4
    <2> QED BY <2>1, <2>2
  <1>3. Attend(s, c, interaction) = IF s1.job[c].attended THEN s1 ELSE
              StartTones([s1 EXCEPT !.job[c] = [@ EXCEPT !.attended = TRUE,
                                                         !.lateAlarm = NONE]], c)
    <2> HIDE DEF s1, s2, s3, s4, j1, j2, j3, b
    <2> DEFINE noted == IF interaction THEN [s EXCEPT !.job[c].interaction = TRUE] ELSE s
               after(t) == IF t.job[c].attended THEN t
                           ELSE StartTones([t EXCEPT !.job[c] = [@ EXCEPT !.attended = TRUE,
                                                                          !.lateAlarm = NONE]], c)
    <2>1. Attend(s, c, interaction) = after(noted)
      BY DEF Attend
    <2>2. noted = s1
      BY <1>2
    <2> HIDE DEF noted
    <2> QED BY <2>1, <2>2
  <1> HIDE DEF b
  <1>4. /\ j1 \in JobState /\ j1.interaction = b
        /\ j1.track = old.track /\ j1.level = old.level
        /\ j1.session = old.session /\ j1.attended = old.attended
        /\ j1.listeners = old.listeners /\ j1.pays = old.pays
        /\ j1.astray = old.astray
        /\ j1.workAlarm = old.workAlarm /\ j1.endAlarm = old.endAlarm
        /\ j1.lateAlarm = old.lateAlarm /\ j1.untimed = old.untimed
    BY <1>0, <1>1 DEF JobState
  <1> HIDE DEF j1
  <1>5. /\ Only(s, s1, c) /\ s1.job[c] = j1
        /\ s1.joined = s.joined /\ s1.history = s.history /\ s1.work = s.work
    BY <1>4, WithJobDoes
  <1> HIDE DEF s1
  <1>6. s1 \in SimState /\ s1.now = s.now
    BY <1>5 DEF Only
  <1>7. s.work[c] = "running" => b = TRUE
    BY <1>1 DEF b
  <1>8. CASE j1.attended
    <2>1. Attend(s, c, interaction) = s1
      BY <1>3, <1>5, <1>8
    <2>2. Holds(s1.work[c], s1.job[c])
      BY <1>4, <1>5, <1>7, <1>8 DEF Holds
    <2>3. Timed(s1.now, s1.work[c], s1.job[c])
      BY <1>4, <1>5, <1>6 DEF Timed
    <2>4. Fits(s1, c)
      BY <1>4, <1>5, <2>2, <2>3 DEF Fits, JobFits, Unpaid
    <2> QED BY <1>5, <2>1, <2>4
  <1>9. CASE ~j1.attended
    <2>1. Attend(s, c, interaction) = s4
      <3>1. [s1 EXCEPT !.job[c] = [@ EXCEPT !.attended = TRUE, !.lateAlarm = NONE]] = s2
        BY <1>5 DEF WithJob
      <3>2. Attend(s, c, interaction) = StartTones(s2, c)
        BY <1>3, <1>5, <1>9, <3>1
      <3>3. s2.job[c] = j2
        <4>1. j2 \in JobState
          BY <1>4 DEF JobState, Alarm
        <4> HIDE DEF j2
        <4> QED BY <1>6, <4>1, WithJobDoes
      <3> HIDE DEF s2, j2
      <3> QED BY <3>2, <3>3 DEF StartTones, WithJob
    <2>2. /\ j2 \in JobState /\ j2.interaction = b /\ j2.attended /\ j2.lateAlarm = NONE
          /\ j2.track = j1.track /\ j2.level = j1.level
          /\ j2.session = j1.session
          /\ j2.listeners = j1.listeners /\ j2.pays = j1.pays
          /\ j2.astray = j1.astray
          /\ j2.workAlarm = j1.workAlarm /\ j2.endAlarm = j1.endAlarm
          /\ j2.untimed = j1.untimed
      BY <1>4 DEF JobState, Alarm
    <2> HIDE DEF j2
    <2>3. j2.listeners \in Nat
      BY <2>2 DEF JobState
    <2>4. /\ j3 \in JobState /\ j3.interaction = b /\ j3.attended /\ j3.lateAlarm = NONE
          /\ j3.track = j2.track /\ j3.level = j2.level
          /\ j3.session = j2.session
          /\ j3.listeners = j2.listeners + 1 /\ j3.pays = j2.pays
          /\ j3.astray = j2.astray
          /\ j3.workAlarm = j2.workAlarm /\ j3.endAlarm = j2.endAlarm
          /\ j3.untimed = j2.untimed
      BY <2>2, <2>3 DEF JobState
    <2> HIDE DEF j3
    <2>5. /\ Only(s1, s2, c) /\ s2.joined = s1.joined
          /\ s2.history = s1.history /\ s2.work = s1.work
      BY <1>6, <2>2, WithJobDoes
    <2> HIDE DEF s2
    <2>6. s2 \in SimState
      BY <2>5 DEF Only
    <2>7. /\ Only(s2, s3, c) /\ s3.job[c] = j3 /\ s3.joined = s2.joined
          /\ s3.history = s2.history /\ s3.work = s2.work
      BY <2>4, <2>6, WithJobDoes
    <2> HIDE DEF s3
    <2>8. s3 \in SimState
      BY <2>7 DEF Only
    <2>9. /\ Only(s3, s4, c) /\ s4.job = s3.job /\ s4.joined = s3.joined
          /\ s4.history = s3.history /\ s4.work = s3.work
      BY <2>8, AwayDoes
    <2> HIDE DEF s4
    <2>10. Only(s, s4, c)
      <3>1. Only(s, s2, c)
        BY <1>5, <2>5, OnlyAgain
      <3>2. Only(s, s3, c)
        BY <2>7, <3>1, OnlyAgain
      <3> QED BY <2>9, <3>2, OnlyAgain
    <2>11. s4.job[c] = j3 /\ s4.work = s.work /\ s4.history = s.history
           /\ s4.joined = s.joined /\ s4.now = s.now
      BY <1>5, <2>5, <2>7, <2>9, <2>10 DEF Only
    <2>12. Holds(s4.work[c], s4.job[c])
      BY <1>4, <1>7, <2>2, <2>3, <2>4, <2>11 DEF Holds
    <2>13. Timed(s4.now, s4.work[c], s4.job[c])
      BY <1>4, <2>2, <2>4, <2>11 DEF Timed
    <2>14. Fits(s4, c)
      BY <1>4, <2>2, <2>4, <2>11, <2>12, <2>13 DEF Fits, JobFits, Unpaid
    <2> QED BY <2>1, <2>10, <2>11, <2>14
  <1> QED BY <1>8, <1>9

LEMMA WorkDoes ==
    ASSUME NEW s \in SimState, NEW c \in Career, NEW w \in {"no", "queued", "running"}
    PROVE  LET t == [s EXCEPT !.work = [s.work EXCEPT ![c] = w]] IN
           /\ Only(s, t, c) /\ t.work[c] = w /\ t.job = s.job
           /\ t.joined = s.joined /\ t.history = s.history
  <1> DEFINE work == [s.work EXCEPT ![c] = w]
             t == [s EXCEPT !.work = work]
  <1>1. /\ work \in [Career -> {"no", "queued", "running"}] /\ work[c] = w
        /\ \A d \in Career \ {c} : work[d] = s.work[d]
    BY DEF SimState
  <1> HIDE DEF work
  <1>2. /\ t \in SimState /\ t.job = s.job /\ t.now = s.now /\ t.retired = s.retired
        /\ t.joined = s.joined /\ t.history = s.history /\ t.work = work
    BY <1>1 DEF SimState
  <1> HIDE DEF t
  <1>3. Only(s, t, c)
    BY <1>1, <1>2 DEF Only
  <1> QED BY <1>1, <1>2, <1>3 DEF t, work

\* push_go_to_work_affordance
LEMMA PushFits ==
    ASSUME NEW s \in SimState, NEW c \in Career, Fits(s, c)
    PROVE  LET t == PushGoToWork(s, c) IN
           Only(s, t, c) /\ Fits(t, c) /\ t.joined = s.joined
  <1>1. CASE s.instanced /\ s.work[c] = "no" /\ IsWorkTime(s, c)
    <2> DEFINE t == [s EXCEPT !.work = [s.work EXCEPT ![c] = "queued"]]
    <2>1. PushGoToWork(s, c) = t
      BY <1>1 DEF PushGoToWork
    <2>2. /\ Only(s, t, c) /\ t.work[c] = "queued" /\ t.job = s.job
          /\ t.joined = s.joined /\ t.history = s.history
      BY WorkDoes, ZenonT(30)
    <2> HIDE DEF t
    <2>3. Fits(t, c)
      BY <1>1, <2>2 DEF Fits, JobFits, Holds, Timed, Only
    <2> QED BY <2>1, <2>2, <2>3
  <1>2. CASE ~(s.instanced /\ s.work[c] = "no" /\ IsWorkTime(s, c))
    <2>1. PushGoToWork(s, c) = s
      BY <1>2 DEF PushGoToWork
    <2>2. Only(s, s, c)
      BY DEF Only
    <2> QED BY <2>1, <2>2
  <1> QED BY <1>1, <1>2

\* career_start of who has a career
LEMMA CareerStartFits ==
    ASSUME NEW s \in SimState, NEW c \in Career, Fits(s, c), c \in s.joined
    PROVE  LET t == CareerStart(s, c) IN Only(s, t, c) /\ Fits(t, c)
  <1>1. PICK n \in 1 .. Week :
             LET job == [s.job[c] EXCEPT !.workAlarm = n]
             IN  job \in JobState /\ CareerStart(s, c) = WithJob(s, c, job)
    BY CareerStartDoes
  <1> DEFINE job == [s.job[c] EXCEPT !.workAlarm = n]
             t == WithJob(s, c, job)
  <1>2. s.job[c] \in JobState /\ n # 0
    BY WeekAssumption DEF SimState
  <1>3. /\ Keeps(s.job[c], job) /\ job.track = s.job[c].track /\ job.level = s.job[c].level
        /\ job.untimed = s.job[c].untimed /\ job.workAlarm = n
        /\ job.endAlarm = s.job[c].endAlarm /\ job.lateAlarm = s.job[c].lateAlarm
    BY <1>2 DEF Keeps, JobState
  <1>4. job \in JobState /\ CareerStart(s, c) = t
    BY <1>1
  <1> HIDE DEF job
  <1>5. /\ Only(s, t, c) /\ t.job[c] = job
        /\ t.joined = s.joined /\ t.history = s.history /\ t.work = s.work
    BY <1>4, WithJobDoes
  <1> HIDE DEF t
  <1>6. t.now = s.now
    BY <1>5 DEF Only
  <1>7. Holds(t.work[c], t.job[c])
    BY <1>2, <1>3, <1>5 DEF Fits, JobFits, Holds, Keeps
  <1>8. Timed(t.now, t.work[c], t.job[c])
    BY <1>3, <1>5, <1>6 DEF Fits, JobFits, Timed, Keeps
  <1>9. Fits(t, c)
    BY <1>3, <1>5, <1>7, <1>8 DEF Fits, JobFits, Unpaid, Keeps
  <1> QED BY <1>4, <1>5, <1>9

LEMMA SessionExists ==
    ASSUME NEW session \in Session PROVE session # NONE
  <1>1. Session \subseteq [start : TimeOfWeek, end : TimeOfWeek, age : Nat]
    BY DEF Session
  <1> QED BY <1>1, CareerAssumption

\* The alarms of a session are set for its end.
Alarmed(now, old, new) ==
    /\ new \in JobState /\ Keeps(old, new)
    /\ new.track = old.track /\ new.level = old.level /\ new.untimed = old.untimed
    /\ new.workAlarm = old.workAlarm
    /\ new.endAlarm = TicksTo(now, old.session.end) + 1 /\ new.endAlarm # NONE
    /\ new.lateAlarm # NONE => old.lateAlarm # NONE \/ ~old.attended

\* _create_work_session_alarms
LEMMA WithSessionAlarmsDoes ==
    ASSUME NEW s \in SimState, NEW c \in Career, s.job[c].session # NONE
    PROVE  \E job : Alarmed(s.now, s.job[c], job) /\ WithSessionAlarms(s, c) = WithJob(s, c, job)
  <1> DEFINE old == s.job[c]
             end == TicksTo(s.now, old.session.end) + 1
             late == IF ~old.attended /\ old.session.age < LateAfter[c]
                     THEN LateAfter[c] - old.session.age + 1 ELSE old.lateAlarm
             job == [old EXCEPT !.endAlarm = end, !.lateAlarm = late]
  <1>0. s.now \in TimeOfWeek /\ old \in JobState
    BY DEF SimState
  <1>1. old.session \in Session
    BY <1>0 DEF JobState
  <1>2. old.session.end \in TimeOfWeek /\ old.session.age \in 0 .. Week
    BY <1>1 DEF Session
  <1>3. TicksTo(s.now, old.session.end) \in TimeOfWeek
    BY <1>0, <1>2, TicksToPasses
  <1>4. end \in 0 .. Week + 1
    BY <1>3, WeekAssumption DEF TimeOfWeek
  <1>5. end # NONE /\ end \in Alarm
    BY <1>4, WeekAssumption, CareerAssumption DEF Alarm
  <1>6. late \in Alarm
    <2>1. LateAfter[c] \in 1 .. Week
      BY CareerAssumption
    <2>2. CASE ~old.attended /\ old.session.age < LateAfter[c]
      <3>1. late = LateAfter[c] - old.session.age + 1
        BY <2>2
      <3>2. LateAfter[c] - old.session.age + 1 \in 0 .. Week + 1
        BY <1>2, <2>1, <2>2, WeekAssumption
      <3> HIDE DEF late
      <3> QED BY <3>1, <3>2 DEF Alarm
    <2>3. CASE ~(~old.attended /\ old.session.age < LateAfter[c])
      BY <1>0, <2>3 DEF JobState
    <2> QED BY <2>2, <2>3
  <1>7. late # NONE => old.lateAlarm # NONE \/ ~old.attended
    OBVIOUS
  <1>8. WithSessionAlarms(s, c) = WithJob(s, c, job)
    BY DEF WithSessionAlarms, WithJob
  <1> HIDE DEF end, late
  <1>9. /\ job \in JobState /\ Keeps(old, job)
        /\ job.track = old.track /\ job.level = old.level /\ job.untimed = old.untimed
        /\ job.workAlarm = old.workAlarm /\ job.endAlarm = end /\ job.lateAlarm = late
    BY <1>0, <1>5, <1>6 DEF JobState, Keeps
  <1> HIDE DEF job
  <1>10. Alarmed(s.now, old, job)
    BY <1>5, <1>7, <1>9 DEF Alarmed, end
  <1> QED BY <1>8, <1>10

\* start_new_career_session
LEMMA StartSessionDoes ==
    ASSUME NEW s \in SimState, NEW c \in Career, NEW end \in Int
    PROVE  \E job \in JobState :
             /\ StartSession(s, c, end) = WithJob(s, c, job)
             /\ job.session # NONE /\ ~job.attended /\ job.pays = 0 /\ job.astray = 0
             /\ job.endAlarm # NONE /\ job.endAlarm = TicksTo(s.now, job.session.end) + 1
             /\ job.track = s.job[c].track /\ job.level = s.job[c].level
             /\ job.interaction = s.job[c].interaction
             /\ job.listeners = s.job[c].listeners
             /\ job.workAlarm = s.job[c].workAlarm
  <1> DEFINE old == s.job[c]
             session == [start |-> s.now, end |-> end % Week, age |-> 0]
             j1 == [old EXCEPT !.session = session,
                               !.attended = FALSE, !.pays = 0, !.astray = 0,
                               !.untimed = FALSE]
             s1 == WithJob(s, c, j1)
  <1>0. s.now \in TimeOfWeek /\ old \in JobState
    BY DEF SimState
  <1>1. session \in Session
    <2>1. 0 \in 0 .. Week
      BY WeekAssumption
    <2>2. end % Week \in TimeOfWeek
      BY WeekTime
    <2> QED BY <1>0, <2>1, <2>2 DEF Session
  <1>2. session # NONE
    BY <1>1, SessionExists
  <1>3. StartSession(s, c, end) = WithSessionAlarms(s1, c)
    BY DEF StartSession, WithJob
  <1> HIDE DEF session
  <1>4. /\ j1 \in JobState /\ j1.session = session /\ ~j1.attended /\ j1.pays = 0 /\ j1.astray = 0
        /\ j1.track = old.track /\ j1.level = old.level
        /\ j1.interaction = old.interaction /\ j1.listeners = old.listeners
        /\ j1.workAlarm = old.workAlarm
    BY <1>0, <1>1 DEF JobState
  <1> HIDE DEF j1
  <1>5. Only(s, s1, c) /\ s1.job[c] = j1
    BY <1>4, WithJobDoes
  <1>6. \A job : WithJob(s1, c, job) = WithJob(s, c, job)
    BY <1>0 DEF WithJob, SimState
  <1> HIDE DEF s1
  <1>7. s1 \in SimState /\ s1.now = s.now /\ s1.job[c].session # NONE
    BY <1>2, <1>4, <1>5 DEF Only
  <1>8. PICK job : Alarmed(s1.now, s1.job[c], job)
                   /\ WithSessionAlarms(s1, c) = WithJob(s1, c, job)
    BY <1>7, WithSessionAlarmsDoes
  <1>9. StartSession(s, c, end) = WithJob(s, c, job)
    BY <1>3, <1>6, <1>8
  <1>10. /\ job \in JobState /\ job.session = session /\ ~job.attended /\ job.pays = 0 /\ job.astray = 0
         /\ job.endAlarm # NONE /\ job.endAlarm = TicksTo(s.now, job.session.end) + 1
         /\ job.track = old.track /\ job.level = old.level
         /\ job.interaction = old.interaction /\ job.listeners = old.listeners
         /\ job.workAlarm = old.workAlarm
    BY <1>4, <1>5, <1>7, <1>8 DEF Alarmed, Keeps
  <1> QED BY <1>2, <1>9, <1>10

LEMMA BesideFits ==
    ASSUME NEW s \in SimState, NEW c \in Career, Fits(s, c), NEW job, Beside(s.job[c], job)
    PROVE  LET t == WithJob(s, c, job) IN Only(s, t, c) /\ Fits(t, c) /\ t.joined = s.joined
  <1> DEFINE t == WithJob(s, c, job)
  <1>1. /\ Only(s, t, c) /\ t.job[c] = job
        /\ t.joined = s.joined /\ t.history = s.history /\ t.work = s.work
    BY WithJobDoes DEF Beside
  <1> HIDE DEF t
  <1>2. t.now = s.now
    BY <1>1 DEF Only
  <1>3. Holds(t.work[c], t.job[c])
    BY <1>1 DEF Fits, JobFits, Holds, Beside, Keeps
  <1>4. Timed(t.now, t.work[c], t.job[c])
    BY <1>1, <1>2 DEF Fits, JobFits, Timed, Beside, Keeps
  <1>5. Fits(t, c)
    BY <1>1, <1>3, <1>4 DEF Fits, JobFits, Unpaid, Beside, Keeps
  <1> QED BY <1>1, <1>5 DEF t

\* _start_work_callback, when the alarm of the schedule has gone off
LEMMA StartWorkFits ==
    ASSUME NEW s \in SimState, NEW c \in Career, Fits(s, c), c \in s.joined,
           s.job[c].workAlarm = 0, NEW entry \in Entry
    PROVE  LET t == StartWork(s, c, entry) IN
           Only(s, t, c) /\ Fits(t, c) /\ t.joined = s.joined
  <1>0. s.job[c] \in JobState
    BY DEF SimState
  <1>1. CASE SkipsShift(s, c)
    <2> DEFINE job == [s.job[c] EXCEPT !.sick = FALSE]
    <2>1. StartWork(s, c, entry) = WithJob(s, c, job)
      BY <1>1 DEF StartWork, WithJob
    <2>2. Beside(s.job[c], job)
      BY <1>0, PendingBeside
    <2> HIDE DEF job
    <2> QED BY <2>1, <2>2, BesideFits
  <1>2. CASE ~SkipsShift(s, c)
    <2>0. entry.end \in Int
      BY DEF Entry
    <2> DEFINE b == StartSession(s, c, entry.end)
    <2>1. PICK job \in JobState :
             /\ b = WithJob(s, c, job)
             /\ job.session # NONE /\ ~job.attended /\ job.pays = 0 /\ job.astray = 0
             /\ job.endAlarm # NONE /\ job.endAlarm = TicksTo(s.now, job.session.end) + 1
             /\ job.track = s.job[c].track /\ job.level = s.job[c].level
             /\ job.interaction = s.job[c].interaction
             /\ job.listeners = s.job[c].listeners
             /\ job.workAlarm = s.job[c].workAlarm
      BY <2>0, StartSessionDoes
    <2>2. StartWork(s, c, entry) = IF s.instanced THEN PushGoToWork(b, c)
                                                  ELSE Attend(b, c, FALSE)
      BY <1>2 DEF StartWork
    <2> HIDE DEF b
    <2>3. /\ Only(s, b, c) /\ b.job[c] = job
          /\ b.joined = s.joined /\ b.history = s.history /\ b.work = s.work
      BY <2>1, WithJobDoes
    <2>4. b \in SimState /\ b.now = s.now
      BY <2>3 DEF Only
    <2>5. /\ Holds("no", job) /\ Holds(b.work[c], job)
          /\ s.work[c] = "running" => job.interaction
      BY <2>1, <2>3 DEF Fits, JobFits, Holds
    <2>6. Timed(b.now, "no", job) /\ Timed(b.now, b.work[c], job)
      BY <2>1, <2>4 DEF Timed
    <2>7. PastFits(b.history[c]) /\ Unpaid(job)
      BY <2>1, <2>3 DEF Fits, Unpaid
    <2>8. Fits(b, c)
      BY <2>3, <2>5, <2>6, <2>7 DEF Fits, JobFits
    <2>9. CASE s.instanced
      <3> DEFINE t == PushGoToWork(b, c)
      <3>1. Only(b, t, c) /\ Fits(t, c) /\ t.joined = b.joined
        BY <2>4, <2>8, PushFits
      <3>2. StartWork(s, c, entry) = t
        BY <2>2, <2>9
      <3> HIDE DEF t
      <3>3. Only(s, t, c)
        BY <2>3, <3>1, OnlyAgain
      <3> QED BY <2>3, <3>1, <3>2, <3>3
    <2>10. CASE ~s.instanced
      <3> DEFINE t == Attend(b, c, FALSE)
      <3>1. Only(b, t, c) /\ Fits(t, c) /\ t.joined = b.joined
        <4>1. /\ Holds("no", b.job[c]) /\ Timed(b.now, "no", b.job[c])
              /\ PastFits(b.history[c]) /\ Unpaid(b.job[c])
              /\ c \in b.joined /\ b.job[c].session # NONE
              /\ b.work[c] = "running" => FALSE \/ b.job[c].interaction
          BY <2>1, <2>3, <2>5, <2>6, <2>7
        <4> QED BY <2>4, <4>1, AttendFits
      <3>2. StartWork(s, c, entry) = t
        BY <2>2, <2>10
      <3> HIDE DEF t
      <3>3. Only(s, t, c)
        BY <2>3, <3>1, OnlyAgain
      <3> QED BY <2>3, <3>1, <3>2, <3>3
    <2> QED BY <2>9, <2>10
  <1> QED BY <1>1, <1>2

-----------------------------------------------------------------------------
(* Taking a career and leaving it                                          *)

LEMMA NewJobDoes ==
    ASSUME NEW track \in Track, NEW level \in Nat, level < Levels[track]
    PROVE  LET job == NewJob(track, level) IN
           /\ job \in JobState /\ job.track = track /\ job.level = level
           /\ job.session = NONE /\ job.endAlarm = NONE /\ job.lateAlarm = NONE
           /\ ~job.attended /\ job.pays = 0 /\ job.astray = 0
  <1>1. /\ JobStartDelay \in -1 .. JobStartDelay /\ {} \in SUBSET Track
        /\ NONE \in Alarm /\ 0 \in Nat
    BY CareerAssumption DEF Alarm
  <1> QED BY <1>1 DEF NewJob, JobState

\* join_career
LEMMA JoinInv ==
    ASSUME NEW s, IInv(s), s.retired = NONE, NEW c \in Career, NEW level \in EntryLevels(s, c)
    PROVE  IInv(Join(s, c, level))
  <1> DEFINE track == IF s.history[c] = NONE THEN StartTrack[c] ELSE s.history[c].track
             job == NewJob(track, level)
             jobs == [s.job EXCEPT ![c] = job]
             s1 == [s EXCEPT !.joined = s.joined \cup {c}, !.job = jobs]
             t == CareerStart(s1, c)
  <1>0. s \in SimState /\ PastFits(s.history[c])
    BY DEF IInv, Fits
  <1>1. track \in Track /\ level \in Nat /\ level < Levels[track]
    <2>1. CASE s.history[c] = NONE
      <3>1. level = 0
        BY <2>1 DEF EntryLevels
      <3>2. StartTrack[c] \in Track /\ Levels[StartTrack[c]] \in Nat \ {0}
        BY CareerAssumption
      <3> QED BY <2>1, <3>1, <3>2
    <2>2. CASE s.history[c] # NONE
      <3>1. level \in 0 .. s.history[c].level
        BY <2>2 DEF EntryLevels
      <3>2. s.history[c] \in [track : Track, level : Nat]
        BY <1>0, <2>2 DEF SimState
      <3>3. s.history[c].level < Levels[s.history[c].track]
        BY <1>0, <2>2 DEF PastFits
      <3>4. Levels[s.history[c].track] \in Nat
        BY <3>2, CareerAssumption
      <3> QED BY <2>2, <3>1, <3>2, <3>3, <3>4
    <2> QED BY <2>1, <2>2
  <1>2. Join(s, c, level) = t
    BY DEF Join
  <1> HIDE DEF track
  <1>3. /\ job \in JobState /\ job.track = track /\ job.level = level
        /\ job.session = NONE /\ job.endAlarm = NONE /\ job.lateAlarm = NONE
        /\ ~job.attended /\ job.pays = 0 /\ job.astray = 0
    BY <1>1, NewJobDoes
  <1> HIDE DEF job
  <1>4. /\ jobs \in [Career -> JobState] /\ jobs[c] = job
        /\ \A d \in Career \ {c} : jobs[d] = s.job[d]
    BY <1>0, <1>3 DEF SimState
  <1> HIDE DEF jobs
  <1>5. /\ s1 \in SimState /\ s1.job = jobs /\ s1.now = s.now /\ s1.retired = s.retired
        /\ s1.joined = s.joined \cup {c} /\ s1.history = s.history /\ s1.work = s.work
    BY <1>0, <1>4 DEF SimState
  <1> HIDE DEF s1
  <1>6. PICK n \in 1 .. Week :
             LET new == [s1.job[c] EXCEPT !.workAlarm = n]
             IN  new \in JobState /\ CareerStart(s1, c) = WithJob(s1, c, new)
    BY <1>5, CareerStartDoes
  <1> DEFINE new == [s1.job[c] EXCEPT !.workAlarm = n]
  <1>7. /\ new \in JobState /\ new.track = track /\ new.level = level
        /\ new.session = NONE /\ new.endAlarm = NONE /\ new.lateAlarm = NONE
        /\ ~new.attended /\ new.pays = 0 /\ new.astray = 0 /\ new.workAlarm = n /\ n # 0
    <2>1. s1.job[c] = job /\ n # 0
      BY <1>4, <1>5, WeekAssumption
    <2> QED BY <1>3, <1>6, <2>1 DEF JobState
  <1>8. t = WithJob(s1, c, new)
    BY <1>6
  <1> HIDE DEF new
  <1>9. /\ Only(s1, t, c) /\ t.job[c] = new
        /\ t.joined = s1.joined /\ t.history = s1.history /\ t.work = s1.work
    BY <1>5, <1>7, <1>8, WithJobDoes
  <1> HIDE DEF t
  <1>10. Fits(t, c)
    BY <1>0, <1>1, <1>5, <1>7, <1>9 DEF Fits, JobFits, Holds, Timed, Unpaid
  <1>11. \A d \in Career \ {c} : Fits(t, d)
    <2> TAKE d \in Career \ {c}
    <2>1. /\ t.job[d] = s.job[d] /\ t.history[d] = s.history[d] /\ t.work[d] = s.work[d]
          /\ t.now = s.now /\ (d \notin t.joined => d \notin s.joined)
      BY <1>4, <1>5, <1>9 DEF Only
    <2>2. Fits(s, d)
      BY DEF IInv
    <2> QED BY <2>1, <2>2 DEF Fits
  <1>12. t \in SimState /\ t.retired = NONE
    BY <1>5, <1>9 DEF Only
  <1>13. IInv(t)
    BY <1>10, <1>11, <1>12 DEF IInv, Retired
  <1> QED BY <1>2, <1>13

\* The Sim leaves all its careers.
LEMMA RemoveCareersInv ==
    ASSUME NEW s, IInv(s)
    PROVE  LET t == RemoveCareers(s, s.joined) IN
           /\ IInv(t) /\ t.joined = {} /\ t.retired = s.retired
           /\ \A c \in s.joined : t.history[c] # NONE
  <1> DEFINE left == [c \in s.joined |-> RemoveCareer(s, c)]
             job == [c \in Career |-> IF c \in s.joined THEN left[c].job[c] ELSE s.job[c]]
             history == [c \in Career |->
                           IF c \in s.joined THEN left[c].history[c] ELSE s.history[c]]
             t == [s EXCEPT !.joined = s.joined \ s.joined, !.job = job, !.history = history]
  <1>0. s \in SimState /\ s.joined \subseteq Career
    BY DEF IInv, SimState
  <1>1. RemoveCareers(s, s.joined) = t
    BY DEF RemoveCareers
  <1>2. \A c \in s.joined : Left(s, left[c], c)
    <2> TAKE c \in s.joined
    <2>1. c \in Career
      BY <1>0
    <2>2. s.job[c].level < Levels[s.job[c].track]
      BY <2>1 DEF IInv, Fits, JobFits, Holds
    <2>3. Left(s, RemoveCareer(s, c), c)
      BY <1>0, <2>1, <2>2, RemoveCareerDoes
    <2> QED BY <2>3
  <1> HIDE DEF left
  <1>3. \A c \in s.joined : /\ left[c].job[c] = NoJob(c)
                            /\ left[c].history[c] \in [track : Track, level : Nat] \cup {NONE}
                            /\ left[c].history[c] # NONE /\ PastFits(left[c].history[c])
    BY <1>0, <1>2 DEF Left, Only, SimState
  <1>4. /\ job \in [Career -> JobState]
        /\ \A c \in Career : job[c] = IF c \in s.joined THEN NoJob(c) ELSE s.job[c]
    BY <1>0, <1>3, NoJobDoes DEF SimState
  <1>5. /\ history \in [Career -> [track : Track, level : Nat] \cup {NONE}]
        /\ \A c \in Career : PastFits(s.history[c]) => PastFits(history[c])
        /\ \A c \in Career : s.history[c] # NONE \/ c \in s.joined => history[c] # NONE
    <2>1. \A c \in Career : history[c] = IF c \in s.joined THEN left[c].history[c]
                                         ELSE s.history[c]
      OBVIOUS
    <2>2. history \in [Career -> [track : Track, level : Nat] \cup {NONE}]
      BY <1>0, <1>3 DEF SimState
    <2> HIDE DEF history
    <2> QED BY <1>3, <2>1, <2>2
  <1> HIDE DEF job, history
  <1>6. /\ t \in SimState /\ t.joined = {} /\ t.job = job /\ t.history = history
        /\ t.retired = s.retired /\ t.now = s.now /\ t.work = s.work
    BY <1>0, <1>4, <1>5 DEF SimState
  <1> HIDE DEF t
  <1>7. ASSUME NEW c \in Career
        PROVE  Fits(t, c)
    <2>1. Fits(s, c)
      BY DEF IInv
    <2>2. PastFits(t.history[c])
      BY <1>5, <1>6, <2>1 DEF Fits
    <2>3. CASE c \in s.joined
      <3>1. t.job[c] = NoJob(c)
        BY <1>4, <1>6, <2>3
      <3>2. /\ JobFits(t.now, t.work[c], t.job[c]) /\ Unpaid(t.job[c])
            /\ t.job[c].session = NONE /\ t.job[c].workAlarm = NONE
        BY <3>1, NoJobDoes
      <3> QED BY <2>2, <3>2 DEF Fits
    <2>4. CASE c \notin s.joined
      <3>1. t.job[c] = s.job[c]
        BY <1>4, <1>6, <2>4
      <3> QED BY <1>6, <2>1, <2>2, <2>4, <3>1 DEF Fits
    <2> QED BY <2>3, <2>4
  <1>8. Retired(t)
    BY <1>0, <1>5, <1>6 DEF IInv, Retired, SimState
  <1> QED BY <1>0, <1>1, <1>5, <1>6, <1>7, <1>8 DEF IInv

-----------------------------------------------------------------------------
(* The player                                                              *)

\* A step that touches neither jobs, history nor work interactions
LEMMA SameInv ==
    ASSUME NEW s, IInv(s), NEW t \in SimState,
           t.now = s.now, t.job = s.job, t.history = s.history, t.work = s.work,
           t.joined = s.joined, t.retired = s.retired
    PROVE  IInv(t)
  <1>1. \A c \in Career : Fits(t, c)
    BY DEF IInv, Fits
  <1> QED BY <1>1 DEF IInv, Retired

LEMMA LeveledInv ==
    ASSUME NEW s, IInv(s), NEW c \in Career, c \in s.joined, NEW t, Leveled(s, t, c)
    PROVE  IInv(t)
  <1>1. Fits(s, c)
    BY DEF IInv
  <1>2. Fits(t, c)
    BY <1>1 DEF Leveled, Fits, JobFits, Unpaid, Keeps
  <1> QED BY <1>2, OnlyStep DEF Leveled

LEMMA LeftInv ==
    ASSUME NEW s, IInv(s), NEW c \in Career, NEW t, Left(s, t, c)
    PROVE  IInv(t)
  BY LeftFits, OnlyStep DEF Left

\* add_career
LEMMA AddCareerInv ==
    ASSUME NEW s, IInv(s), NEW c \in Career, NEW level \in EntryLevels(s, c),
           NEW show \in BOOLEAN
    PROVE  IInv(AddCareer(s, c, level, show))
  <1>1. ASSUME NEW dialog \in Dialog
        PROVE  IInv([s EXCEPT !.dialogs = s.dialogs \cup {dialog}])
    <2> DEFINE t == [s EXCEPT !.dialogs = s.dialogs \cup {dialog}]
    <2>1. /\ t \in SimState /\ t.now = s.now /\ t.job = s.job /\ t.history = s.history
          /\ t.work = s.work /\ t.joined = s.joined /\ t.retired = s.retired
      BY DEF IInv, SimState
    <2> HIDE DEF t
    <2>2. IInv(t)
      BY <2>1, SameInv
    <2> QED BY <2>2 DEF t
  <1>2. CASE s.retired # NONE
    <2>1. [kind |-> "unretire", career |-> c] \in Dialog
      BY DEF Dialog
    <2> QED BY <1>1, <1>2, <2>1 DEF AddCareer
  <1>3. CASE s.retired = NONE /\ show /\ s.joined # {}
    <2>1. [kind |-> "switch", career |-> c] \in Dialog
      BY DEF Dialog
    <2> QED BY <1>1, <1>3, <2>1 DEF AddCareer
  <1>4. CASE s.retired = NONE /\ ~(show /\ s.joined # {})
    <2>1. AddCareer(s, c, level, show) = Join(s, c, level)
      BY <1>4 DEF AddCareer
    <2> QED BY <1>4, <2>1, JoinInv
  <1> QED BY <1>2, <1>3, <1>4

LEMMA SelectInv ==
    ASSUME IInv(sim), NEW c \in Career, Select(c) PROVE IInv(sim')
  BY AddCareerInv DEF Select

LEMMA BranchChosenInv ==
    ASSUME IInv(sim), NEW c \in Career, NEW track \in Track, BranchChosen(c, track)
    PROVE  IInv(sim')
  <1> DEFINE r == SetTrack(sim, c, track)
  <1>1. /\ c \in sim.joined
        /\ sim' = WithJob(r, c, [r.job[c] EXCEPT !.offered = {}])
    BY DEF BranchChosen, WithJob
  <1>2. sim \in SimState /\ Fits(sim, c)
    BY DEF IInv
  <1>3. Leveled(sim, r, c)
    BY <1>2, SetTrackDoes DEF Fits, JobFits
  <1> HIDE DEF r
  <1>4. r.job[c] \in JobState
    BY <1>3 DEF Leveled, Only, SimState
  <1>5. Beside(r.job[c], [r.job[c] EXCEPT !.offered = {}])
    BY <1>4, PendingBeside
  <1>6. Leveled(sim, sim', c)
    BY <1>1, <1>3, <1>5, BesideLeveled
  <1> QED BY <1>1, <1>6, LeveledInv

LEMMA DialogGone ==
    ASSUME IInv(sim), NEW dialog
    PROVE  LET t == [sim EXCEPT !.dialogs = sim.dialogs \ {dialog}] IN
           IInv(t) /\ t.joined = sim.joined
  <1> DEFINE t == [sim EXCEPT !.dialogs = sim.dialogs \ {dialog}]
  <1>1. /\ t \in SimState /\ t.now = sim.now /\ t.job = sim.job /\ t.history = sim.history
        /\ t.work = sim.work /\ t.joined = sim.joined /\ t.retired = sim.retired
    BY DEF IInv, SimState
  <1> HIDE DEF t
  <1>2. IInv(t)
    BY <1>1, SameInv
  <1> QED BY <1>1, <1>2 DEF t

LEMMA AcceptInv ==
    ASSUME IInv(sim), NEW dialog \in sim.dialogs, Accept(dialog) PROVE IInv(sim')
  <1> DEFINE gone == [sim EXCEPT !.dialogs = sim.dialogs \ {dialog}]
             quit == RemoveCareers(gone, sim.joined)
  <1>1. IInv(gone) /\ gone.joined = sim.joined
    BY DialogGone
  <1>2. \E level \in EntryLevels(quit, dialog.career) :
              sim' = AddCareer(quit, dialog.career, level, FALSE)
    BY DEF Accept
  <1>3. dialog.career \in Career
    BY DEF IInv, SimState, Dialog
  <1> HIDE DEF gone
  <1>4. IInv(quit)
    BY <1>1, RemoveCareersInv
  <1> HIDE DEF quit
  <1> QED BY <1>2, <1>3, <1>4, AddCareerInv

LEMMA DeclineInv ==
    ASSUME IInv(sim), NEW dialog, Decline(dialog) PROVE IInv(sim')
  BY DialogGone DEF Decline

LEMMA QuitInv ==
    ASSUME IInv(sim), NEW c \in Career, Quit(c) PROVE IInv(sim')
  <1>1. sim \in SimState /\ sim.job[c].level < Levels[sim.job[c].track]
    BY DEF IInv, Fits, JobFits, Holds
  <1>2. Left(sim, RemoveCareer(sim, c), c)
    BY <1>1, RemoveCareerDoes
  <1>3. sim' = RemoveCareer(sim, c)
    BY DEF Quit
  <1> QED BY <1>2, <1>3, LeftInv

LEMMA RetireInv ==
    ASSUME IInv(sim), NEW c \in Career, Retire(c) PROVE IInv(sim')
  <1> DEFINE r == RemoveCareers(sim, sim.joined)
             t == [r EXCEPT !.retired = c]
  <1>1. c \in sim.joined /\ sim' = t
    BY DEF Retire
  <1>2. IInv(r) /\ r.joined = {} /\ r.history[c] # NONE
    BY <1>1, RemoveCareersInv
  <1> HIDE DEF r
  <1>3. /\ t \in SimState /\ t.now = r.now /\ t.job = r.job /\ t.history = r.history
        /\ t.work = r.work /\ t.joined = r.joined /\ t.retired = c
    BY <1>2 DEF IInv, SimState
  <1> HIDE DEF t
  <1>4. \A d \in Career : Fits(t, d)
    BY <1>2, <1>3 DEF IInv, Fits
  <1>5. Retired(t)
    BY <1>2, <1>3 DEF Retired
  <1> QED BY <1>1, <1>3, <1>4, <1>5 DEF IInv

LEMMA CallInSickInv ==
    ASSUME IInv(sim), CallInSick PROVE IInv(sim')
  <1> DEFINE sick(c) == sim.job[c].sick \/ c \in sim.joined
             job == [c \in Career |-> [sim.job[c] EXCEPT !.sick = sick(c)]]
             t == [sim EXCEPT !.job = job]
  <1>1. sim' = t
    BY DEF CallInSick
  <1>2. sim \in SimState
    BY DEF IInv
  <1>3. \A c \in Career : sick(c) \in BOOLEAN
    BY <1>2 DEF SimState, JobState
  <1> HIDE DEF sick
  <1>4. ASSUME NEW c \in Career
        PROVE  job[c] \in JobState /\ Beside(sim.job[c], job[c])
    <2>1. sim.job[c] \in JobState
      BY <1>2 DEF SimState
    <2>2. job[c] = [sim.job[c] EXCEPT !.sick = sick(c)]
      OBVIOUS
    <2> HIDE DEF job
    <2>3. Beside(sim.job[c], job[c])
      BY <1>3, <2>1, <2>2, PendingBeside
    <2> QED BY <2>3 DEF Beside
  <1>5. job \in [Career -> JobState]
    BY <1>4
  <1> HIDE DEF job
  <1>6. /\ t \in SimState /\ t.now = sim.now /\ t.job = job /\ t.history = sim.history
        /\ t.work = sim.work /\ t.joined = sim.joined /\ t.retired = sim.retired
    BY <1>2, <1>5 DEF SimState
  <1> HIDE DEF t
  <1>7. ASSUME NEW c \in Career
        PROVE  Fits(t, c)
    <2>1. Fits(sim, c) /\ Beside(sim.job[c], job[c])
      BY <1>4 DEF IInv
    <2>2. Holds(t.work[c], t.job[c])
      BY <1>6, <2>1 DEF Fits, JobFits, Holds, Beside, Keeps
    <2>3. Timed(t.now, t.work[c], t.job[c])
      BY <1>6, <2>1 DEF Fits, JobFits, Timed, Beside, Keeps
    <2> QED BY <1>6, <2>1, <2>2, <2>3 DEF Fits, JobFits, Unpaid, Beside, Keeps
  <1>8. Retired(t)
    BY <1>6 DEF IInv, Retired
  <1> QED BY <1>1, <1>6, <1>7, <1>8 DEF IInv

LEMMA PickedLevelInv ==
    ASSUME IInv(sim), NEW c \in Career, PickedLevel(c) PROVE IInv(sim')
  <1>1. c \in sim.joined /\ (sim' = Promote(sim, c) \/ sim' = Demote(sim, c, FALSE))
    BY DEF PickedLevel
  <1>2. sim \in SimState /\ Holds(sim.work[c], sim.job[c]) /\ PastFits(sim.history[c])
    BY DEF IInv, Fits, JobFits
  <1>3. Leveled(sim, Promote(sim, c), c)
    BY <1>2, PromoteDoes
  <1>4. Leveled(sim, Demote(sim, c, FALSE), c) \/ Left(sim, Demote(sim, c, FALSE), c)
    BY <1>2, DemoteDoes
  <1> QED BY <1>1, <1>3, <1>4, LeveledInv, LeftInv

LEMMA GoToWorkInv ==
    ASSUME IInv(sim), NEW c \in Career, GoToWork(c) PROVE IInv(sim')
  <1>1. sim' = PushGoToWork(sim, c)
    BY DEF GoToWork
  <1>2. sim \in SimState /\ Fits(sim, c)
    BY DEF IInv
  <1>3. Only(sim, PushGoToWork(sim, c), c) /\ Fits(PushGoToWork(sim, c), c)
    BY <1>2, PushFits
  <1> QED BY <1>1, <1>3, OnlyStep

LEMMA LeaveEarlyInv ==
    ASSUME IInv(sim), NEW c \in Career, LeaveEarly(c) PROVE IInv(sim')
  <1> DEFINE old == sim.job[c]
             job == [old EXCEPT !.astray = old.astray + 1]
             marked == WithJob(sim, c, job)
             asked == IF old.session # NONE /\ ~old.attended THEN marked ELSE sim
  <1>1. PICK verdict \in Verdict, default \in Default : sim' = LeaveWork(asked, c, verdict, default)
    BY DEF LeaveEarly, WithJob
  <1>2. sim \in SimState /\ Fits(sim, c) /\ old \in JobState
    BY DEF IInv, SimState
  <1>3. c \in sim.joined /\ ~(old.interaction /\ sim.work[c] = "running")
    BY DEF LeaveEarly, InteractionAlive
  <1>4. CASE old.session = NONE
    <2>1. asked = sim
      BY <1>4
    <2>2. sim' = sim
      BY <1>1, <1>4, <2>1 DEF LeaveWork
    <2> QED BY <2>2
  <1>5. CASE old.session # NONE /\ old.attended
    <2>1. asked = sim
      BY <1>5
    <2>2. MayEnd(sim, c) /\ old.listeners > 0
      BY <1>2, <1>3, <1>5 DEF Fits, JobFits, Holds, MayEnd, Unpaid, Owed
    <2>3. /\ Only(sim, LeaveWork(sim, c, verdict, default), c)
          /\ Fits(LeaveWork(sim, c, verdict, default), c)
      BY <2>2, LeaveWorkFits
    <2> QED BY <1>1, <2>1, <2>3, OnlyStep
  <1>6. CASE old.session # NONE /\ ~old.attended
    <2> DEFINE t == LeaveWork(marked, c, verdict, default)
    <2>1. sim' = t
      BY <1>1, <1>6
    <2>2. /\ job \in JobState
          /\ job.session = old.session /\ job.attended = old.attended
          /\ job.interaction = old.interaction /\ job.listeners = old.listeners
          /\ job.track = old.track /\ job.level = old.level
          /\ job.workAlarm = old.workAlarm /\ job.endAlarm = old.endAlarm
          /\ job.lateAlarm = old.lateAlarm /\ job.untimed = old.untimed
          /\ job.pays = old.pays /\ job.astray = old.astray + 1
          /\ job.listeners \in Nat
      BY <1>2 DEF JobState
    <2> HIDE DEF job
    <2>3. /\ Only(sim, marked, c) /\ marked.job[c] = job
          /\ marked.joined = sim.joined /\ marked.history = sim.history
          /\ marked.work = sim.work
      BY <1>2, <2>2, WithJobDoes
    <2> HIDE DEF marked
    <2>4. marked \in SimState /\ marked.now = sim.now
      BY <2>3 DEF Only
    <2>5. Holds(marked.work[c], marked.job[c]) /\ PastFits(marked.history[c])
      BY <1>2, <2>2, <2>3 DEF Fits, JobFits, Holds
    <2>6. Timed(marked.now, marked.work[c], marked.job[c])
      BY <1>2, <2>2, <2>3, <2>4 DEF Fits, JobFits, Timed
    <2>7. job.pays + 1 = job.astray
      BY <1>2, <1>6, <2>2 DEF Fits, Unpaid
    <2>8. MayEnd(marked, c)
      <3>1. marked.work[c] # "running"
        BY <1>2, <1>3, <1>6, <2>3 DEF Fits, JobFits, Holds
      <3> QED BY <1>3, <1>6, <2>2, <2>3, <2>4, <2>5, <2>7, <3>1 DEF MayEnd, Owed
    <2>9. Only(marked, t, c) /\ Fits(t, c)
      <3>1. CASE job.listeners > 0
        BY <2>3, <2>8, <3>1, LeaveWorkFits
      <3>2. CASE job.listeners = 0
        BY <2>3, <2>6, <2>7, <2>8, <3>2, LeaveWorkFails
      <3> QED BY <2>2, <3>1, <3>2
    <2> HIDE DEF t
    <2>10. Only(sim, t, c)
      BY <2>3, <2>9, OnlyAgain
    <2> QED BY <2>1, <2>9, <2>10, OnlyStep
  <1> QED BY <1>4, <1>5, <1>6

-----------------------------------------------------------------------------
(* The work interaction and the away action                                *)

LEMMA InteractionStartsInv ==
    ASSUME IInv(sim), NEW c \in Career, InteractionStarts(c) PROVE IInv(sim')
  <1> DEFINE begun == [sim EXCEPT !.work = [sim.work EXCEPT ![c] = "running"]]
  <1>1. /\ sim.work[c] = "queued" /\ MayWork(c)
        /\ sim' = IF c \in sim.joined THEN Attend(begun, c, TRUE) ELSE begun
    BY DEF InteractionStarts
  <1>2. sim \in SimState /\ Fits(sim, c)
    BY DEF IInv
  <1>3. /\ Only(sim, begun, c) /\ begun.work[c] = "running" /\ begun.job = sim.job
        /\ begun.joined = sim.joined /\ begun.history = sim.history
    BY <1>2, WorkDoes, ZenonT(30)
  <1> HIDE DEF begun
  <1>4. begun \in SimState /\ begun.now = sim.now
    BY <1>3 DEF Only
  <1>5. CASE c \in sim.joined
    <2> DEFINE t == Attend(begun, c, TRUE)
    <2>1. sim.job[c].session # NONE
      BY <1>1, <1>5 DEF MayWork, IsWorkTime
    <2>2. Holds("no", begun.job[c])
      BY <1>2, <1>3 DEF Fits, JobFits, Holds
    <2>3. Timed(begun.now, "no", begun.job[c])
      BY <1>1, <1>2, <1>3, <1>4 DEF Fits, JobFits, Timed
    <2>4. PastFits(begun.history[c]) /\ Unpaid(begun.job[c])
      BY <1>2, <1>3 DEF Fits
    <2>5. Only(begun, t, c) /\ Fits(t, c)
      BY <1>3, <1>4, <1>5, <2>1, <2>2, <2>3, <2>4, AttendFits
    <2>6. sim' = t
      BY <1>1, <1>5
    <2> HIDE DEF t
    <2>7. Only(sim, t, c)
      BY <1>3, <2>5, OnlyAgain
    <2> QED BY <2>5, <2>6, <2>7, OnlyStep
  <1>6. CASE c \notin sim.joined
    <2>1. sim.job[c].session = NONE /\ sim.job[c].workAlarm # 0
      BY <1>2, <1>6, CareerAssumption DEF Fits
    <2>2. Holds(begun.work[c], begun.job[c]) /\ Timed(begun.now, begun.work[c], begun.job[c])
      BY <1>2, <1>3, <2>1 DEF Fits, JobFits, Holds, Timed
    <2>3. Fits(begun, c)
      BY <1>2, <1>3, <2>2 DEF Fits, JobFits
    <2> QED BY <1>1, <1>3, <1>6, <2>3, OnlyStep
  <1> QED BY <1>5, <1>6

LEMMA InteractionDroppedInv ==
    ASSUME IInv(sim), NEW c \in Career, InteractionDropped(c) PROVE IInv(sim')
  <1> DEFINE t == [sim EXCEPT !.work = [sim.work EXCEPT ![c] = "no"]]
  <1>1. sim.work[c] = "queued" /\ sim' = t
    BY DEF InteractionDropped
  <1>2. sim \in SimState /\ Fits(sim, c)
    BY DEF IInv
  <1>3. /\ Only(sim, t, c) /\ t.work[c] = "no" /\ t.job = sim.job
        /\ t.joined = sim.joined /\ t.history = sim.history
    BY <1>2, WorkDoes, ZenonT(30)
  <1> HIDE DEF t
  <1>4. Fits(t, c)
    BY <1>1, <1>2, <1>3 DEF Fits, JobFits, Holds, Timed, Only
  <1> QED BY <1>1, <1>3, <1>4, OnlyStep

LEMMA InteractionEndsInv ==
    ASSUME IInv(sim), NEW c \in Career, InteractionEnds(c) PROVE IInv(sim')
  <1> DEFINE ended == [sim EXCEPT !.work = [sim.work EXCEPT ![c] = "no"]]
  <1>1. /\ sim.work[c] = "running"
        /\ \/ /\ c \in sim.joined
              /\ \E verdict \in Verdict, default \in Default :
                    sim' = LeaveWork(ended, c, verdict, default)
           \/ c \notin sim.joined /\ sim' = ended
    BY DEF InteractionEnds
  <1>2. sim \in SimState /\ Fits(sim, c)
    BY DEF IInv
  <1>3. /\ Only(sim, ended, c) /\ ended.work[c] = "no" /\ ended.job = sim.job
        /\ ended.joined = sim.joined /\ ended.history = sim.history
    BY <1>2, WorkDoes, ZenonT(30)
  <1> HIDE DEF ended
  <1>4. ended \in SimState /\ ended.now = sim.now
    BY <1>3 DEF Only
  <1>5. Holds("no", sim.job[c])
    BY <1>2 DEF Fits, JobFits, Holds
  <1>6. CASE sim.job[c].session = NONE
    <2>1. Timed(ended.now, ended.work[c], ended.job[c])
      BY <1>3, <1>6 DEF Timed
    <2>2. Fits(ended, c)
      BY <1>2, <1>3, <1>5, <2>1 DEF Fits, JobFits
    <2>3. IInv(ended)
      BY <1>3, <2>2, OnlyStep
    <2>4. \A verdict, default : LeaveWork(ended, c, verdict, default) = ended
      BY <1>3, <1>6 DEF LeaveWork
    <2>5. sim' = ended
      BY <1>1, <2>4
    <2> QED BY <2>3, <2>5
  <1>7. CASE sim.job[c].session # NONE
    <2>1. c \in sim.joined /\ sim.job[c].listeners > 0
      BY <1>1, <1>2, <1>7 DEF Fits, JobFits, Holds
    <2>2. MayEnd(ended, c) /\ ended.job[c].listeners > 0
      BY <1>2, <1>3, <1>4, <1>5, <1>7, <2>1 DEF MayEnd, Fits, Unpaid, Owed
    <2>3. PICK verdict \in Verdict, default \in Default :
                 sim' = LeaveWork(ended, c, verdict, default)
      BY <1>1, <2>1
    <2> DEFINE t == LeaveWork(ended, c, verdict, default)
    <2>4. Only(ended, t, c) /\ Fits(t, c)
      BY <2>2, LeaveWorkFits
    <2>5. sim' = t
      BY <2>3
    <2> HIDE DEF t
    <2>6. Only(sim, t, c)
      BY <1>3, <2>4, OnlyAgain
    <2> QED BY <2>4, <2>5, <2>6, OnlyStep
  <1> QED BY <1>6, <1>7

LEMMA AwayInv ==
    ASSUME NEW s, IInv(s), NEW away \in Career \cup {"default", NONE}
    PROVE  IInv([s EXCEPT !.away = away])
  <1> DEFINE t == [s EXCEPT !.away = away]
  <1>1. /\ t \in SimState /\ t.now = s.now /\ t.job = s.job /\ t.history = s.history
        /\ t.work = s.work /\ t.joined = s.joined /\ t.retired = s.retired
    BY DEF IInv, SimState
  <1> HIDE DEF t
  <1>2. IInv(t)
    BY <1>1, SameInv
  <1> QED BY <1>2 DEF t

LEMMA ToneChosenInv ==
    ASSUME IInv(sim), NEW c \in Career, ToneChosen(c) PROVE IInv(sim')
  BY AwayInv DEF ToneChosen

LEMMA AwayActionExitsInv ==
    ASSUME IInv(sim), AwayActionExits PROVE IInv(sim')
  <1>1. Default \subseteq Career \cup {"default", NONE}
    BY CareerAssumption
  <1> QED BY <1>1, AwayInv DEF AwayActionExits, ResetAway

\* A Sim on its way drops what it was about to do.
LEMMA FreedInv ==
    ASSUME IInv(sim), Travels,
           NEW away \in Career \cup {"default", NONE}, NEW instanced \in BOOLEAN
    PROVE  LET s == [sim EXCEPT !.away = away, !.instanced = instanced,
                                !.work = [c \in Career |-> "no"]]
           IN  IInv(s) /\ \A c \in Career : s.work[c] = "no"
  <1> DEFINE work == [c \in Career |-> "no"]
             s == [sim EXCEPT !.away = away, !.instanced = instanced, !.work = work]
  <1>1. sim \in SimState /\ \A c \in Career : sim.work[c] # "running"
    BY DEF IInv, Travels
  <1>2. work \in [Career -> {"no", "queued", "running"}] /\ \A c \in Career : work[c] = "no"
    OBVIOUS
  <1> HIDE DEF work
  <1>3. /\ s \in SimState /\ s.now = sim.now /\ s.job = sim.job
        /\ s.history = sim.history /\ s.work = work
        /\ s.joined = sim.joined /\ s.retired = sim.retired
    BY <1>1, <1>2 DEF SimState
  <1> HIDE DEF s
  <1>4. ASSUME NEW c \in Career
        PROVE  Fits(s, c)
    <2>1. Fits(sim, c) /\ sim.work[c] # "running" /\ s.work[c] = "no"
      BY <1>1, <1>2, <1>3 DEF IInv
    <2>2. Holds(s.work[c], s.job[c]) /\ Timed(s.now, s.work[c], s.job[c])
      BY <1>3, <2>1 DEF Fits, JobFits, Holds, Timed
    <2> QED BY <1>3, <2>1, <2>2 DEF Fits, JobFits
  <1>5. IInv(s)
    BY <1>3, <1>4 DEF IInv, Retired
  <1> QED BY <1>2, <1>3, <1>5 DEF s, work

\* _attend_career
LEMMA TakenInv ==
    ASSUME NEW s, IInv(s), \A c \in Career : s.work[c] = "no",
           NEW t \in TakenToWork(s)
    PROVE  IInv(t)
  <1>1. CASE t = s
    BY <1>1
  <1>2. ASSUME NEW c \in WithinHours(s), t = Attend(s, c, FALSE)
        PROVE  IInv(t)
    <2>1. s \in SimState
      BY DEF IInv
    <2>2. c \in Career /\ c \in s.joined /\ s.job[c].session # NONE
      BY <2>1 DEF WithinHours, IsWorkTime, SimState
    <2>3. Fits(s, c) /\ s.work[c] = "no"
      BY <2>2 DEF IInv
    <2>4. /\ Holds("no", s.job[c]) /\ Timed(s.now, "no", s.job[c])
          /\ PastFits(s.history[c]) /\ Unpaid(s.job[c])
          /\ s.work[c] = "running" => FALSE \/ s.job[c].interaction
      BY <2>3 DEF Fits, JobFits
    <2>5. Only(s, Attend(s, c, FALSE), c) /\ Fits(Attend(s, c, FALSE), c)
      BY <2>1, <2>2, <2>4, AttendFits
    <2> QED BY <1>2, <2>2, <2>5, OnlyStep
  <1> QED BY <1>1, <1>2 DEF TakenToWork

LEMMA InjectedDoes ==
    ASSUME IInv(sim), NEW default \in Default
    PROVE  \E away \in Career \cup {"default", NONE} : Injected(default) = [sim EXCEPT !.away = away]
  <1> DEFINE away == IF sim.away = NONE THEN default ELSE sim.away
  <1>1. away \in Career \cup {"default", NONE}
    BY CareerAssumption DEF IInv, SimState
  <1>2. Injected(default) = [sim EXCEPT !.away = away]
    BY DEF Injected
  <1> QED BY <1>1, <1>2

LEMMA TravelToWorkInv ==
    ASSUME IInv(sim), TravelToWork PROVE IInv(sim')
  <1>1. PICK default \in Default :
              sim' \in TakenToWork([Injected(default) EXCEPT !.instanced = FALSE,
                                                             !.work = [c \in Career |-> "no"]])
    BY DEF TravelToWork
  <1>2. PICK away \in Career \cup {"default", NONE} :
              Injected(default) = [sim EXCEPT !.away = away]
    BY InjectedDoes
  <1> DEFINE s == [sim EXCEPT !.away = away, !.instanced = FALSE,
                              !.work = [c \in Career |-> "no"]]
  <1>3. sim' \in TakenToWork(s)
    BY <1>1, <1>2
  <1>4. IInv(s) /\ \A c \in Career : s.work[c] = "no"
    BY FreedInv DEF TravelToWork
  <1> HIDE DEF s
  <1> QED BY <1>3, <1>4, TakenInv

LEMMA TravelGivenUpInv ==
    ASSUME IInv(sim), TravelGivenUp PROVE IInv(sim')
  <1>1. PICK default \in Default : sim' = Injected(default)
    BY DEF TravelGivenUp
  <1> QED BY <1>1, InjectedDoes, AwayInv

LEMMA TravelAlongInv ==
    ASSUME IInv(sim), TravelAlong PROVE IInv(sim')
  <1> DEFINE s == [sim EXCEPT !.work = [c \in Career |-> "no"]]
             same == [sim EXCEPT !.away = sim.away, !.instanced = sim.instanced,
                                 !.work = [c \in Career |-> "no"]]
  <1>1. sim' \in TakenToWork(s)
    BY DEF TravelAlong
  <1>2. sim \in SimState
    BY DEF IInv
  <1>3. s = same
    BY <1>2 DEF SimState
  <1>4. IInv(same) /\ \A c \in Career : same.work[c] = "no"
    <2>1. sim.away \in Career \cup {"default", NONE} /\ sim.instanced \in BOOLEAN
      BY <1>2 DEF SimState
    <2> QED BY <2>1, FreedInv DEF TravelAlong
  <1> HIDE DEF s, same
  <1> QED BY <1>1, <1>3, <1>4, TakenInv

LEMMA SimReturnsInv ==
    ASSUME IInv(sim), SimReturns PROVE IInv(sim')
  <1> DEFINE t == [sim EXCEPT !.instanced = TRUE, !.away = NONE]
  <1>1. sim' = t
    BY DEF SimReturns
  <1>2. /\ t \in SimState /\ t.now = sim.now /\ t.job = sim.job /\ t.history = sim.history
        /\ t.work = sim.work /\ t.joined = sim.joined /\ t.retired = sim.retired
    BY DEF IInv, SimState
  <1> HIDE DEF t
  <1> QED BY <1>1, <1>2, SameInv

-----------------------------------------------------------------------------
(* Leaving the zone and loading it                                         *)

LEMMA LoadedJobDoes ==
    ASSUME NEW s, IInv(s), NEW c \in Career, c \in s.joined
    PROVE  LET job == LoadedJob(s, c) IN
           job \in JobState /\ JobFits(s.now, "no", job) /\ Unpaid(job)
  <1> DEFINE old == s.job[c]
             alarm == NextAlarm(s.now, Shift[c], FALSE)
             n == IF old.attended THEN 1 ELSE 0
             u == old.session # NONE /\ ~IsWorkTime(s, c)
             new == [old EXCEPT !.interaction = FALSE, !.endAlarm = NONE, !.lateAlarm = NONE,
                                !.offered = {}, !.workAlarm = alarm,
                                !.listeners = n, !.untimed = u]
  <1>0. s \in SimState /\ Fits(s, c)
    BY DEF IInv
  <1>1. s.now \in TimeOfWeek /\ old \in JobState
    BY <1>0 DEF SimState
  <1>2. alarm \in Alarm
    <2>1. Shift[c] \in SUBSET Entry /\ Shift[c] # {}
      BY CareerAssumption
    <2>2. alarm \in 1 .. Week
      BY <1>1, <2>1, NextAlarmType
    <2> HIDE DEF alarm
    <2> QED BY <2>2, WeekAssumption DEF Alarm
  <1>3. n \in Nat /\ (old.attended => n > 0)
    BY <1>1 DEF JobState
  <1>4. u \in BOOLEAN /\ (u <=> old.session # NONE /\ ~IsWorkTime(s, c))
    OBVIOUS
  <1>5. LoadedJob(s, c) = IF IsWorkTime(s, c)
                          THEN WithSessionAlarms([s EXCEPT !.job[c] = new], c).job[c] ELSE new
    BY DEF LoadedJob
  <1> HIDE DEF alarm, n, u
  <1>6. /\ new \in JobState
        /\ new.endAlarm = NONE /\ new.lateAlarm = NONE /\ new.listeners = n
        /\ new.untimed = u /\ new.track = old.track /\ new.level = old.level
        /\ new.session = old.session /\ new.attended = old.attended /\ new.pays = old.pays
        /\ new.astray = old.astray
    BY <1>1, <1>2, <1>3, <1>4 DEF JobState, Alarm
  <1> HIDE DEF new
  <1>7. Holds("no", new) /\ Unpaid(new)
    BY <1>0, <1>3, <1>6 DEF Fits, JobFits, Holds, Unpaid
  <1>8. CASE IsWorkTime(s, c)
    <2> DEFINE s1 == WithJob(s, c, new)
    <2>1. s1 \in SimState /\ s1.job[c] = new /\ s1.now = s.now
      BY <1>0, <1>6, WithJobDoes DEF Only
    <2>2. LoadedJob(s, c) = WithSessionAlarms(s1, c).job[c]
      BY <1>5, <1>8 DEF WithJob
    <2> HIDE DEF s1
    <2>3. new.session # NONE /\ ~u
      BY <1>4, <1>6, <1>8 DEF IsWorkTime
    <2>4. PICK job : Alarmed(s.now, new, job)
                     /\ WithSessionAlarms(s1, c) = WithJob(s1, c, job)
      BY <2>1, <2>3, WithSessionAlarmsDoes
    <2>5. job \in JobState
      BY <2>4 DEF Alarmed
    <2>6. LoadedJob(s, c) = job
      BY <2>1, <2>2, <2>4, <2>5, WithJobDoes
    <2>7. Holds("no", job)
      BY <1>6, <1>7, <2>3, <2>4 DEF Alarmed, Keeps, Holds
    <2>8. Timed(s.now, "no", job)
      BY <2>4 DEF Alarmed, Keeps, Timed
    <2>9. Unpaid(job)
      BY <1>7, <2>4 DEF Alarmed, Keeps, Unpaid
    <2> QED BY <2>5, <2>6, <2>7, <2>8, <2>9 DEF JobFits
  <1>9. CASE ~IsWorkTime(s, c)
    <2>1. LoadedJob(s, c) = new
      BY <1>5, <1>9
    <2>2. Timed(s.now, "no", new)
      BY <1>4, <1>6, <1>9 DEF Timed
    <2> QED BY <1>6, <1>7, <2>1, <2>2 DEF JobFits
  <1> QED BY <1>8, <1>9

LEMMA LoadedAttended ==
    ASSUME NEW s \in SimState, NEW c \in Career
    PROVE  LoadedJob(s, c).attended = s.job[c].attended
  <1> DEFINE old == s.job[c]
             n == IF old.attended THEN 1 ELSE 0
             u == old.session # NONE /\ ~IsWorkTime(s, c)
             new == [old EXCEPT !.interaction = FALSE, !.endAlarm = NONE, !.lateAlarm = NONE,
                                !.offered = {}, !.workAlarm = NextAlarm(s.now, Shift[c], FALSE),
                                !.listeners = n, !.untimed = u]
  <1>1. old \in JobState
    BY DEF SimState
  <1>2. new.attended = old.attended
    BY <1>1 DEF JobState
  <1> QED BY <1>1, <1>2 DEF LoadedJob, WithSessionAlarms, SimState, JobState

LEMMA ReloadZoneInv ==
    ASSUME IInv(sim), ReloadZone PROVE IInv(sim')
  <1>0. sim \in SimState /\ sim.joined \subseteq Career
    BY DEF IInv, SimState
  <1>1. PICK away \in LoadedAway(sim) :
              LET loaded == [sim EXCEPT
                               !.loading = TRUE, !.loads = sim.loads + 1, !.dialogs = {},
                               !.away = away, !.work = [c \in Career |-> "no"],
                               !.job = [c \in Career |-> IF c \in sim.joined
                                                         THEN LoadedJob(sim, c) ELSE sim.job[c]]]
                  atWork == {c \in sim.joined : sim.instanced /\ sim.job[c].attended}
              IN  /\ ~sim.loading /\ sim.loads < MaxLoads
                  /\ \/ /\ atWork = {} /\ sim' = loaded
                     \/ \E c \in atWork : sim' = PushGoToWork(loaded, c)
                     \/ \E c \in atWork, verdict \in Verdict, default \in Default :
                          sim' = LeaveWork(loaded, c, verdict, default)
    BY DEF ReloadZone
  <1> DEFINE work == [c \in Career |-> "no"]
             job == [c \in Career |-> IF c \in sim.joined THEN LoadedJob(sim, c) ELSE sim.job[c]]
             loads == sim.loads + 1
             loaded == [sim EXCEPT !.loading = TRUE, !.loads = loads, !.dialogs = {},
                                   !.away = away, !.work = work, !.job = job]
             atWork == {c \in sim.joined : sim.instanced /\ sim.job[c].attended}
  <1>2. \/ sim' = loaded
        \/ \E c \in atWork : sim' = PushGoToWork(loaded, c)
        \/ \E c \in atWork, verdict \in Verdict, default \in Default :
              sim' = LeaveWork(loaded, c, verdict, default)
    BY <1>1
  <1>3. away \in Career \cup {"default", NONE}
    BY <1>0, CareerAssumption DEF LoadedAway, SimState
  <1>4. loads \in 0 .. MaxLoads
    <2>1. sim.loads \in 0 .. MaxLoads
      BY <1>0 DEF SimState
    <2>2. MaxLoads \in Nat
      BY CareerAssumption
    <2>3. sim.loads < MaxLoads
      BY <1>1
    <2> QED BY <2>1, <2>2, <2>3
  <1>5. work \in [Career -> {"no", "queued", "running"}] /\ \A c \in Career : work[c] = "no"
    OBVIOUS
  <1>6. \A c \in sim.joined : /\ LoadedJob(sim, c) \in JobState /\ Unpaid(LoadedJob(sim, c))
                              /\ JobFits(sim.now, "no", LoadedJob(sim, c))
    BY <1>0, LoadedJobDoes
  <1>7. /\ \A c \in Career : job[c] = IF c \in sim.joined THEN LoadedJob(sim, c)
                                      ELSE sim.job[c]
        /\ job \in [Career -> JobState]
    BY <1>0, <1>6 DEF SimState
  <1> HIDE DEF work, job, loads
  <1>8. /\ loaded \in SimState /\ loaded.now = sim.now /\ loaded.job = job
        /\ loaded.history = sim.history /\ loaded.work = work
        /\ loaded.joined = sim.joined /\ loaded.retired = sim.retired
    BY <1>0, <1>3, <1>4, <1>5, <1>7 DEF SimState
  <1> HIDE DEF loaded
  <1>9. ASSUME NEW c \in Career
        PROVE  Fits(loaded, c)
    <2>1. Fits(sim, c) /\ loaded.work[c] = "no"
      BY <1>5, <1>8 DEF IInv
    <2>2. CASE c \in sim.joined
      <3>1. JobFits(loaded.now, loaded.work[c], loaded.job[c]) /\ Unpaid(loaded.job[c])
        BY <1>6, <1>7, <1>8, <2>1, <2>2
      <3> QED BY <1>8, <2>1, <2>2, <3>1 DEF Fits
    <2>3. CASE c \notin sim.joined
      <3>1. loaded.job[c] = sim.job[c] /\ sim.job[c].session = NONE
        BY <1>7, <1>8, <2>1, <2>3 DEF Fits
      <3>2. Holds(loaded.work[c], loaded.job[c])
            /\ Timed(loaded.now, loaded.work[c], loaded.job[c])
        BY <2>1, <3>1 DEF Fits, JobFits, Holds, Timed
      <3> QED BY <1>8, <2>1, <3>1, <3>2 DEF Fits, JobFits
    <2> QED BY <2>2, <2>3
  <1>10. IInv(loaded)
    BY <1>8, <1>9 DEF IInv, Retired
  <1>11. \A c \in atWork : c \in Career /\ c \in loaded.joined /\ sim.job[c].attended
    BY <1>0, <1>8
  <1>12. CASE sim' = loaded
    BY <1>10, <1>12
  <1>13. CASE \E c \in atWork : sim' = PushGoToWork(loaded, c)
    <2>1. PICK c \in atWork : sim' = PushGoToWork(loaded, c)
      BY <1>13
    <2>2. c \in Career
      BY <1>11
    <2>3. Only(loaded, PushGoToWork(loaded, c), c) /\ Fits(PushGoToWork(loaded, c), c)
      BY <1>8, <1>9, <2>2, PushFits
    <2> QED BY <1>10, <2>1, <2>2, <2>3, OnlyStep
  <1>14. CASE \E c \in atWork, verdict \in Verdict, default \in Default :
                 sim' = LeaveWork(loaded, c, verdict, default)
    <2>1. PICK c \in atWork, verdict \in Verdict, default \in Default :
                 sim' = LeaveWork(loaded, c, verdict, default)
      BY <1>14
    <2>2. c \in Career /\ c \in loaded.joined
      BY <1>11
    <2>3. Fits(loaded, c) /\ loaded.work[c] = "no"
      BY <1>5, <1>8, <1>9, <2>2
    <2>4. CASE loaded.job[c].session = NONE
      <3>1. LeaveWork(loaded, c, verdict, default) = loaded
        BY <2>4 DEF LeaveWork
      <3> QED BY <1>10, <2>1, <3>1
    <2>5. CASE loaded.job[c].session # NONE
      <3>1. loaded.job[c].attended
        <4>1. LoadedJob(sim, c).attended = sim.job[c].attended
          BY <1>0, <2>2, LoadedAttended DEF IInv
        <4> QED BY <1>7, <1>8, <1>11, <2>2, <4>1
      <3>2. MayEnd(loaded, c) /\ loaded.job[c].listeners > 0
        BY <1>8, <2>2, <2>3, <2>5, <3>1 DEF MayEnd, Fits, JobFits, Holds, Unpaid, Owed
      <3>3. /\ Only(loaded, LeaveWork(loaded, c, verdict, default), c)
            /\ Fits(LeaveWork(loaded, c, verdict, default), c)
        BY <2>2, <3>2, LeaveWorkFits
      <3> QED BY <1>10, <2>1, <2>2, <3>3, OnlyStep
    <2> QED BY <2>4, <2>5
  <1> QED BY <1>2, <1>12, <1>13, <1>14

LEMMA LoadingFinishedInv ==
    ASSUME IInv(sim), LoadingFinished PROVE IInv(sim')
  <1>0. sim \in SimState /\ sim.joined \subseteq Career
    BY DEF IInv, SimState
  <1> DEFINE granted == [c \in sim.joined |->
                           IF sim.job[c].pending THEN Promote(sim, c) ELSE sim]
             job == [c \in Career |-> IF c \in sim.joined THEN granted[c].job[c]
                                      ELSE sim.job[c]]
             history == [c \in Career |-> IF c \in sim.joined THEN granted[c].history[c]
                                          ELSE sim.history[c]]
             t == [sim EXCEPT !.loading = FALSE, !.job = job, !.history = history]
  <1>1. sim' = t
    BY DEF LoadingFinished
  <1>2. \A c \in sim.joined : Leveled(sim, granted[c], c)
    <2> TAKE c \in sim.joined
    <2>1. c \in Career
      BY <1>0
    <2>2. Holds(sim.work[c], sim.job[c]) /\ PastFits(sim.history[c])
      BY <2>1 DEF IInv, Fits, JobFits
    <2>3. Leveled(sim, Promote(sim, c), c) /\ Leveled(sim, sim, c)
      BY <1>0, <2>1, <2>2, PromoteDoes, SameLeveled
    <2> QED BY <2>3
  <1> HIDE DEF granted
  <1>3. \A c \in Career : /\ job[c] = IF c \in sim.joined THEN granted[c].job[c] ELSE sim.job[c]
                          /\ history[c] = IF c \in sim.joined THEN granted[c].history[c]
                                          ELSE sim.history[c]
    OBVIOUS
  <1>4. \A c \in sim.joined : /\ granted[c].job[c] \in JobState
                              /\ granted[c].history[c] \in [track : Track, level : Nat] \cup {NONE}
    BY <1>0, <1>2 DEF Leveled, Only, SimState
  <1>5. /\ job \in [Career -> JobState]
        /\ history \in [Career -> [track : Track, level : Nat] \cup {NONE}]
    BY <1>0, <1>4 DEF SimState
  <1> HIDE DEF job, history
  <1>6. /\ t \in SimState /\ t.now = sim.now /\ t.job = job /\ t.history = history
        /\ t.work = sim.work /\ t.joined = sim.joined /\ t.retired = sim.retired
    BY <1>0, <1>5 DEF SimState
  <1> HIDE DEF t
  <1>7. ASSUME NEW c \in Career
        PROVE  Fits(t, c)
    <2>1. Fits(sim, c)
      BY DEF IInv
    <2>2. CASE c \notin sim.joined
      <3>1. t.job[c] = sim.job[c] /\ t.history[c] = sim.history[c]
        BY <1>3, <1>6, <2>2
      <3> QED BY <1>6, <2>1, <3>1 DEF Fits
    <2>3. CASE c \in sim.joined
      <3> DEFINE u == granted[c]
      <3>1. t.job[c] = u.job[c] /\ t.history[c] = u.history[c]
        BY <1>3, <1>6, <2>3
      <3>2. Leveled(sim, u, c)
        BY <1>2, <2>3
      <3> HIDE DEF u
      <3>3. u.now = sim.now /\ u.work = sim.work
        BY <3>2 DEF Leveled, Only
      <3>4. JobFits(t.now, t.work[c], t.job[c]) /\ PastFits(t.history[c])
        BY <1>6, <2>1, <3>1, <3>2, <3>3 DEF Leveled, Fits, JobFits
      <3>5. Unpaid(t.job[c])
        BY <2>1, <3>1, <3>2 DEF Leveled, Keeps, Fits, Unpaid
      <3> QED BY <1>6, <2>3, <3>4, <3>5 DEF Fits
    <2> QED BY <2>2, <2>3
  <1>8. Retired(t)
    <2>1. ASSUME sim.retired # NONE
          PROVE  t.joined = {} /\ t.history[t.retired] # NONE
      <3>1. sim.joined = {} /\ sim.history[sim.retired] # NONE /\ sim.retired \in Career
        BY <1>0, <2>1 DEF IInv, Retired, SimState
      <3> QED BY <1>3, <1>6, <3>1
    <2> QED BY <1>6, <2>1 DEF Retired
  <1> QED BY <1>1, <1>6, <1>7, <1>8 DEF IInv

-----------------------------------------------------------------------------
(* Time                                                                    *)

LEMMA ElapseDoes ==
    ASSUME NEW alarm \in Alarm, alarm # 0
    PROVE  /\ Elapse(alarm) \in Alarm
           /\ Elapse(alarm) = NONE <=> alarm = NONE
           /\ alarm # NONE => Elapse(alarm) = alarm - 1
  <1>1. CASE alarm = NONE
    BY <1>1 DEF Elapse, Alarm
  <1>2. CASE alarm # NONE
    <2>1. alarm \in 1 .. Week + 1
      BY <1>2, WeekAssumption DEF Alarm
    <2>2. alarm - 1 \in 0 .. Week + 1 /\ alarm - 1 \in Nat
      BY <2>1, WeekAssumption
    <2>3. alarm - 1 # NONE
      BY <2>2, CareerAssumption
    <2> QED BY <1>2, <2>2, <2>3 DEF Elapse, Alarm
  <1> QED BY <1>1, <1>2

LEMMA OlderDoes ==
    ASSUME NEW job \in JobState, 0 \notin Alarms(job)
    PROVE  LET new == Older(job) IN
           /\ new \in JobState
           /\ new.track = job.track /\ new.level = job.level /\ new.untimed = job.untimed
           /\ new.attended = job.attended /\ new.interaction = job.interaction
           /\ new.listeners = job.listeners /\ new.pays = job.pays
           /\ new.astray = job.astray
           /\ new.session = NONE <=> job.session = NONE
           /\ job.session # NONE => new.session.end = job.session.end
           /\ new.workAlarm = Elapse(job.workAlarm) /\ new.endAlarm = Elapse(job.endAlarm)
           /\ new.lateAlarm = Elapse(job.lateAlarm)
  <1> DEFINE delay == IF job.delay >= 0 THEN job.delay - 1 ELSE job.delay
             age == IF job.session.age < Week THEN job.session.age + 1 ELSE Week
             session == IF job.session = NONE THEN NONE ELSE [job.session EXCEPT !.age = age]
             w == Elapse(job.workAlarm)
             e == Elapse(job.endAlarm)
             l == Elapse(job.lateAlarm)
             new == [job EXCEPT !.workAlarm = w, !.endAlarm = e, !.lateAlarm = l,
                                !.delay = delay, !.session = session]
  <1>1. Older(job) = new
    BY DEF Older
  <1>2. w \in Alarm /\ e \in Alarm /\ l \in Alarm
    BY ElapseDoes DEF Alarms, JobState
  <1>3. delay \in -1 .. JobStartDelay
    BY CareerAssumption DEF JobState
  <1>4. /\ session \in Session \cup {NONE} /\ (session = NONE <=> job.session = NONE)
        /\ job.session # NONE => session.end = job.session.end
    <2>1. CASE job.session = NONE
      BY <2>1
    <2>2. CASE job.session # NONE
      <3>1. job.session \in Session
        BY <2>2 DEF JobState
      <3>2. age \in 0 .. Week
        BY <3>1, WeekAssumption DEF Session
      <3> HIDE DEF age
      <3>3. session = [job.session EXCEPT !.age = age]
        BY <2>2
      <3> HIDE DEF session
      <3>4. session \in Session /\ session.end = job.session.end
        BY <3>1, <3>2, <3>3 DEF Session
      <3>5. session # NONE
        BY <3>4, SessionExists
      <3> QED BY <2>2, <3>4, <3>5
    <2> QED BY <2>1, <2>2
  <1> HIDE DEF delay, age, session, w, e, l
  <1>5. /\ new \in JobState
        /\ new.track = job.track /\ new.level = job.level /\ new.untimed = job.untimed
        /\ new.attended = job.attended /\ new.interaction = job.interaction
        /\ new.listeners = job.listeners /\ new.pays = job.pays
        /\ new.astray = job.astray
        /\ new.session = session
        /\ new.workAlarm = w /\ new.endAlarm = e /\ new.lateAlarm = l
    BY <1>2, <1>3, <1>4 DEF JobState
  <1> HIDE DEF new
  <1> QED BY <1>1, <1>4, <1>5 DEF w, e, l

LEMMA TickInv ==
    ASSUME IInv(sim), Tick PROVE IInv(sim')
  <1>0. sim \in SimState
    BY DEF IInv
  <1> DEFINE now == (sim.now + 1) % Week
             job == [c \in Career |-> Older(sim.job[c])]
             t == [sim EXCEPT !.now = now, !.job = job]
  <1>1. sim' = t
    BY DEF Tick
  <1>2. \A c \in Career : 0 \notin Alarms(sim.job[c]) /\ InTime(c)
    BY DEF Tick
  <1>3. now \in TimeOfWeek
    <2>1. sim.now + 1 \in Int
      BY <1>0 DEF SimState, TimeOfWeek
    <2> QED BY <2>1, WeekTime
  <1>4. \A c \in Career : sim.job[c] \in JobState /\ Older(sim.job[c]) \in JobState
    BY <1>0, <1>2, OlderDoes DEF SimState
  <1>5. job \in [Career -> JobState] /\ \A c \in Career : job[c] = Older(sim.job[c])
    BY <1>4
  <1> HIDE DEF job
  <1>6. ASSUME NEW c \in Career
        PROVE  Fits([sim EXCEPT !.now = now, !.job = job], c)
    <2> DEFINE old == sim.job[c]
               new == job[c]
               end == old.session.end
    <2>1. /\ new.track = old.track /\ new.level = old.level /\ new.untimed = old.untimed
          /\ new.attended = old.attended /\ new.interaction = old.interaction
          /\ new.listeners = old.listeners /\ new.pays = old.pays
          /\ new.astray = old.astray
          /\ new.session = NONE <=> old.session = NONE
          /\ old.session # NONE => new.session.end = end
          /\ new.workAlarm = Elapse(old.workAlarm) /\ new.endAlarm = Elapse(old.endAlarm)
          /\ new.lateAlarm = Elapse(old.lateAlarm)
      BY <1>2, <1>4, <1>5, OlderDoes
    <2>2. /\ old.workAlarm \in Alarm /\ old.workAlarm # 0
          /\ old.endAlarm \in Alarm /\ old.endAlarm # 0
          /\ old.lateAlarm \in Alarm /\ old.lateAlarm # 0
      BY <1>2, <1>4 DEF Alarms, JobState
    <2>3. /\ new.workAlarm = NONE <=> old.workAlarm = NONE
          /\ new.endAlarm = NONE <=> old.endAlarm = NONE
          /\ new.lateAlarm = NONE <=> old.lateAlarm = NONE
          /\ old.endAlarm # NONE => new.endAlarm = old.endAlarm - 1
      BY <2>1, <2>2, ElapseDoes
    <2>4. JobFits(sim.now, sim.work[c], old) /\ PastFits(sim.history[c]) /\ Unpaid(old)
          /\ (c \notin sim.joined => old.session = NONE /\ old.workAlarm = NONE)
      BY DEF IInv, Fits
    <2>5. sim.work[c] = "running" => old.session # NONE
      BY <1>2 DEF InTime
    <2>6. Timed(now, sim.work[c], new)
      <3>1. ASSUME old.session # NONE, old.endAlarm # NONE,
                   old.endAlarm = TicksTo(sim.now, end) + 1
            PROVE  new.endAlarm = 0 \/ new.endAlarm = TicksTo(now, end) + 1
        <4>1. end \in TimeOfWeek /\ sim.now \in TimeOfWeek
          BY <1>0, <1>4, <3>1 DEF JobState, Session, SimState
        <4>2. /\ TicksTo(sim.now, end) \in Int
              /\ TicksTo(sim.now, end) # 0 => TicksTo(now, end) = TicksTo(sim.now, end) - 1
          BY <4>1, TicksToPasses DEF TimeOfWeek
        <4>3. new.endAlarm = TicksTo(sim.now, end)
          BY <2>3, <3>1, <4>2
        <4> HIDE DEF new, now, end
        <4> QED BY <4>2, <4>3
      <3> HIDE DEF new, old, now, end
      <3>2. CASE new.session # NONE /\ ~new.untimed
        <4>1. old.session # NONE /\ ~old.untimed /\ new.session.end = end
          BY <2>1, <3>2
        <4>2. \/ old.endAlarm # NONE /\ old.endAlarm = TicksTo(sim.now, old.session.end) + 1
              \/ old.interaction /\ sim.work[c] = "running"
          BY <2>2, <2>4, <4>1 DEF JobFits, Timed
        <4> QED BY <2>1, <2>3, <3>1, <4>1, <4>2 DEF Timed, end
      <3> QED BY <3>2 DEF Timed
    <2> HIDE DEF new, old
    <2>7. Holds(sim.work[c], new)
      BY <2>1, <2>3, <2>4, <2>5 DEF JobFits, Holds
    <2>8. Unpaid(new) /\ (c \notin sim.joined => new.session = NONE /\ new.workAlarm = NONE)
      BY <2>1, <2>3, <2>4 DEF Unpaid
    <2>9. /\ t.now = now /\ t.job[c] = new /\ t.work = sim.work
          /\ t.history = sim.history /\ t.joined = sim.joined
      BY <1>0 DEF SimState, new
    <2> HIDE DEF t, now
    <2>10. Fits(t, c)
      BY <2>4, <2>6, <2>7, <2>8, <2>9 DEF Fits, JobFits
    <2> QED BY <2>10 DEF t
  <1> HIDE DEF now
  <1>7. /\ t \in SimState /\ t.retired = sim.retired
        /\ t.history = sim.history /\ t.joined = sim.joined
    BY <1>0, <1>3, <1>5 DEF SimState
  <1>8. \A c \in Career : Fits(t, c)
    BY <1>6
  <1> HIDE DEF t
  <1> QED BY <1>1, <1>7, <1>8 DEF IInv, Retired

LEMMA WorkAlarmInv ==
    ASSUME IInv(sim), NEW c \in Career, WorkAlarm(c) PROVE IInv(sim')
  <1>1. PICK entry \in Beginning(sim.now, Shift[c]) :
              sim' = CareerStart(StartWork(sim, c, entry), c)
    BY DEF WorkAlarm
  <1>2. entry \in Entry
    <2>1. Shift[c] \in SUBSET Entry
      BY CareerAssumption
    <2> QED BY <2>1 DEF Beginning
  <1>3. sim \in SimState /\ Fits(sim, c) /\ sim.job[c].workAlarm = 0
    BY DEF IInv, WorkAlarm
  <1>4. c \in sim.joined
    BY <1>3, CareerAssumption DEF Fits
  <1> DEFINE u == StartWork(sim, c, entry)
             t == CareerStart(u, c)
  <1>5. Only(sim, u, c) /\ Fits(u, c) /\ u.joined = sim.joined
    BY <1>2, <1>3, <1>4, StartWorkFits
  <1>6. sim' = t
    BY <1>1
  <1> HIDE DEF u
  <1>7. u \in SimState
    BY <1>5 DEF Only
  <1>8. Only(u, t, c) /\ Fits(t, c)
    BY <1>4, <1>5, <1>7, CareerStartFits
  <1> HIDE DEF t
  <1>9. Only(sim, t, c)
    BY <1>5, <1>8, OnlyAgain
  <1> QED BY <1>6, <1>8, <1>9, OnlyStep

LEMMA EndAlarmInv ==
    ASSUME IInv(sim), NEW c \in Career, EndAlarm(c) PROVE IInv(sim')
  <1> DEFINE job == [sim.job[c] EXCEPT !.endAlarm = NONE]
             s == WithJob(sim, c, job)
  <1>1. PICK verdict \in Verdict, default \in Default : sim' = EndWork(s, c, verdict, default)
    BY DEF EndAlarm, WithJob
  <1>2. sim \in SimState /\ Fits(sim, c) /\ sim.job[c].endAlarm = 0
    BY DEF IInv, EndAlarm
  <1>3. sim.job[c].session # NONE /\ c \in sim.joined
    BY <1>2, CareerAssumption DEF Fits, JobFits, Holds
  <1>4. sim.job[c] \in JobState
    BY <1>2 DEF SimState
  <1>5. /\ job \in JobState /\ Keeps(sim.job[c], job) /\ job.endAlarm = NONE
        /\ job.track = sim.job[c].track /\ job.level = sim.job[c].level
        /\ job.workAlarm = sim.job[c].workAlarm /\ job.lateAlarm = sim.job[c].lateAlarm
        /\ job.untimed = sim.job[c].untimed
    BY <1>4 DEF JobState, Alarm, Keeps
  <1> HIDE DEF job
  <1>6. /\ Only(sim, s, c) /\ s.job[c] = job
        /\ s.joined = sim.joined /\ s.history = sim.history /\ s.work = sim.work
    BY <1>2, <1>5, WithJobDoes
  <1> HIDE DEF s
  <1>7. s \in SimState
    BY <1>6 DEF Only
  <1>8. Holds(s.work[c], s.job[c])
    BY <1>2, <1>3, <1>5, <1>6 DEF Fits, JobFits, Holds, Keeps
  <1>9. PastFits(s.history[c]) /\ Unpaid(s.job[c])
    BY <1>2, <1>5, <1>6 DEF Fits, Unpaid, Keeps
  <1>10. s.job[c].session # NONE /\ c \in s.joined
    BY <1>3, <1>5, <1>6 DEF Keeps
  <1>11. CASE InteractionAlive(s, c)
    <2>1. Timed(s.now, s.work[c], s.job[c])
      BY <1>11 DEF InteractionAlive, Timed
    <2>2. Fits(s, c)
      BY <1>8, <1>9, <1>10, <2>1 DEF Fits, JobFits
    <2>3. sim' = s
      BY <1>1, <1>11 DEF EndWork
    <2> QED BY <1>6, <2>2, <2>3, OnlyStep
  <1>12. CASE ~InteractionAlive(s, c)
    <2>1. MayEnd(s, c)
      <3>1. s.work[c] # "running"
        BY <1>8, <1>10, <1>12 DEF Holds, InteractionAlive
      <3> QED BY <1>7, <1>8, <1>9, <1>10, <3>1 DEF MayEnd, Unpaid, Owed
    <2>2. CASE s.job[c].attended
      <3> DEFINE t == LeaveWork(s, c, verdict, default)
      <3>1. s.job[c].listeners > 0
        BY <1>8, <2>2 DEF Holds
      <3>2. Only(s, t, c) /\ Fits(t, c)
        BY <2>1, <3>1, LeaveWorkFits
      <3>3. sim' = t
        BY <1>1, <1>12, <2>2 DEF EndWork
      <3> HIDE DEF t
      <3>4. Only(sim, t, c)
        BY <1>6, <3>2, OnlyAgain
      <3> QED BY <3>2, <3>3, <3>4, OnlyStep
    <2>3. CASE ~s.job[c].attended
      <3> DEFINE t == EndSession(CareerLoot(s, c, verdict), c)
      <3>1. Only(s, t, c) /\ Fits(t, c)
        BY <2>1, MissedFits
      <3>2. sim' = t
        BY <1>1, <1>12, <2>3 DEF EndWork
      <3> HIDE DEF t
      <3>3. Only(sim, t, c)
        BY <1>6, <3>1, OnlyAgain
      <3> QED BY <3>1, <3>2, <3>3, OnlyStep
    <2> QED BY <2>2, <2>3
  <1> QED BY <1>11, <1>12

LEMMA LateAlarmInv ==
    ASSUME IInv(sim), NEW c \in Career, LateAlarm(c) PROVE IInv(sim')
  <1> DEFINE job == [sim.job[c] EXCEPT !.lateAlarm = NONE]
             t == WithJob(sim, c, job)
  <1>1. sim' = t
    BY DEF LateAlarm, WithJob
  <1>2. sim \in SimState /\ Fits(sim, c)
    BY DEF IInv
  <1>3. sim.job[c] \in JobState
    BY <1>2 DEF SimState
  <1>4. /\ job \in JobState /\ Keeps(sim.job[c], job) /\ job.lateAlarm = NONE
        /\ job.track = sim.job[c].track /\ job.level = sim.job[c].level
        /\ job.workAlarm = sim.job[c].workAlarm /\ job.endAlarm = sim.job[c].endAlarm
        /\ job.untimed = sim.job[c].untimed
    BY <1>3 DEF JobState, Alarm, Keeps
  <1> HIDE DEF job
  <1>5. /\ Only(sim, t, c) /\ t.job[c] = job
        /\ t.joined = sim.joined /\ t.history = sim.history /\ t.work = sim.work
    BY <1>2, <1>4, WithJobDoes
  <1> HIDE DEF t
  <1>6. t.now = sim.now
    BY <1>5 DEF Only
  <1>7. Holds(t.work[c], t.job[c])
    BY <1>2, <1>4, <1>5 DEF Fits, JobFits, Holds, Keeps
  <1>8. Timed(t.now, t.work[c], t.job[c])
    BY <1>2, <1>4, <1>5, <1>6 DEF Fits, JobFits, Timed, Keeps
  <1>9. Fits(t, c)
    BY <1>2, <1>4, <1>5, <1>7, <1>8 DEF Fits, JobFits, Unpaid, Keeps
  <1> QED BY <1>1, <1>5, <1>9, OnlyStep

-----------------------------------------------------------------------------
(* The theorems                                                            *)

LEMMA InitInv == Init => IInv(sim)
  <1> SUFFICES ASSUME Init PROVE IInv(sim)
    OBVIOUS
  <1> DEFINE job == [c \in Career |-> NoJob(c)]
             history == [c \in Career |-> NONE]
             work == [c \in Career |-> "no"]
  <1>1. sim = [ now |-> 0, instanced |-> TRUE, loading |-> FALSE, loads |-> 0,
                joined |-> {}, job |-> job, history |-> history,
                retired |-> NONE, dialogs |-> {}, away |-> NONE, work |-> work ]
    BY DEF Init
  <1>2. /\ 0 \in TimeOfWeek /\ 0 \in 0 .. MaxLoads
        /\ {} \in SUBSET Career /\ {} \in SUBSET Dialog
    BY WeekTime, CareerAssumption
  <1>3. /\ job \in [Career -> JobState]
        /\ history \in [Career -> [track : Track, level : Nat] \cup {NONE}]
        /\ work \in [Career -> {"no", "queued", "running"}]
    BY NoJobDoes
  <1>4. \A c \in Career : job[c] = NoJob(c) /\ history[c] = NONE
    OBVIOUS
  <1> HIDE DEF job, history, work
  <1>5. sim \in SimState
    BY <1>1, <1>2, <1>3 DEF SimState
  <1>6. ASSUME NEW c \in Career
        PROVE  Fits(sim, c)
    <2>1. sim.job[c] = NoJob(c) /\ sim.history[c] = NONE
      BY <1>1, <1>4
    <2>2. /\ JobFits(sim.now, sim.work[c], sim.job[c]) /\ Unpaid(sim.job[c])
          /\ sim.job[c].session = NONE /\ sim.job[c].workAlarm = NONE
      BY <2>1, NoJobDoes
    <2> QED BY <2>1, <2>2 DEF Fits, PastFits
  <1>7. sim.retired = NONE
    BY <1>1
  <1> QED BY <1>5, <1>6, <1>7 DEF IInv, Retired

LEMMA NextInv == IInv(sim) /\ [Next]_sim => IInv(sim')
  <1> SUFFICES ASSUME IInv(sim), [Next]_sim PROVE IInv(sim')
    OBVIOUS
  <1>1. CASE UNCHANGED sim
    BY <1>1
  <1>2. ASSUME NEW c \in Career, Player(c)
        PROVE  IInv(sim')
    BY <1>2, SelectInv, BranchChosenInv, QuitInv, RetireInv, PickedLevelInv, GoToWorkInv,
       LeaveEarlyInv, ToneChosenInv DEF Player
  <1>3. ASSUME NEW c \in Career, Work(c)
        PROVE  IInv(sim')
    BY <1>3, InteractionStartsInv, InteractionDroppedInv, InteractionEndsInv,
       WorkAlarmInv, EndAlarmInv, LateAlarmInv DEF Work
  <1>4. ASSUME NEW dialog \in sim.dialogs, Accept(dialog) \/ Decline(dialog)
        PROVE  IInv(sim')
    BY <1>4, AcceptInv, DeclineInv
  <1>5. CASE \/ CallInSick \/ AwayActionExits
             \/ TravelToWork \/ TravelGivenUp \/ TravelAlong \/ SimReturns
             \/ ReloadZone \/ LoadingFinished \/ Tick
    BY <1>5, CallInSickInv, AwayActionExitsInv, TravelToWorkInv, TravelGivenUpInv,
       TravelAlongInv, SimReturnsInv, ReloadZoneInv, LoadingFinishedInv, TickInv
  <1> QED BY <1>1, <1>2, <1>3, <1>4, <1>5 DEF Next

\* Every step of the careers keeps the inductive invariant.
THEOREM InvariantHolds == Spec => []IInv(sim)
  <1>1. Init => IInv(sim)
    BY InitInv
  <1>2. IInv(sim) /\ [Next]_sim => IInv(sim)'
    BY NextInv
  <1> QED BY <1>1, <1>2, PTL DEF Spec

\* A Sim is always at a level its track has, whatever promotes and demotes it, and a
\* career it left is remembered at one.
THEOREM CareerTypeCorrect == Spec => []TypeOK
  <1>1. IInv(sim) => TypeOK
    BY DEF IInv, Fits, JobFits, Holds, PastFits, TypeOK
  <1> QED BY <1>1, InvariantHolds, PTL

\* Whatever order the alarm of its end, the end of the interaction, the player and a
\* reload of the zone come in, a shift is paid once at its end, and before that once
\* for every command to leave that comes before the Sim has.
THEOREM PaidStaysOnce == Spec => []PaidOncePerShift
  <1>1. IInv(sim) => PaidOncePerShift
    BY DEF IInv, Fits, Unpaid, PaidOncePerShift
  <1> QED BY <1>1, InvariantHolds, PTL

\* A Sim at work has the session and the tones that leave_work needs, and an open
\* session whose alarm nothing has dropped has that alarm, set for its end, or the
\* interaction the alarm found.
THEOREM SessionStaysEnding == Spec => []SessionWillEnd
  <1>1. IInv(sim) => SessionWillEnd
    BY DEF IInv, Fits, JobFits, Holds, Timed, InteractionAlive, SessionWillEnd
  <1> QED BY <1>1, InvariantHolds, PTL

\* A retired Sim never has a career, and its pension can be looked up.
THEOREM RetiredStaysWithoutCareer == Spec => []RetiredHasNoCareer
  <1>1. IInv(sim) => RetiredHasNoCareer
    BY DEF IInv, Retired, RetiredHasNoCareer
  <1> QED BY <1>1, InvariantHolds, PTL

===============================================================================
