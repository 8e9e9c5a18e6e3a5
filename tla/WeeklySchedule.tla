---------------------------- MODULE WeeklySchedule ----------------------------
(***************************************************************************)
(* simulation/scheduler.py: schedules that repeat every week, and the time *)
(* of the week of simulation/date_and_time.py they are made of. A time is  *)
(* counted in ticks from the beginning of the week; an entry is a record   *)
(* of the start and the end of an event.                                   *)
(***************************************************************************)
EXTENDS Integers, FiniteSets

CONSTANT Week        \* ticks in a week

ASSUME WeekAssumption == Week \in Nat \ {0}

TimeOfWeek == 0 .. Week - 1

\* An event begins within the week, lasts, and is shorter than the week; it may
\* run past the end of the week.
Entry == {e \in [start : TimeOfWeek, end : 1 .. 2 * Week - 1] :
             e.start < e.end /\ e.end < e.start + Week}

-----------------------------------------------------------------------------
(* DateAndTime                                                             *)

\* time_to_week_time
TicksTo(now, time) ==
    LET difference == (time % Week) - now
    IN  IF difference < 0 THEN difference + Week ELSE difference

\* time_between_week_times, both ends included
Between(now, start, end) ==
    IF (start % Week) > (end % Week)
    THEN now >= (start % Week) \/ now <= (end % Week)
    ELSE now >= (start % Week) /\ now <= (end % Week)

\* time_till_timespan_of_week; with immediate, 0 for an event that is going on.
TicksTill(now, entry, immediate, minRemaining) ==
    IF entry.start > now THEN entry.start - now
    ELSE IF immediate /\ entry.end > now /\ entry.end - now >= minRemaining THEN 0
    ELSE Week - now + entry.start

-----------------------------------------------------------------------------
(* WeeklySchedule, without random starts, cooldowns and early warnings     *)

\* time_until_next_scheduled_event: an event than which none is nearer.
IsNext(now, entries, immediate, entry) ==
    /\ entry \in entries
    /\ \A other \in entries :
          TicksTill(now, entry, immediate, 0) <= TicksTill(now, other, immediate, 0)

NextEvent(now, entries, immediate) ==
    CHOOSE entry \in entries : IsNext(now, entries, immediate, entry)

\* its first result
TicksUntilNext(now, entries, immediate) ==
    TicksTill(now, NextEvent(now, entries, immediate), immediate, 0)

\* _schedule_next_alarm: in how many ticks the alarm goes off.
NextAlarm(now, entries, immediate) ==
    LET ticks == TicksUntilNext(now, entries, immediate)
    IN  IF ticks = 0 /\ immediate THEN 1 ELSE ticks

\* _alarm_callback calls back for the events that were next when the alarm was
\* set, which are those that begin now.
Beginning(now, entries) == {entry \in entries : entry.start = now}
=============================================================================
