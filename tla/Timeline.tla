------------------------------- MODULE Timeline -------------------------------
(***************************************************************************)
(* The timeline every part of the simulation is scheduled on               *)
(* (simulation/scheduling.py), the elements that run on it (elements.py)   *)
(* and the alarms, which are elements with a handle that whoever set the   *)
(* alarm keeps (alarms.py).                                                *)
(*                                                                         *)
(* Elements form trees. An element that runs a child waits for it; what    *)
(* stops an element hard stops its whole tree. The callback of a function  *)
(* or of an alarm may do anything to the timeline it runs on. Times are    *)
(* relative to now, so that time goes on without a bound.                  *)
(***************************************************************************)
EXTENDS Integers, Sequences

CONSTANTS
    Element, NONE,
    Kind,          \* the class of each element
    Parts,         \* the elements each is built from
    Delay,         \* the delay of a sleep, the interval of a repeating alarm
    MaxDelay,      \* bound: on delays, and on the time an element is scheduled for
    MaxAdvance,    \* bound: by how much the clock advances between simulations
    MaxRuns        \* bound: how often each root of a tree is scheduled

Alarms == {e \in Element : Kind[e] \in {"alarm", "repeating"}}
Calling == {e \in Element : Kind[e] = "function"} \cup Alarms
Component(e) == {Parts[e][i] : i \in DOMAIN Parts[e]}
Roots == Element \ UNION {Component(e) : e \in Element}

\* What an element is a part of, and the elements from it up to the root of its tree.
Owner == [e \in Element |-> IF e \in Roots THEN NONE
                            ELSE CHOOSE f \in Element : e \in Component(f)]
Above == [e \in Element |->
            {f \in Element : \A S \in SUBSET Element :
                e \in S /\ (\A g \in S : Owner[g] \in S \cup {NONE}) => f \in S}]

ASSUME TimelineAssumption ==
    /\ Kind \in [Element -> {"function", "sleep", "softsleep", "critical", "finally",
                             "mustrun", "repeat", "all", "alarm", "repeating"}]
    /\ Parts \in [Element -> Seq(Element)]
    /\ \A e \in Element :
          /\ Kind[e] = "critical" => Len(Parts[e]) = 2
          /\ Kind[e] \in {"finally", "mustrun", "repeat"} => Len(Parts[e]) = 1
          /\ Kind[e] \in {"function", "sleep", "softsleep", "alarm", "repeating"}
                => Len(Parts[e]) = 0
    /\ \A e, f \in Element : \A i \in DOMAIN Parts[e], j \in DOMAIN Parts[f] :
          Parts[e][i] = Parts[f][j] => e = f /\ i = j
    /\ Alarms \subseteq Roots
    /\ Delay \in [Element -> 1 .. MaxDelay] /\ MaxDelay \in Nat
    /\ NONE \notin Element \cup Nat
    /\ MaxAdvance \in Nat \ {0} /\ MaxRuns \in Nat \ {0}

VARIABLE tl        \* see TimelineState

-----------------------------------------------------------------------------
(* State                                                                   *)

\* handle: the element has none, a live one, or one whose element is cleared.
\* when is its place in the heap; scheduled, parent and children are
\* _scheduled, _parent_handle and the children's handles. state is the
\* element's own, saved the result it remembers. phase is where simulate is,
\* due how far it still has to go. registered are the alarms found in
\* _ALARM_ELEMENT_HANDLES, held those whose handle somebody refers to.
\* History: void are the alarms that were cancelled, collected or lost their
\* owner; entered and finals count how often a finally is entered and called.
TimelineState ==
    [ handle : [Element -> {"none", "live", "cleared"}],
      when : [Element -> 0 .. MaxDelay \cup {NONE}],
      scheduled : [Element -> BOOLEAN],
      parent : [Element -> Element \cup {NONE}],
      children : [Element -> SUBSET Element],
      state : [Element -> {"init", "work", "cleanup", "slept", "finally"}],
      saved : [Element -> BOOLEAN],
      softStopped : [Element -> BOOLEAN],
      runs : [Element -> 0 .. MaxRuns],
      phase : {"idle", "pick", "run", "resume", "callback"},
      active : Element \cup {NONE}, result : BOOLEAN,
      pending : BOOLEAN, worked : BOOLEAN, due : 0 .. MaxAdvance,
      registered : SUBSET Alarms, held : SUBSET Alarms, void : SUBSET Alarms,
      entered : [Element -> Nat], finals : [Element -> Nat] ]

Each(x) == [e \in Element |-> x]

Init ==
    tl = [ handle |-> Each("none"), when |-> Each(NONE), scheduled |-> Each(FALSE),
           parent |-> Each(NONE), children |-> Each({}), state |-> Each("init"),
           saved |-> Each(TRUE), softStopped |-> Each(FALSE), runs |-> Each(0),
           phase |-> "idle", active |-> NONE, result |-> TRUE,
           pending |-> FALSE, worked |-> FALSE, due |-> 0,
           registered |-> {}, held |-> {}, void |-> {},
           entered |-> Each(0), finals |-> Each(0) ]

Live(s, e) == s.handle[e] = "live"

-----------------------------------------------------------------------------
(* Stopping                                                                *)

\* Whether the element is linked with the one it is a part of: _get_child_handles of
\* that one finds it, and its own _parent_handle leads there.
Linked(s, e) == Live(s, e) /\ s.parent[e] # NONE /\ e \in s.children[s.parent[e]]

\* _collect_element_tree, which goes up to the root and then down to all there is: two
\* elements are collected together when all that lies between them is linked.
Tree(s, e) ==
    {f \in Element : /\ Live(s, f) /\ Above[e] \cap Above[f] # {}
                     /\ \A g \in Above[e] \ Above[f] : Linked(s, g)
                     /\ \A g \in Above[f] \ Above[e] : Linked(s, g)}

\* _stop_element_tree of a tree that is not active: the handles are cleared, then
\* _hard_stop calls what is to be called finally.
StopTree(s, e) ==
    LET tree == Tree(s, e)
        called == {f \in tree : Kind[f] = "finally" /\ s.state[f] = "finally"}
    IN  [s EXCEPT
          !.handle = [f \in Element |-> IF f \in tree THEN "cleared" ELSE @[f]],
          !.when = [f \in Element |-> IF f \in tree THEN NONE ELSE @[f]],
          !.scheduled = [f \in Element |-> @[f] /\ f \notin tree],
          !.children = [f \in Element |-> IF f \in tree THEN {} ELSE @[f]],
          !.state = [f \in Element |-> IF f \in called THEN "init" ELSE @[f]],
          !.finals = [f \in Element |-> IF f \in called THEN @[f] + 1 ELSE @[f]]]

\* Whether hard_stop raises HardStopError.
StopsActive(s, e) == s.active # NONE /\ s.active \in Tree(s, e)

\* hard_stop; where it raises, only a hard stop is pending.
HardStop(s, e) ==
    IF ~Live(s, e) THEN s
    ELSE IF StopsActive(s, e) THEN [s EXCEPT !.pending = TRUE]
    ELSE StopTree(s, e)

\* What soft_stop visits: a MustRunElement answers for what is below it.
Softened(s, e) ==
    {f \in Element : /\ Live(s, f) /\ e \in Above[f]
                     /\ \A g \in Above[f] \ Above[e] :
                           Linked(s, g) /\ Kind[Owner[g]] # "mustrun"}

\* Mutant: the handle that is rescheduled is not pushed on the heap again.
Mutant_NotPushed(s, e) ==
    LET stopped == {f \in Softened(s, e) : Kind[f] \in {"sleep", "softsleep", "repeat"}}
    IN  [s EXCEPT
          !.softStopped = [f \in Element |-> @[f] \/ f \in stopped],
          !.when = [f \in Element |->
                      IF f \in stopped /\ Kind[f] = "softsleep" /\ ~s.softStopped[f]
                      THEN NONE ELSE @[f]]]

\* soft_stop; a SoftSleepElement is rescheduled for now.
SoftStop(s, e) ==
    LET stopped == {f \in Softened(s, e) : Kind[f] \in {"sleep", "softsleep", "repeat"}}
    IN  [s EXCEPT
          !.softStopped = [f \in Element |-> @[f] \/ f \in stopped],
          !.when = [f \in Element |->
                      IF f \in stopped /\ Kind[f] = "softsleep" /\ ~s.softStopped[f]
                      THEN 0 ELSE @[f]]]

-----------------------------------------------------------------------------
(* Running                                                                 *)

\* schedule
Schedule(s, e, when) ==
    [s EXCEPT !.handle[e] = "live", !.when[e] = when, !.scheduled[e] = TRUE]

Adopted(s, e, children) ==
    [s EXCEPT
      !.scheduled[e] = TRUE, !.children[e] = children,
      !.handle = [c \in Element |-> IF c \in children THEN "live" ELSE @[c]],
      !.scheduled = [c \in Element |-> @[c] \/ c \in children \cup {e}],
      !.parent = [c \in Element |-> IF c \in children THEN e ELSE @[c]]]

\* run_child, and simulate going on with the child
RunChild(s, e, child) ==
    [Adopted(s, e, {child}) EXCEPT !.phase = "run", !.active = child]

\* The element returns a result to simulate. One that has been scheduled again
\* waits; another has no handle any more, and its parent is resumed.
Return(s, result) ==
    LET e == s.active
        p == s.parent[e]
    IN  IF s.scheduled[e] THEN [s EXCEPT !.phase = "pick", !.active = NONE]
        ELSE IF p = NONE
        THEN [s EXCEPT !.handle[e] = "none", !.phase = "pick", !.active = NONE]
        ELSE [s EXCEPT !.handle[e] = "none", !.parent[e] = NONE,
                       !.children[p] = @ \ {e}, !.scheduled[p] = FALSE,
                       !.phase = "resume", !.active = p, !.result = result]

\* Mutant: an exception stops the element alone.
Mutant_ParentForgotten(s) ==
    [s EXCEPT !.pending = FALSE, !.active = NONE, !.phase = "pick"]

\* What run or resume raises: the tree of the parent is stopped.
Raise(s) ==
    LET e == s.active
        out == [s EXCEPT !.pending = FALSE, !.active = NONE, !.phase = "pick"]
    IN  IF s.parent[e] = NONE THEN out ELSE HardStop(out, s.parent[e])

\* simulate makes an element active before it calls it.
Activated(s, e) == [s EXCEPT !.active = e, !.when[e] = NONE, !.scheduled[e] = FALSE]

\* SleepElement._run, SoftSleepElement._run
RunSleep(s, e) ==
    IF s.softStopped[e] THEN Return(s, FALSE)
    ELSE IF s.state[e] = "init"
    THEN Return([Schedule(s, e, Delay[e]) EXCEPT !.state[e] = "slept"], TRUE)
    ELSE Return([s EXCEPT !.state[e] = "init"], TRUE)

\* CriticalSectionElement._run
RunCritical(s, e) == RunChild([s EXCEPT !.state[e] = "work"], e, Parts[e][1])

\* WithFinallyElement._run
RunFinally(s, e) ==
    RunChild([s EXCEPT !.state[e] = "finally", !.entered[e] = @ + 1], e, Parts[e][1])

\* AllElement._run: the children are scheduled for now, and waited for.
RunAll(s, e) ==
    LET started == Adopted([s EXCEPT !.saved[e] = TRUE], e, Component(e))
    IN  Return([started EXCEPT !.when = [c \in Element |->
                                           IF c \in Component(e) THEN 0 ELSE @[c]],
                               !.scheduled[e] = Component(e) # {}], TRUE)

\* Mutant: the alarm does not look its handle up.
Mutant_NoLookup(s, e) == [s EXCEPT !.phase = "callback"]

\* An alarm looks up its handle, and raises if it is not registered.
RunCallback(s, e) ==
    IF e \in Alarms \ s.registered THEN Raise(s) ELSE [s EXCEPT !.phase = "callback"]

\* _run of each class
RunElement(s, e) ==
    CASE Kind[e] \in {"sleep", "softsleep"} -> RunSleep(s, e)
      [] Kind[e] = "critical" -> RunCritical(s, e)
      [] Kind[e] = "finally" -> RunFinally(s, e)
      [] Kind[e] \in {"mustrun", "repeat"} -> RunChild(s, e, Parts[e][1])
      [] Kind[e] = "all" -> RunAll(s, e)
      [] e \in Calling -> RunCallback(s, e)

\* CriticalSectionElement._resume
ResumeCritical(s, e) ==
    IF s.state[e] = "work"
    THEN RunChild([s EXCEPT !.state[e] = "cleanup", !.saved[e] = s.result], e, Parts[e][2])
    ELSE Return(s, s.saved[e] /\ s.result)

\* Mutant: what is to be called finally is called when the child succeeded.
Mutant_FinallyOnSuccess(s, e) ==
    Return([s EXCEPT !.state[e] = "init", !.finals[e] = IF s.result THEN @ + 1 ELSE @],
           s.result)

\* WithFinallyElement._resume
ResumeFinally(s, e) ==
    Return([s EXCEPT !.state[e] = "init",
                     !.finals[e] = IF s.state[e] = "finally" THEN @ + 1 ELSE @], s.result)

\* RepeatElement._resume
ResumeRepeat(s, e) ==
    IF ~s.softStopped[e] /\ s.result THEN RunChild(s, e, Parts[e][1])
    ELSE Return(s, FALSE)

\* AllElement._resume
ResumeAll(s, e) ==
    LET merged == [s EXCEPT !.saved[e] = @ /\ s.result, !.scheduled[e] = s.children[e] # {}]
    IN  Return(merged, merged.saved[e])

\* _resume of each class
ResumeElement(s, e) ==
    CASE Kind[e] = "critical" -> ResumeCritical(s, e)
      [] Kind[e] = "finally" -> ResumeFinally(s, e)
      [] Kind[e] = "mustrun" -> Return(s, s.result)
      [] Kind[e] = "repeat" -> ResumeRepeat(s, e)
      [] Kind[e] = "all" -> ResumeAll(s, e)

-----------------------------------------------------------------------------
(* Alarms                                                                  *)

Unregister(s, a) == [s EXCEPT !.registered = @ \ {a}]

\* AlarmHandle.cancel. An alarm that cancels itself is cleared where it runs; the
\* second time that raises.
Cancel(s, a) ==
    LET void == [Unregister(s, a) EXCEPT !.void = @ \cup {a}]
    IN  IF s.active # a THEN HardStop(void, a)
        ELSE IF Live(s, a)
        THEN [void EXCEPT !.handle[a] = "cleared", !.scheduled[a] = FALSE]
        ELSE Raise(void)

\* on_alarm_handle_collected. Nobody sees the exception of a weak reference's
\* callback; a hard stop stays pending.
Collected(s, a) ==
    IF a \in s.registered
    THEN HardStop([Unregister(s, a) EXCEPT !.void = @ \cup {a}], a) ELSE s

\* The last reference to the handle goes; its own callback still has one.
Drop(s, a) ==
    LET dropped == [s EXCEPT !.held = @ \ {a}]
    IN  IF s.active = a THEN dropped ELSE Collected(dropped, a)

\* _owner_destroyed_callback, whose exception nobody sees either
OwnerDies(s, a) == IF s.active = a /\ ~Live(s, a) THEN s ELSE Cancel(s, a)

\* AlarmElement._run and RepeatingAlarmElement._run after the callback
AlarmCalled(s, a) ==
    LET freed == IF a \in s.held THEN s ELSE Collected(s, a)
    IN  IF Kind[a] = "alarm" THEN Unregister(freed, a)
        ELSE IF Live(freed, a) THEN Schedule(freed, a, Delay[a])
        ELSE freed

-----------------------------------------------------------------------------
(* What code does to the timeline, between simulations or in a callback    *)

MayAct == tl.phase \in {"idle", "callback"}

AddElement(e, when) ==
    /\ MayAct /\ e \in Roots \ Alarms /\ ~Live(tl, e) /\ tl.runs[e] < MaxRuns
    /\ tl' = [Schedule(tl, e, when) EXCEPT !.runs[e] = @ + 1]

\* add_alarm
AddAlarm(a, when) ==
    /\ MayAct /\ ~Live(tl, a) /\ tl.active # a /\ tl.runs[a] < MaxRuns
    /\ a \notin tl.held \cup tl.registered
    /\ tl' = [Schedule(tl, a, when) EXCEPT !.runs[a] = @ + 1, !.registered = @ \cup {a},
                                           !.held = @ \cup {a}, !.void = @ \ {a}]

TriggerHardStop(e) ==
    /\ MayAct /\ Live(tl, e) /\ e \notin Alarms
    /\ tl' = HardStop(tl, e)
    /\ tl' # tl

TriggerSoftStop(e) ==
    /\ MayAct /\ Live(tl, e) /\ ~tl.pending
    /\ tl' = SoftStop(tl, e)
    /\ tl' # tl

CancelAlarm(a) == MayAct /\ a \in tl.held /\ tl' = Cancel(tl, a) /\ tl' # tl

DropHandle(a) == MayAct /\ a \in tl.held /\ tl' = Drop(tl, a)

LoseOwner(a) ==
    /\ MayAct /\ (a \in tl.held \/ tl.active = a)
    /\ tl' = OwnerDies(tl, a)
    /\ tl' # tl

Code ==
    \/ \E e \in Element : \/ TriggerHardStop(e) \/ TriggerSoftStop(e)
                          \/ \E when \in 0 .. MaxDelay : AddElement(e, when)
    \/ \E a \in Alarms : \/ CancelAlarm(a) \/ DropHandle(a) \/ LoseOwner(a)
                         \/ \E when \in 0 .. MaxDelay : AddAlarm(a, when)

-----------------------------------------------------------------------------
(* simulate                                                                *)

\* Time passes by so many ticks.
Advanced(s, ticks) ==
    [s EXCEPT !.due = @ - ticks,
              !.when = [e \in Element |-> IF @[e] = NONE THEN NONE ELSE @[e] - ticks]]

\* The clock says until when; what a time slice cut off is done first.
Simulate ==
    /\ tl.phase = "idle"
    /\ \E advance \in (IF tl.due = 0 THEN 1 ELSE 0) .. MaxAdvance - tl.due :
          tl' = [tl EXCEPT !.phase = "pick", !.due = @ + advance, !.worked = FALSE]

IsDue(e) == tl.when[e] # NONE /\ tl.when[e] <= tl.due

\* Mutant: any element that is due is picked.
Mutant_AnyThatIsDue(e) ==
    /\ tl.phase = "pick" /\ IsDue(e)
    /\ tl' = [Activated(Advanced(tl, tl.when[e]), e) EXCEPT !.phase = "run", !.worked = TRUE]

\* Of the elements that are due, one than which none is earlier
Pick(e) ==
    /\ tl.phase = "pick" /\ IsDue(e)
    /\ \A f \in Element : IsDue(f) => tl.when[e] <= tl.when[f]
    /\ tl' = [Activated(Advanced(tl, tl.when[e]), e) EXCEPT !.phase = "run", !.worked = TRUE]

Run == tl.phase = "run" /\ tl' = RunElement(Activated(tl, tl.active), tl.active)

Resume == tl.phase = "resume" /\ tl' = ResumeElement(Activated(tl, tl.active), tl.active)

\* The callback returns; then a hard stop that it consumed is raised.
CallbackReturns ==
    LET e == tl.active
        called == IF e \in Alarms THEN AlarmCalled(tl, e) ELSE tl
    IN  /\ tl.phase = "callback"
        /\ \E result \in BOOLEAN : /\ Kind[e] # "function" => result
                                   /\ tl' = IF called.pending THEN Raise(called)
                                            ELSE Return(called, result)

\* The callback raises, or lets a HardStopError through.
CallbackRaises ==
    LET e == tl.active
        raised == Raise(tl)
    IN  /\ tl.phase = "callback"
        /\ tl' = IF e \in Alarms \ tl.held THEN Collected(raised, e) ELSE raised

\* The time slice or the number of elements of one simulation is used up.
ExitEarly ==
    /\ tl.phase = "pick" /\ tl.worked /\ \E e \in Element : IsDue(e)
    /\ tl' = [tl EXCEPT !.phase = "idle"]

Finish ==
    /\ tl.phase = "pick" /\ ~\E e \in Element : IsDue(e)
    /\ tl' = [Advanced(tl, tl.due) EXCEPT !.phase = "idle"]

Loop == Run \/ Resume \/ CallbackReturns \/ Finish \/ \E e \in Element : Pick(e)

Next == Code \/ Simulate \/ Loop \/ CallbackRaises \/ ExitEarly

Spec == Init /\ [][Next]_tl

\* The game loop simulates again and again, and a simulation that runs goes on.
FairSpec == Spec /\ WF_tl(Simulate) /\ WF_tl(Loop)

-----------------------------------------------------------------------------
(* Properties                                                              *)

TypeOK == tl \in TimelineState

\* Nothing waits for ever, and nobody returns to what is gone: an element with a
\* handle is in the heap, or is what simulate is at, or waits for children with
\* handles that know it as their parent; and the parent an element returns to is
\* there and waits for it, since a hard stop stops a tree as a whole. Only a root
\* that raised keeps a handle nobody looks at (the break of simulate after
\* _report_exception leaves element._element_handle).
EveryWaitIsWoken ==
    \A e \in Element : Live(tl, e) =>
        /\ \/ tl.when[e] # NONE \/ tl.active = e
           \/ \E c \in tl.children[e] : Live(tl, c) /\ tl.parent[c] = e
           \/ e \in Roots /\ e \in Calling
        /\ tl.parent[e] # NONE =>
              Live(tl, tl.parent[e]) /\ e \in tl.children[tl.parent[e]]

\* What is to be called finally is called once for every time the element was
\* entered, when it is left: by its child, by an exception, by a hard stop of
\* any part of the tree (WithFinallyElement).
FinallyOnce ==
    \A e \in Element : Kind[e] = "finally" =>
        tl.entered[e] = tl.finals[e] + IF Live(tl, e) /\ tl.state[e] = "finally"
                                       THEN 1 ELSE 0

\* An alarm that was cancelled, whose handle was collected or whose owner is gone
\* does not call back, though a repeating one may still be in the heap.
VoidAlarmsAreSilent ==
    [][tl'.phase = "callback" /\ tl.phase # "callback" => tl.active \notin tl.void]_tl

\* A tree that is asked to stop softly ends.
SoftStopEnds ==
    \A e \in Element : Kind[e] = "repeat" =>
        (tl.softStopped[e] ~> ~Live(tl, e))
=============================================================================
