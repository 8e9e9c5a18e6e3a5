---------------------------- MODULE TimelineProofs ----------------------------
(***************************************************************************)
(* That the trees of elements on the timeline hang together and that each  *)
(* of their elements is woken, for any elements and any code they run.     *)
(***************************************************************************)
EXTENDS Timeline, TLAPS

-----------------------------------------------------------------------------
(* The elements and their parts                                            *)

Parents == {"critical", "finally", "mustrun", "repeat", "all"}

\* Only an element of a kind that has parts has parts, and it has those it runs.
LEMMA PartsOfKinds ==
    ASSUME NEW e \in Element
    PROVE  /\ Component(e) \subseteq Element
           /\ Component(e) # {} => Kind[e] \in Parents
           /\ Kind[e] \in Parents \ {"all"} => Parts[e][1] \in Component(e)
           /\ Kind[e] = "critical" => Parts[e][2] \in Component(e)
  <1>1. Parts[e] \in Seq(Element)
    BY TimelineAssumption
  <1>2. /\ Kind[e] \in {"function", "sleep", "softsleep", "critical", "finally",
                        "mustrun", "repeat", "all", "alarm", "repeating"}
        /\ Kind[e] = "critical" => Len(Parts[e]) = 2
        /\ Kind[e] \in {"finally", "mustrun", "repeat"} => Len(Parts[e]) = 1
        /\ Kind[e] \in {"function", "sleep", "softsleep", "alarm", "repeating"}
              => Len(Parts[e]) = 0
    BY TimelineAssumption
  <1>3. DOMAIN Parts[e] = 1 .. Len(Parts[e])
        /\ \A i \in DOMAIN Parts[e] : Parts[e][i] \in Element
    BY <1>1
  <1>4. Component(e) \subseteq Element
    BY <1>3 DEF Component
  <1>5. Kind[e] \notin Parents => Len(Parts[e]) = 0
    BY <1>2 DEF Parents
  <1>6. Kind[e] \notin Parents => Component(e) = {}
    BY <1>3, <1>5 DEF Component
  <1>7. Kind[e] \in Parents \ {"all"} => 1 \in DOMAIN Parts[e]
    <2>1. Kind[e] \in Parents \ {"all"} => Len(Parts[e]) \in {1, 2}
      BY <1>2 DEF Parents
    <2> QED BY <2>1, <1>3, SMTT(30)
  <1>8. Kind[e] = "critical" => 2 \in DOMAIN Parts[e]
    BY <1>2, <1>3
  <1> QED BY <1>4, <1>6, <1>7, <1>8 DEF Component

\* A part is a part of one element.
LEMMA OwnerOfPart ==
    ASSUME NEW f \in Element, NEW e \in Component(f)
    PROVE  e \in Element \ Roots /\ Owner[e] = f /\ NONE \notin Element
  <1>1. e \in Element
    BY PartsOfKinds
  <1>2. e \notin Roots
    BY <1>1 DEF Roots
  <1>3. \A g \in Element : e \in Component(g) => g = f
    BY TimelineAssumption DEF Component
  <1>4. Owner[e] = CHOOSE g \in Element : e \in Component(g)
    BY <1>1, <1>2 DEF Owner
  <1> QED BY <1>1, <1>2, <1>3, <1>4, TimelineAssumption

LEMMA OwnerType ==
    ASSUME NEW e \in Element
    PROVE  /\ e \in Roots <=> Owner[e] = NONE
           /\ e \notin Roots => Owner[e] \in Element /\ e \in Component(Owner[e])
  <1>1. CASE e \in Roots
    BY <1>1 DEF Owner
  <1>2. CASE e \notin Roots
    <2>1. PICK f \in Element : e \in Component(f)
      BY <1>2 DEF Roots
    <2>2. Owner[e] = f
      BY <2>1, OwnerOfPart
    <2> QED BY <1>2, <2>1, <2>2, TimelineAssumption
  <1> QED BY <1>1, <1>2

\* The way to the root begins at the element.
LEMMA AboveSelf == ASSUME NEW e \in Element PROVE e \in Above[e] /\ Above[e] \subseteq Element
  BY DEF Above

\* It is closed under going up.
LEMMA AboveClosed ==
    ASSUME NEW e \in Element, NEW f \in Above[e], Owner[f] # NONE
    PROVE  Owner[f] \in Above[e]
  <1>1. f \in Element
    BY AboveSelf
  <1>2. Owner[f] \in Element
    BY <1>1, OwnerType
  <1> SUFFICES ASSUME NEW S \in SUBSET Element, e \in S,
                      \A g \in S : Owner[g] \in S \cup {NONE}
               PROVE  Owner[f] \in S
    BY <1>2 DEF Above
  <1>3. f \in S
    BY DEF Above
  <1> QED BY <1>3

\* It goes on as the way of the element's owner.
LEMMA AboveStep ==
    ASSUME NEW e \in Element \ Roots
    PROVE  Above[e] = {e} \cup Above[Owner[e]]
  <1> DEFINE p == Owner[e]
  <1>1. p \in Element /\ p # NONE
    BY OwnerType, TimelineAssumption
  <1>2. Above[e] \subseteq {e} \cup Above[p]
    <2> DEFINE S == {e} \cup Above[p]
    <2>1. S \in SUBSET Element /\ e \in S
      BY <1>1, AboveSelf
    <2>2. \A g \in S : Owner[g] \in S \cup {NONE}
      BY <1>1, AboveSelf, AboveClosed
    <2> QED BY <2>1, <2>2 DEF Above
  <1>3. p \in Above[e]
    BY <1>1, AboveSelf, AboveClosed
  <1>4. Above[p] \subseteq Above[e]
    <2> SUFFICES ASSUME NEW f \in Above[p], NEW S \in SUBSET Element, e \in S,
                        \A g \in S : Owner[g] \in S \cup {NONE}
                 PROVE  f \in S
      BY <1>1, AboveSelf DEF Above
    <2>1. p \in S
      BY <1>1
    <2> QED BY <2>1, <1>1 DEF Above
  <1> QED BY <1>2, <1>4, AboveSelf


-----------------------------------------------------------------------------
(* The inductive invariant                                                 *)

\* Parents and children know each other, all that is not a root has a parent, and
\* only an AllElement has more than one child.
LinksAgree(s) ==
    /\ \A p \in Element : \A e \in s.children[p] :
          Live(s, p) /\ Live(s, e) /\ s.parent[e] = p
    /\ \A e \in Element : s.parent[e] # NONE => e \in Component(s.parent[e])
    /\ \A e \in Element : Live(s, e) => e \in Roots \/ e \in s.children[Owner[e]]
    /\ \A p \in Element : Kind[p] # "all" => \A e, f \in s.children[p] : e = f

\* What is in the heap has a handle and waits for nobody.
HeapWaits(s) ==
    \A e \in Element : s.when[e] # NONE => Live(s, e) /\ s.children[e] = {}

\* An element that is to make its call has begun.
CallsOnce(s) ==
    \A e \in Element : Kind[e] = "finally" =>
        /\ s.entered[e] = s.finals[e] + IF Live(s, e) /\ s.state[e] = "finally"
                                        THEN 1 ELSE 0
        /\ ~Live(s, e) \/ s.when[e] # NONE => s.state[e] # "finally"

\* What holds of the trees whatever simulate is at
Sound(s) ==
    /\ s \in TimelineState
    /\ LinksAgree(s) /\ HeapWaits(s) /\ CallsOnce(s)
    /\ s.registered \cap s.void = {}

\* Every element but x waits for something.
Waiting(s, x) ==
    \A e \in Element \ {x} : Live(s, e) =>
        s.when[e] # NONE \/ s.active = e \/ s.children[e] # {} \/ e \in Roots \cap Calling

\* What simulate is at: an element that does not wait, whose work may begin or go on.
AtWork(s) ==
    /\ s.active = NONE <=> s.phase \in {"idle", "pick"}
    /\ s.active # NONE => s.when[s.active] = NONE
    /\ s.phase \in {"run", "resume"} => Live(s, s.active)
    /\ s.phase = "run" => /\ s.children[s.active] = {}
                          /\ Kind[s.active] = "finally" => s.state[s.active] # "finally"
    /\ s.phase = "resume" => /\ Kind[s.active] \in Parents
                             /\ Kind[s.active] # "all" => s.children[s.active] = {}
    /\ s.phase = "callback" => /\ s.active \in Calling /\ ~s.scheduled[s.active]
                               /\ Live(s, s.active) \/ s.active \in Alarms

IInv(s) == Sound(s) /\ Waiting(s, NONE) /\ AtWork(s)

-----------------------------------------------------------------------------
(* Trees                                                                   *)

LEMMA ChildIsLinked ==
    ASSUME NEW s, Sound(s), NEW p \in Element, NEW e \in s.children[p]
    PROVE  /\ e \in Element \ Roots /\ Live(s, e) /\ Live(s, p) /\ Linked(s, e)
           /\ s.parent[e] = p /\ Owner[e] = p /\ e \in Component(p)
  <1>1. e \in Element
    BY DEF Sound, TimelineState
  <1>2. Live(s, e) /\ Live(s, p) /\ s.parent[e] = p
    BY DEF Sound, LinksAgree
  <1>3. p # NONE
    BY TimelineAssumption
  <1>4. e \in Component(p)
    BY <1>1, <1>2, <1>3 DEF Sound, LinksAgree
  <1> QED BY <1>1, <1>2, <1>3, <1>4, OwnerOfPart DEF Linked

LEMMA ParentIsLinked ==
    ASSUME NEW s, Sound(s), NEW e \in Element, Live(s, e), s.parent[e] # NONE
    PROVE  s.parent[e] \in Element /\ e \in s.children[s.parent[e]]
  <1>1. s.parent[e] \in Element
    BY DEF Sound, TimelineState
  <1>2. e \in Component(s.parent[e])
    BY DEF Sound, LinksAgree
  <1>3. e \notin Roots /\ Owner[e] = s.parent[e]
    BY <1>1, <1>2, OwnerOfPart
  <1>4. e \in s.children[Owner[e]]
    BY <1>3 DEF Sound, LinksAgree
  <1> QED BY <1>1, <1>3, <1>4

\* An element is in its tree.
LEMMA TreeHasElement ==
    ASSUME NEW s, NEW e \in Element, Live(s, e) PROVE e \in Tree(s, e)
  BY AboveSelf DEF Tree

\* A tree goes on with the children of what is in it, and with the parents.
LEMMA TreeHasChildren ==
    ASSUME NEW s, Sound(s), NEW r \in Element, NEW p \in Tree(s, r), NEW e \in s.children[p]
    PROVE  e \in Tree(s, r)
  <1>1. /\ p \in Element /\ Above[r] \cap Above[p] # {}
        /\ \A g \in Above[r] \ Above[p] : Linked(s, g)
        /\ \A g \in Above[p] \ Above[r] : Linked(s, g)
    BY DEF Tree
  <1>2. /\ e \in Element \ Roots /\ Live(s, e) /\ Linked(s, e) /\ Owner[e] = p
    BY <1>1, ChildIsLinked
  <1>3. Above[e] = {e} \cup Above[p]
    BY <1>2, AboveStep
  <1> QED BY <1>1, <1>2, <1>3 DEF Tree

LEMMA TreeHasParents ==
    ASSUME NEW s, Sound(s), NEW r \in Element, NEW e \in Tree(s, r), s.parent[e] # NONE
    PROVE  s.parent[e] \in Tree(s, r)
  <1> DEFINE p == s.parent[e]
  <1>1. /\ e \in Element /\ Live(s, e) /\ Above[r] \cap Above[e] # {}
        /\ \A g \in Above[r] \ Above[e] : Linked(s, g)
        /\ \A g \in Above[e] \ Above[r] : Linked(s, g)
    BY DEF Tree
  <1>2. p \in Element /\ e \in s.children[p]
    BY <1>1, ParentIsLinked
  <1>3. e \in Element \ Roots /\ Live(s, p) /\ Linked(s, e) /\ Owner[e] = p /\ p # NONE
    BY <1>2, ChildIsLinked, TimelineAssumption
  <1>4. Above[e] = {e} \cup Above[p]
    BY <1>3, AboveStep
  <1>5. Above[r] \cap Above[p] # {}
    <2>1. CASE e \in Above[r]
      <3>1. p \in Above[r]
        BY <2>1, <1>3, AboveClosed
      <3>2. p \in Above[p]
        BY <1>2, AboveSelf
      <3> QED BY <3>1, <3>2
    <2>2. CASE e \notin Above[r]
      BY <2>2, <1>1, <1>4
    <2> QED BY <2>1, <2>2
  <1>6. \A g \in Above[r] \ Above[p] : Linked(s, g)
    BY <1>1, <1>3, <1>4
  <1>7. \A g \in Above[p] \ Above[r] : Linked(s, g)
    <2> HIDE DEF p
    <2>1. Above[p] \subseteq Above[e]
      BY <1>4
    <2> QED BY <1>1, <2>1
  <1>8. \A q \in Element : /\ Live(s, q) /\ Above[r] \cap Above[q] # {}
                           /\ \A g \in Above[r] \ Above[q] : Linked(s, g)
                           /\ \A g \in Above[q] \ Above[r] : Linked(s, g)
                           => q \in Tree(s, r)
    BY DEF Tree
  <1> QED BY <1>2, <1>3, <1>5, <1>6, <1>7, <1>8

\* What is linked is in the tree of its parent.
LEMMA TreeOfParent ==
    ASSUME NEW s, Sound(s), NEW e \in Element, Live(s, e), s.parent[e] # NONE
    PROVE  e \in Tree(s, s.parent[e])
  <1>1. s.parent[e] \in Element /\ e \in s.children[s.parent[e]]
    BY ParentIsLinked
  <1>2. s.parent[e] \in Tree(s, s.parent[e])
    BY <1>1, ChildIsLinked, TreeHasElement
  <1> QED BY <1>1, <1>2, TreeHasChildren

-----------------------------------------------------------------------------
(* Stopping                                                                *)

\* What a hard stop leaves alone, and what it leaves of the tree.
Stopped(s, t, tree) ==
    /\ t.phase = s.phase /\ t.active = s.active /\ t.pending = s.pending
    /\ t.registered = s.registered /\ t.void = s.void /\ t.held = s.held
    /\ t.parent = s.parent
    /\ \A f \in Element \ tree :
          /\ t.handle[f] = s.handle[f] /\ t.when[f] = s.when[f]
          /\ t.scheduled[f] = s.scheduled[f] /\ t.children[f] = s.children[f]
          /\ t.state[f] = s.state[f] /\ t.finals[f] = s.finals[f]
    /\ \A f \in tree : ~Live(t, f) /\ t.when[f] = NONE /\ t.children[f] = {}

LEMMA StopTreeDoes ==
    ASSUME NEW s \in TimelineState, NEW e \in Element
    PROVE  /\ StopTree(s, e) \in TimelineState
           /\ Stopped(s, StopTree(s, e), Tree(s, e))
           /\ StopTree(s, e).entered = s.entered
           /\ \A f \in Tree(s, e) : Kind[f] = "finally" =>
                 /\ StopTree(s, e).state[f] # "finally"
                 /\ StopTree(s, e).finals[f] =
                       s.finals[f] + IF s.state[f] = "finally" THEN 1 ELSE 0
  <1> DEFINE tree == Tree(s, e)
             called == {f \in tree : Kind[f] = "finally" /\ s.state[f] = "finally"}
             t == StopTree(s, e)
  <1>1. tree \subseteq Element
    BY DEF Tree
  <1>2. t = [s EXCEPT
          !.handle = [f \in Element |-> IF f \in tree THEN "cleared" ELSE s.handle[f]],
          !.when = [f \in Element |-> IF f \in tree THEN NONE ELSE s.when[f]],
          !.scheduled = [f \in Element |-> s.scheduled[f] /\ f \notin tree],
          !.children = [f \in Element |-> IF f \in tree THEN {} ELSE s.children[f]],
          !.state = [f \in Element |-> IF f \in called THEN "init" ELSE s.state[f]],
          !.finals = [f \in Element |-> IF f \in called THEN s.finals[f] + 1 ELSE s.finals[f]]]
    BY DEF StopTree
  <1> HIDE DEF tree, t
  <1>3. t \in TimelineState
    <2>1. [f \in Element |-> IF f \in tree THEN "cleared" ELSE s.handle[f]]
             \in [Element -> {"none", "live", "cleared"}]
      BY DEF TimelineState
    <2>2. [f \in Element |-> IF f \in tree THEN NONE ELSE s.when[f]]
             \in [Element -> 0 .. MaxDelay \cup {NONE}]
      BY DEF TimelineState
    <2>3. [f \in Element |-> s.scheduled[f] /\ f \notin tree] \in [Element -> BOOLEAN]
      OBVIOUS
    <2>4. [f \in Element |-> IF f \in tree THEN {} ELSE s.children[f]]
             \in [Element -> SUBSET Element]
      BY DEF TimelineState
    <2>5. [f \in Element |-> IF f \in called THEN "init" ELSE s.state[f]]
             \in [Element -> {"init", "work", "cleanup", "slept", "finally"}]
      BY DEF TimelineState
    <2>6. [f \in Element |-> IF f \in called THEN s.finals[f] + 1 ELSE s.finals[f]]
             \in [Element -> Nat]
      BY DEF TimelineState
    <2> HIDE DEF called
    <2> QED BY <1>2, <2>1, <2>2, <2>3, <2>4, <2>5, <2>6 DEF TimelineState
  <1>4. Stopped(s, t, tree)
    BY <1>1, <1>2 DEF TimelineState, Stopped, Live
  <1>5. t.entered = s.entered
    BY <1>2 DEF TimelineState
  <1>6. \A f \in tree : Kind[f] = "finally" =>
                 /\ t.state[f] # "finally"
                 /\ t.finals[f] = s.finals[f] + IF s.state[f] = "finally" THEN 1 ELSE 0
    BY <1>1, <1>2 DEF TimelineState
  <1> QED BY <1>3, <1>4, <1>5, <1>6 DEF tree, t

\* Trees stay sound when one of them is stopped.
LEMMA StopTreeSound ==
    ASSUME NEW s, Sound(s), NEW e \in Element PROVE Sound(StopTree(s, e))
  <1> DEFINE t == StopTree(s, e)
             tree == Tree(s, e)
  <1>0. s \in TimelineState /\ tree \subseteq Element
    BY DEF Sound, Tree
  <1>1. /\ t \in TimelineState /\ Stopped(s, t, tree)
        /\ t.entered = s.entered
        /\ \A f \in tree : Kind[f] = "finally" =>
                 /\ t.state[f] # "finally"
                 /\ t.finals[f] = s.finals[f] + IF s.state[f] = "finally" THEN 1 ELSE 0
    BY <1>0, StopTreeDoes
  <1>2. \A f \in Element : \A c \in s.children[f] : c \in tree <=> f \in tree
    <2> SUFFICES ASSUME NEW f \in Element, NEW c \in s.children[f]
                 PROVE  c \in tree <=> f \in tree
      OBVIOUS
    <2>1. s.parent[c] = f /\ s.parent[c] # NONE
      BY ChildIsLinked, TimelineAssumption
    <2>2. c \in tree => f \in tree
      BY <2>1, TreeHasParents
    <2> QED BY <2>2, TreeHasChildren
  <1>3. \A f \in tree : Live(s, f)
    BY DEF Tree
  <1> HIDE DEF t, tree
  <1>4. \A f \in Element : Live(t, f) <=> Live(s, f) /\ f \notin tree
    BY <1>1 DEF Stopped, Live
  <1>5. \A f \in Element : t.children[f] = IF f \in tree THEN {} ELSE s.children[f]
    BY <1>0, <1>1 DEF Stopped
  <1>6. LinksAgree(t)
    <2>1. t.parent = s.parent
      BY <1>1 DEF Stopped
    <2>2. \A p \in Element : \A f \in t.children[p] :
             Live(t, p) /\ Live(t, f) /\ t.parent[f] = p
      <3> SUFFICES ASSUME NEW p \in Element, NEW f \in t.children[p]
                   PROVE  Live(t, p) /\ Live(t, f) /\ t.parent[f] = p
        OBVIOUS
      <3>1. f \in s.children[p] /\ p \notin tree
        BY <1>5
      <3>2. Live(s, p) /\ Live(s, f) /\ s.parent[f] = p /\ f \in Element
        BY <3>1, ChildIsLinked
      <3>3. f \notin tree
        BY <3>1, <1>2
      <3> QED BY <1>4, <2>1, <3>1, <3>2, <3>3
    <2>3. \A f \in Element : Live(t, f) => f \in Roots \/ f \in t.children[Owner[f]]
      BY <1>2, <1>4, <1>5, OwnerType DEF Sound, LinksAgree
    <2>4. \A p \in Element : Kind[p] # "all" => \A f, g \in t.children[p] : f = g
      BY <1>5 DEF Sound, LinksAgree
    <2>5. \A f \in Element : t.parent[f] # NONE => f \in Component(t.parent[f])
      BY <2>1 DEF Sound, LinksAgree
    <2> QED BY <2>2, <2>3, <2>4, <2>5 DEF LinksAgree
  <1>7. HeapWaits(t)
    BY <1>1, <1>4, <1>5 DEF Sound, HeapWaits, Stopped
  <1>8. CallsOnce(t)
    <2> SUFFICES ASSUME NEW f \in Element, Kind[f] = "finally"
                 PROVE  /\ t.entered[f] = t.finals[f] + IF Live(t, f) /\ t.state[f] = "finally"
                                                        THEN 1 ELSE 0
                        /\ ~Live(t, f) \/ t.when[f] # NONE => t.state[f] # "finally"
      BY DEF CallsOnce
    <2>1. /\ s.entered[f] = s.finals[f] + IF Live(s, f) /\ s.state[f] = "finally"
                                          THEN 1 ELSE 0
          /\ ~Live(s, f) \/ s.when[f] # NONE => s.state[f] # "finally"
      BY DEF Sound, CallsOnce
    <2>2. CASE f \in tree
      <3>1. s.finals[f] \in Nat /\ t.finals[f] \in Nat
        BY <1>0, <1>1 DEF TimelineState
      <3> QED BY <2>1, <2>2, <3>1, <1>1, <1>3, <1>4
    <2>3. CASE f \notin tree
      BY <2>1, <2>3, <1>1, <1>4 DEF Stopped
    <2> QED BY <2>2, <2>3
  <1>9. t.registered \cap t.void = {}
    BY <1>1 DEF Stopped, Sound
  <1> QED BY <1>1, <1>6, <1>7, <1>8, <1>9 DEF Sound, t

\* hard_stop leaves the trees sound; where it raises, only a hard stop is pending.
LEMMA HardStopDoes ==
    ASSUME NEW s, Sound(s), NEW e \in Element
    PROVE  /\ Sound(HardStop(s, e))
           /\ \/ HardStop(s, e) = s \/ HardStop(s, e) = [s EXCEPT !.pending = TRUE]
              \/ /\ HardStop(s, e) = StopTree(s, e) /\ s.active \notin Tree(s, e)
                 /\ Stopped(s, HardStop(s, e), Tree(s, e))
  <1>0. s \in TimelineState
    BY DEF Sound
  <1>1. CASE ~Live(s, e)
    BY <1>1 DEF HardStop
  <1>2. CASE Live(s, e) /\ StopsActive(s, e)
    <2> DEFINE t == [s EXCEPT !.pending = TRUE]
    <2>1. HardStop(s, e) = t
      BY <1>2 DEF HardStop
    <2>2. t \in TimelineState
      BY <1>0 DEF TimelineState
    <2>3. /\ t.handle = s.handle /\ t.when = s.when /\ t.children = s.children
          /\ t.parent = s.parent /\ t.state = s.state /\ t.entered = s.entered
          /\ t.finals = s.finals /\ t.registered = s.registered /\ t.void = s.void
      BY <1>0 DEF TimelineState
    <2>4. Sound(t)
      BY <2>2, <2>3 DEF Sound, LinksAgree, HeapWaits, CallsOnce, Live
    <2> QED BY <2>1, <2>4
  <1>3. CASE Live(s, e) /\ ~StopsActive(s, e)
    <2>1. HardStop(s, e) = StopTree(s, e)
      BY <1>3 DEF HardStop
    <2>2. s.active \notin Tree(s, e)
      BY <1>3, TimelineAssumption DEF StopsActive, Tree
    <2> QED BY <1>0, <2>1, <2>2, StopTreeSound, StopTreeDoes
  <1> QED BY <1>1, <1>2, <1>3

\* What is sound does not depend on what simulate is at.
LEMMA SameTreesSound ==
    ASSUME NEW s, Sound(s), NEW t \in TimelineState,
           t.handle = s.handle, t.when = s.when, t.parent = s.parent,
           t.children = s.children, t.state = s.state, t.entered = s.entered,
           t.finals = s.finals, t.registered = s.registered, t.void = s.void
    PROVE  Sound(t)
  BY DEF Sound, LinksAgree, HeapWaits, CallsOnce, Live

\* What runs or runs children is no root of another's.
LEMMA RootHasNoParent ==
    ASSUME NEW s, Sound(s), NEW e \in Roots PROVE e \in Element /\ s.parent[e] = NONE
  <1>1. e \in Element
    BY DEF Roots
  <1>2. CASE s.parent[e] # NONE
    <2>1. s.parent[e] \in Element /\ e \in Component(s.parent[e])
      BY <1>1, <1>2 DEF Sound, TimelineState, LinksAgree
    <2> QED BY <2>1, OwnerOfPart
  <1> QED BY <1>1, <1>2

LEMMA CallingIsLeaf ==
    ASSUME NEW s, Sound(s), NEW e \in Calling
    PROVE  /\ e \in Element /\ s.children[e] = {} /\ Kind[e] \notin Parents
           /\ e \in Alarms => e \in Roots
  <1>1. e \in Element /\ Kind[e] \in {"function", "alarm", "repeating"}
    BY DEF Calling, Alarms
  <1>2. Kind[e] \notin Parents
    BY <1>1 DEF Parents
  <1>3. Component(e) = {}
    BY <1>1, <1>2, PartsOfKinds
  <1> QED BY <1>1, <1>2, <1>3, ChildIsLinked, TimelineAssumption

LEMMA HardStopInv ==
    ASSUME NEW s, IInv(s), NEW e \in Element PROVE IInv(HardStop(s, e))
  <1> DEFINE t == HardStop(s, e)
  <1>0. Sound(s) /\ s \in TimelineState /\ Waiting(s, NONE) /\ AtWork(s)
    BY DEF IInv, Sound
  <1>1. Sound(t)
    BY <1>0, HardStopDoes
  <1>2. CASE t = s
    BY <1>2
  <1>3. CASE t = [s EXCEPT !.pending = TRUE]
    <2> HIDE DEF t
    <2>1. /\ t.handle = s.handle /\ t.when = s.when /\ t.children = s.children
          /\ t.active = s.active /\ t.phase = s.phase /\ t.state = s.state
          /\ t.scheduled = s.scheduled
      BY <1>0, <1>3 DEF TimelineState
    <2>2. Waiting(t, NONE)
      BY <1>0, <2>1 DEF Waiting, Live
    <2>3. AtWork(t)
      BY <1>0, <2>1 DEF AtWork, Live
    <2> QED BY <1>1, <2>2, <2>3 DEF IInv, t
  <1>4. CASE s.active \notin Tree(s, e) /\ Stopped(s, t, Tree(s, e))
    <2> DEFINE tree == Tree(s, e)
    <2> HIDE DEF t, tree
    <2>1. Waiting(t, NONE)
      BY <1>0, <1>4 DEF Waiting, Stopped, Live, tree
    <2>2. s.active # NONE => s.active \in Element \ tree
      BY <1>0, <1>4 DEF TimelineState, tree
    <2>3. AtWork(t)
      BY <1>0, <1>4, <2>2 DEF AtWork, Stopped, Live, tree
    <2> QED BY <1>1, <2>1, <2>3 DEF IInv, t
  <1> QED BY <1>0, <1>2, <1>3, <1>4, HardStopDoes

\* What raises is left; the tree of its parent is stopped.
LEMMA RaiseInv ==
    ASSUME NEW s, Sound(s), Waiting(s, NONE), s.active \in Calling,
           Live(s, s.active) \/ s.active \in Alarms
    PROVE  IInv(Raise(s))
  <1> DEFINE e == s.active
             out == [s EXCEPT !.pending = FALSE, !.active = NONE, !.phase = "pick"]
  <1>0. s \in TimelineState
    BY DEF Sound
  <1>1. e \in Element /\ (e \in Alarms => e \in Roots)
    BY CallingIsLeaf
  <1>2. /\ out \in TimelineState
        /\ out.handle = s.handle /\ out.when = s.when /\ out.parent = s.parent
        /\ out.children = s.children /\ out.state = s.state /\ out.entered = s.entered
        /\ out.finals = s.finals /\ out.registered = s.registered /\ out.void = s.void
        /\ out.active = NONE /\ out.phase = "pick"
    BY <1>0 DEF TimelineState
  <1>3. Raise(s) = IF s.parent[e] = NONE THEN out ELSE HardStop(out, s.parent[e])
    BY DEF Raise
  <1> HIDE DEF out
  <1>4. Sound(out)
    BY <1>2, SameTreesSound
  <1>5. Waiting(out, e)
    BY <1>2 DEF Waiting, Live
  <1>6. CASE s.parent[e] = NONE
    <2>1. Live(s, e) => e \in Roots
      <3>1. CASE Live(s, e) /\ e \notin Roots
        <4>1. e \in s.children[Owner[e]] /\ Owner[e] \in Element
          BY <1>1, <3>1, OwnerType DEF Sound, LinksAgree
        <4> QED BY <4>1, <1>6, ChildIsLinked, TimelineAssumption
      <3> QED BY <3>1
    <2>2. Waiting(out, NONE)
      BY <1>2, <1>5, <2>1 DEF Waiting, Live
    <2>3. AtWork(out)
      BY <1>2 DEF AtWork
    <2> QED BY <1>3, <1>4, <1>6, <2>2, <2>3 DEF IInv
  <1>7. CASE s.parent[e] # NONE
    <2> DEFINE p == s.parent[e]
               t == HardStop(out, p)
    <2>1. Live(s, e)
      BY <1>1, <1>7, RootHasNoParent
    <2>2. p \in Element /\ e \in s.children[p]
      BY <1>1, <1>7, <2>1, ParentIsLinked
    <2>3. Live(out, p)
      BY <1>2, <2>2, ChildIsLinked DEF Live
    <2>4. e \in Tree(out, p)
      BY <1>1, <1>2, <1>4, <1>7, <2>1, TreeOfParent DEF Live
    <2>5. t = StopTree(out, p)
      BY <1>2, <2>3 DEF HardStop, StopsActive
    <2>6. Sound(t)
      BY <1>4, <2>2, <2>5, StopTreeSound
    <2>7. Stopped(out, t, Tree(out, p))
      BY <1>2, <2>2, <2>5, StopTreeDoes
    <2>8. t.active = NONE /\ t.phase = "pick"
      BY <1>2, <2>7 DEF Stopped
    <2> HIDE DEF t, p
    <2>9. Waiting(t, NONE)
      BY <1>1, <1>2, <1>5, <2>4, <2>7 DEF Waiting, Stopped, Live
    <2>10. AtWork(t)
      BY <2>8 DEF AtWork
    <2> QED BY <1>3, <1>7, <2>6, <2>9, <2>10 DEF IInv, t, p
  <1> QED BY <1>6, <1>7

-----------------------------------------------------------------------------
(* Running                                                                 *)

\* simulate makes an element active that does not wait.
LEMMA ActivatedDoes ==
    ASSUME NEW s, Sound(s), Waiting(s, NONE), NEW e \in Element, Live(s, e),
           s.active \in {NONE, e}
    PROVE  LET t == Activated(s, e) IN
           /\ Sound(t) /\ Waiting(t, NONE)
           /\ t.active = e /\ t.when[e] = NONE /\ ~t.scheduled[e]
           /\ t.handle = s.handle /\ t.children = s.children /\ t.state = s.state
           /\ t.phase = s.phase /\ t.parent = s.parent /\ t.result = s.result
           /\ t.softStopped = s.softStopped /\ t.saved = s.saved
  <1> DEFINE t == Activated(s, e)
  <1>0. s \in TimelineState
    BY DEF Sound
  <1>1. t = [s EXCEPT !.active = e, !.when = [s.when EXCEPT ![e] = NONE],
                      !.scheduled = [s.scheduled EXCEPT ![e] = FALSE]]
    BY DEF Activated
  <1> HIDE DEF t
  <1>2. t \in TimelineState
    BY <1>0, <1>1 DEF TimelineState
  <1>3. /\ t.active = e /\ t.when = [s.when EXCEPT ![e] = NONE]
        /\ t.scheduled = [s.scheduled EXCEPT ![e] = FALSE]
        /\ t.handle = s.handle /\ t.children = s.children /\ t.state = s.state
        /\ t.phase = s.phase /\ t.parent = s.parent /\ t.result = s.result
        /\ t.softStopped = s.softStopped /\ t.saved = s.saved
        /\ t.entered = s.entered /\ t.finals = s.finals
        /\ t.registered = s.registered /\ t.void = s.void
    BY <1>0, <1>1 DEF TimelineState
  <1>4. /\ t.when[e] = NONE /\ ~t.scheduled[e]
        /\ \A f \in Element \ {e} : t.when[f] = s.when[f]
    BY <1>0, <1>3 DEF TimelineState
  <1>5. Sound(t)
    BY <1>2, <1>3, <1>4 DEF Sound, LinksAgree, HeapWaits, CallsOnce, Live
  <1>6. Waiting(t, NONE)
    BY <1>3, <1>4, TimelineAssumption DEF Waiting, Live
  <1> QED BY <1>3, <1>4, <1>5, <1>6 DEF t

\* An element that returns waits if it has been scheduled, and else leaves no trace:
\* its parent goes on.
LEMMA ReturnInv ==
    ASSUME NEW s, Sound(s), Waiting(s, NONE), NEW result \in BOOLEAN,
           s.active \in Element, Live(s, s.active) \/ s.active \in Alarms,
           s.scheduled[s.active] =>
               s.when[s.active] # NONE \/ s.children[s.active] # {},
           ~s.scheduled[s.active] =>
               /\ s.children[s.active] = {} /\ s.when[s.active] = NONE
               /\ Kind[s.active] = "finally" => s.state[s.active] # "finally"
    PROVE  IInv(Return(s, result))
  <1> DEFINE e == s.active
             p == s.parent[e]
             t == Return(s, result)
  <1>0. s \in TimelineState
    BY DEF Sound
  <1>1. CASE s.scheduled[e]
    <2>1. t = [s EXCEPT !.phase = "pick", !.active = NONE]
      BY <1>1 DEF Return
    <2> HIDE DEF t
    <2>2. /\ t \in TimelineState
          /\ t.handle = s.handle /\ t.when = s.when /\ t.parent = s.parent
          /\ t.children = s.children /\ t.state = s.state /\ t.entered = s.entered
          /\ t.finals = s.finals /\ t.registered = s.registered /\ t.void = s.void
          /\ t.active = NONE /\ t.phase = "pick"
      BY <1>0, <2>1 DEF TimelineState
    <2>3. Sound(t)
      BY <2>2, SameTreesSound
    <2>4. Waiting(t, NONE)
      BY <1>1, <2>2 DEF Waiting, Live
    <2>5. AtWork(t)
      BY <2>2 DEF AtWork
    <2> QED BY <2>3, <2>4, <2>5 DEF IInv, t
  <1>2. CASE ~s.scheduled[e] /\ p = NONE
    <2>1. t = [s EXCEPT !.handle = [s.handle EXCEPT ![e] = "none"],
                        !.phase = "pick", !.active = NONE]
      BY <1>2 DEF Return
    <2> HIDE DEF t
    <2>2. /\ t \in TimelineState
          /\ t.handle = [s.handle EXCEPT ![e] = "none"]
          /\ t.when = s.when /\ t.parent = s.parent
          /\ t.children = s.children /\ t.state = s.state /\ t.entered = s.entered
          /\ t.finals = s.finals /\ t.registered = s.registered /\ t.void = s.void
          /\ t.active = NONE /\ t.phase = "pick"
      BY <1>0, <2>1 DEF TimelineState
    <2>3. \A f \in Element : Live(t, f) <=> Live(s, f) /\ f # e
      BY <1>0, <2>2 DEF Live, TimelineState
    <2>4. \A q \in Element : e \notin s.children[q]
      BY <1>2, ChildIsLinked, TimelineAssumption
    <2>5. LinksAgree(t)
      <3>1. \A q \in Element : \A f \in t.children[q] :
               Live(t, q) /\ Live(t, f) /\ t.parent[f] = q
        <4> SUFFICES ASSUME NEW q \in Element, NEW f \in s.children[q]
                     PROVE  Live(t, q) /\ Live(t, f) /\ s.parent[f] = q
          BY <2>2
        <4>1. f \in Element /\ Live(s, f) /\ Live(s, q) /\ s.parent[f] = q
          BY ChildIsLinked
        <4>2. f # e /\ q # e
          BY <1>2, <2>4
        <4> QED BY <4>1, <4>2, <2>3
      <3>2. \A f \in Element : Live(t, f) => f \in Roots \/ f \in t.children[Owner[f]]
        BY <2>2, <2>3 DEF Sound, LinksAgree
      <3> QED BY <2>2, <3>1, <3>2 DEF Sound, LinksAgree
    <2>6. HeapWaits(t)
      BY <1>2, <2>2, <2>3 DEF Sound, HeapWaits
    <2>7. CallsOnce(t)
      BY <1>2, <2>2, <2>3 DEF Sound, CallsOnce
    <2>8. Waiting(t, NONE)
      BY <2>2, <2>3 DEF Waiting
    <2>9. AtWork(t)
      BY <2>2 DEF AtWork
    <2> QED BY <2>2, <2>5, <2>6, <2>7, <2>8, <2>9 DEF IInv, Sound, t
  <1>3. CASE ~s.scheduled[e] /\ p # NONE
    <2>0. Live(s, e)
      BY <1>3, RootHasNoParent, TimelineAssumption
    <2>1. /\ p \in Element /\ e \in s.children[p]
      BY <1>3, <2>0, ParentIsLinked
    <2>2. e \in Component(p) /\ Live(s, p) /\ e \notin Roots
      BY <2>1, ChildIsLinked
    <2>3. Kind[p] \in Parents
      BY <2>1, <2>2, PartsOfKinds
    <2>4. p # e
      BY <1>3, <2>1
    <2>5. s.when[p] = NONE
      BY <2>1 DEF Sound, HeapWaits
    <2>6. t = [s EXCEPT !.handle = [s.handle EXCEPT ![e] = "none"],
                        !.parent = [s.parent EXCEPT ![e] = NONE],
                        !.children = [s.children EXCEPT ![p] = s.children[p] \ {e}],
                        !.scheduled = [s.scheduled EXCEPT ![p] = FALSE],
                        !.phase = "resume", !.active = p, !.result = result]
      BY <1>3 DEF Return
    <2> HIDE DEF t, p, e
    <2>7. t \in TimelineState
      BY <1>0, <2>1, <2>6 DEF TimelineState, e
    <2>8. /\ t.handle = [s.handle EXCEPT ![e] = "none"]
          /\ t.parent = [s.parent EXCEPT ![e] = NONE]
          /\ t.children = [s.children EXCEPT ![p] = s.children[p] \ {e}]
          /\ t.phase = "resume" /\ t.active = p
          /\ t.when = s.when /\ t.state = s.state /\ t.entered = s.entered
          /\ t.finals = s.finals /\ t.registered = s.registered /\ t.void = s.void
      BY <1>0, <2>6 DEF TimelineState
    <2>9. \A f \in Element : Live(t, f) <=> Live(s, f) /\ f # e
      BY <1>0, <2>8 DEF Live, TimelineState
    <2>10. \A q \in Element : t.children[q] = s.children[q] \ {e}
      <3>1. \A q \in Element : q # p => e \notin s.children[q]
        BY ChildIsLinked DEF p
      <3>2. \A q \in Element : t.children[q] = IF q = p THEN s.children[p] \ {e}
                                               ELSE s.children[q]
        BY <1>0, <2>8 DEF TimelineState
      <3> QED BY <3>1, <3>2
    <2>11. \A f \in Element : t.parent[f] = IF f = e THEN NONE ELSE s.parent[f]
      BY <1>0, <2>8 DEF TimelineState
    <2>12. LinksAgree(t)
      <3>1. \A q \in Element : \A f \in t.children[q] :
               Live(t, q) /\ Live(t, f) /\ t.parent[f] = q
        <4> SUFFICES ASSUME NEW q \in Element, NEW f \in t.children[q]
                     PROVE  Live(t, q) /\ Live(t, f) /\ t.parent[f] = q
          OBVIOUS
        <4>1. f \in s.children[q] /\ f # e
          BY <2>10
        <4>2. f \in Element /\ Live(s, f) /\ Live(s, q) /\ s.parent[f] = q
          BY <4>1, ChildIsLinked
        <4>3. q # e
          BY <1>3, <4>1 DEF e
        <4> QED BY <4>1, <4>2, <4>3, <2>9, <2>11
      <3>2. \A f \in Element : Live(t, f) => f \in Roots \/ f \in t.children[Owner[f]]
        <4> SUFFICES ASSUME NEW f \in Element, Live(t, f), f \notin Roots
                     PROVE  f \in t.children[Owner[f]]
          OBVIOUS
        <4>1. f \in s.children[Owner[f]] /\ Owner[f] \in Element /\ f # e
          BY <2>9, OwnerType DEF Sound, LinksAgree
        <4> QED BY <4>1, <2>10
      <3>3. \A f \in Element : t.parent[f] # NONE => f \in Component(t.parent[f])
        BY <2>11 DEF Sound, LinksAgree
      <3>4. \A q \in Element : Kind[q] # "all" => \A f, g \in t.children[q] : f = g
        BY <2>10 DEF Sound, LinksAgree
      <3> QED BY <3>1, <3>2, <3>3, <3>4 DEF LinksAgree
    <2>13. HeapWaits(t)
      BY <1>3, <2>8, <2>9, <2>10 DEF Sound, HeapWaits, e
    <2>14. CallsOnce(t)
      BY <1>3, <2>8, <2>9 DEF Sound, CallsOnce, e
    <2>15. Waiting(t, NONE)
      <3> SUFFICES ASSUME NEW f \in Element, Live(t, f), f # p
                   PROVE  t.when[f] # NONE \/ t.children[f] # {} \/ f \in Roots \cap Calling
        BY <2>8 DEF Waiting
      <3>1. Live(s, f) /\ f # e /\ f # NONE
        BY <2>9, TimelineAssumption
      <3>2. s.when[f] # NONE \/ s.children[f] # {} \/ f \in Roots \cap Calling
        BY <3>1 DEF Waiting, e
      <3>3. t.children[f] = s.children[f]
        BY <1>0, <2>8 DEF TimelineState
      <3> QED BY <3>2, <3>3, <2>8
    <2>16. Kind[p] # "all" => t.children[p] = {}
      BY <2>1, <2>10 DEF Sound, LinksAgree
    <2>17. p # NONE
      BY <2>1, TimelineAssumption
    <2>18. AtWork(t)
      BY <2>1, <2>2, <2>3, <2>4, <2>5, <2>8, <2>9, <2>16, <2>17 DEF AtWork
    <2> QED BY <2>7, <2>8, <2>12, <2>13, <2>14, <2>15, <2>18 DEF IInv, Sound, t, p, e
  <1> QED BY <1>1, <1>2, <1>3

\* What adopting does, of children that were no other's
LEMMA AdoptedDoes ==
    ASSUME NEW s \in TimelineState, NEW e \in Element, NEW children \in SUBSET Element
    PROVE  LET t == Adopted(s, e, children) IN
           /\ t \in TimelineState
           /\ \A c \in Element :
                 /\ Live(t, c) <=> Live(s, c) \/ c \in children
                 /\ t.parent[c] = IF c \in children THEN e ELSE s.parent[c]
                 /\ t.children[c] = IF c = e THEN children ELSE s.children[c]
           /\ t.scheduled[e]
           /\ t.when = s.when /\ t.state = s.state /\ t.entered = s.entered
           /\ t.finals = s.finals /\ t.registered = s.registered /\ t.void = s.void
           /\ t.active = s.active
  <1> DEFINE t == Adopted(s, e, children)
             h == [c \in Element |-> IF c \in children THEN "live" ELSE s.handle[c]]
             sched == [c \in Element |-> [s.scheduled EXCEPT ![e] = TRUE][c]
                                         \/ c \in children \cup {e}]
             par == [c \in Element |-> IF c \in children THEN e ELSE s.parent[c]]
             ch == [s.children EXCEPT ![e] = children]
  <1>1. t = [s EXCEPT !.scheduled = sched, !.children = ch, !.handle = h, !.parent = par]
    BY DEF Adopted, TimelineState
  <1>2. /\ h \in [Element -> {"none", "live", "cleared"}]
        /\ sched \in [Element -> BOOLEAN]
        /\ par \in [Element -> Element \cup {NONE}]
        /\ ch \in [Element -> SUBSET Element]
    BY DEF TimelineState
  <1>3. /\ \A c \in Element : h[c] = "live" <=> s.handle[c] = "live" \/ c \in children
        /\ \A c \in Element : par[c] = IF c \in children THEN e ELSE s.parent[c]
        /\ \A c \in Element : ch[c] = IF c = e THEN children ELSE s.children[c]
        /\ sched[e]
    BY DEF TimelineState
  <1> HIDE DEF t, h, sched, par, ch
  <1>4. t \in TimelineState
    BY <1>1, <1>2 DEF TimelineState
  <1>5. /\ t.handle = h /\ t.parent = par /\ t.children = ch /\ t.scheduled = sched
        /\ t.when = s.when /\ t.state = s.state /\ t.entered = s.entered
        /\ t.finals = s.finals /\ t.registered = s.registered /\ t.void = s.void
        /\ t.active = s.active
    BY <1>1 DEF TimelineState
  <1> QED BY <1>3, <1>4, <1>5 DEF t, Live

\* t is sound, and e has children there that are at their beginning.
Adopts(t, e, children) ==
    /\ Sound(t) /\ t.children[e] = children
    /\ \A c \in children :
          /\ c \in Element \ Roots /\ c # e
          /\ t.when[c] = NONE /\ t.children[c] = {} /\ Live(t, c)
          /\ Kind[c] = "finally" => t.state[c] # "finally"
    /\ \A f \in Element \ children : Live(t, f) /\ f # e =>
          t.when[f] # NONE \/ t.children[f] # {} \/ f \in Roots \cap Calling

\* An element that has no children may adopt parts of it; it then waits for them.
LEMMA AdoptedSound ==
    ASSUME NEW s, Sound(s), Waiting(s, NONE), NEW e \in Element, Live(s, e),
           s.active = e, s.when[e] = NONE, s.children[e] = {},
           NEW children \in SUBSET Component(e),
           Kind[e] # "all" => \A c, d \in children : c = d
    PROVE  Adopts(Adopted(s, e, children), e, children)
  <1> DEFINE t == Adopted(s, e, children)
  <1>0. s \in TimelineState /\ children \in SUBSET Element
    BY PartsOfKinds DEF Sound
  <1>1. /\ t \in TimelineState
        /\ \A c \in Element :
                 /\ Live(t, c) <=> Live(s, c) \/ c \in children
                 /\ t.parent[c] = IF c \in children THEN e ELSE s.parent[c]
                 /\ t.children[c] = IF c = e THEN children ELSE s.children[c]
        /\ t.when = s.when /\ t.state = s.state /\ t.entered = s.entered
        /\ t.finals = s.finals /\ t.registered = s.registered /\ t.void = s.void
        /\ t.active = s.active
    BY <1>0, AdoptedDoes
  <1> HIDE DEF t
  <1>2. \A c \in children : /\ c \in Element /\ c \notin Roots /\ Owner[c] = e
                            /\ ~Live(s, c) /\ c # e
    <2> SUFFICES ASSUME NEW c \in children
                 PROVE  c \in Element /\ c \notin Roots /\ Owner[c] = e /\ ~Live(s, c)
      OBVIOUS
    <2>1. c \in Element /\ c \notin Roots /\ Owner[c] = e
      BY OwnerOfPart
    <2>2. ~Live(s, c)
      BY <2>1 DEF Sound, LinksAgree
    <2> QED BY <2>1, <2>2
  <1>3. \A c \in children : /\ s.when[c] = NONE /\ s.children[c] = {}
                            /\ Kind[c] = "finally" => s.state[c] # "finally"
                                                      /\ s.entered[c] = s.finals[c] + 0
    <2>1. \A c \in children : s.children[c] = {}
      BY <1>0, <1>2, ChildIsLinked
    <2> QED BY <1>2, <2>1 DEF Sound, HeapWaits, CallsOnce
  <1>4. LinksAgree(t)
    <2>1. \A q \in Element : \A f \in t.children[q] :
             Live(t, q) /\ Live(t, f) /\ t.parent[f] = q
      <3> SUFFICES ASSUME NEW q \in Element, NEW f \in t.children[q]
                   PROVE  Live(t, q) /\ Live(t, f) /\ t.parent[f] = q
        OBVIOUS
      <3>1. CASE q = e
        BY <3>1, <1>1, <1>2
      <3>2. CASE q # e
        <4>1. f \in s.children[q]
          BY <3>2, <1>1
        <4>2. f \in Element /\ Live(s, f) /\ Live(s, q) /\ s.parent[f] = q
          BY <4>1, ChildIsLinked
        <4> QED BY <4>2, <1>1, <1>2
      <3> QED BY <3>1, <3>2
    <2>2. \A f \in Element : Live(t, f) => f \in Roots \/ f \in t.children[Owner[f]]
      <3> SUFFICES ASSUME NEW f \in Element, Live(t, f), f \notin Roots
                   PROVE  f \in t.children[Owner[f]]
        OBVIOUS
      <3>1. CASE f \in children
        BY <3>1, <1>1, <1>2
      <3>2. CASE f \notin children
        <4>1. f \in s.children[Owner[f]] /\ Owner[f] \in Element
          BY <3>2, <1>1, OwnerType DEF Sound, LinksAgree
        <4> QED BY <4>1, <1>1
      <3> QED BY <3>1, <3>2
    <2>3. \A f \in Element : t.parent[f] # NONE => f \in Component(t.parent[f])
      BY <1>1 DEF Sound, LinksAgree
    <2>4. \A q \in Element : Kind[q] # "all" => \A f, g \in t.children[q] : f = g
      BY <1>1 DEF Sound, LinksAgree
    <2> QED BY <2>1, <2>2, <2>3, <2>4 DEF LinksAgree
  <1>5. HeapWaits(t)
    BY <1>1, <1>2, <1>3 DEF Sound, HeapWaits
  <1>6. CallsOnce(t)
    BY <1>1, <1>2, <1>3 DEF Sound, CallsOnce
  <1>7. Sound(t)
    BY <1>1, <1>4, <1>5, <1>6 DEF Sound
  <1>8. \A f \in Element \ children : Live(t, f) /\ f # e =>
           t.when[f] # NONE \/ t.children[f] # {} \/ f \in Roots \cap Calling
    BY <1>1, TimelineAssumption DEF Waiting
  <1> QED BY <1>1, <1>2, <1>3, <1>7, <1>8 DEF t, Adopts

LEMMA NewStateSound ==
    ASSUME NEW s, Sound(s), NEW t \in TimelineState, CallsOnce(t),
           t.handle = s.handle, t.when = s.when, t.parent = s.parent,
           t.children = s.children, t.registered = s.registered, t.void = s.void
    PROVE  Sound(t)
  BY DEF Sound, LinksAgree, HeapWaits, Live

LEMMA RunChildInv ==
    ASSUME NEW s, Sound(s), Waiting(s, NONE), NEW e \in Element, Live(s, e),
           s.active = e, s.when[e] = NONE, s.children[e] = {}, NEW child \in Component(e)
    PROVE  IInv(RunChild(s, e, child))
  <1> DEFINE a == Adopted(s, e, {child})
             t == RunChild(s, e, child)
  <1>1. /\ Sound(a) /\ a.when[child] = NONE /\ a.children[child] = {} /\ Live(a, child)
        /\ Kind[child] = "finally" => a.state[child] # "finally"
        /\ child \in Element /\ a.children[e] = {child}
        /\ \A f \in Element \ {child} : Live(a, f) /\ f # e =>
              a.when[f] # NONE \/ a.children[f] # {} \/ f \in Roots \cap Calling
    <2>1. {child} \in SUBSET Component(e) /\ \A c, d \in {child} : c = d
      OBVIOUS
    <2>2. Adopts(a, e, {child})
      BY <2>1, AdoptedSound
    <2> QED BY <2>2 DEF Adopts
  <1>2. t = [a EXCEPT !.phase = "run", !.active = child]
    BY DEF RunChild
  <1> HIDE DEF a, t
  <1>3. /\ t \in TimelineState
        /\ t.handle = a.handle /\ t.when = a.when /\ t.parent = a.parent
        /\ t.children = a.children /\ t.state = a.state /\ t.entered = a.entered
        /\ t.finals = a.finals /\ t.registered = a.registered /\ t.void = a.void
        /\ t.phase = "run" /\ t.active = child
    BY <1>1, <1>2 DEF Sound, TimelineState
  <1>4. Sound(t)
    BY <1>1, <1>3, SameTreesSound
  <1>5. Waiting(t, NONE)
    BY <1>1, <1>3 DEF Waiting, Live
  <1>6. child # NONE
    BY <1>1, TimelineAssumption
  <1>7. AtWork(t)
    BY <1>1, <1>3, <1>6 DEF AtWork, Live
  <1> QED BY <1>4, <1>5, <1>7 DEF IInv, t

\* An element with a handle, or a root, may be put into the heap.
LEMMA ScheduleDoes ==
    ASSUME NEW s, Sound(s), NEW e \in Element, Live(s, e) \/ e \in Roots,
           s.children[e] = {}, NEW d \in 0 .. MaxDelay,
           Kind[e] = "finally" => s.state[e] # "finally"
    PROVE  LET t == Schedule(s, e, d) IN
           /\ Sound(t)
           /\ t.when[e] # NONE /\ t.scheduled[e] /\ Live(t, e)
           /\ \A f \in Element \ {e} : /\ t.when[f] = s.when[f]
                                       /\ t.scheduled[f] = s.scheduled[f]
                                       /\ Live(t, f) <=> Live(s, f)
           /\ t.children = s.children /\ t.parent = s.parent /\ t.state = s.state
           /\ t.active = s.active /\ t.phase = s.phase /\ t.pending = s.pending
           /\ t.registered = s.registered /\ t.void = s.void /\ t.held = s.held
           /\ t.entered = s.entered /\ t.finals = s.finals
  <1> DEFINE t == Schedule(s, e, d)
  <1>0. s \in TimelineState /\ d # NONE
    BY TimelineAssumption DEF Sound
  <1>1. t = [s EXCEPT !.handle = [s.handle EXCEPT ![e] = "live"],
                      !.when = [s.when EXCEPT ![e] = d],
                      !.scheduled = [s.scheduled EXCEPT ![e] = TRUE]]
    BY DEF Schedule
  <1> HIDE DEF t
  <1>2. t \in TimelineState
    BY <1>0, <1>1 DEF TimelineState
  <1>3. /\ t.handle = [s.handle EXCEPT ![e] = "live"]
        /\ t.when = [s.when EXCEPT ![e] = d]
        /\ t.scheduled = [s.scheduled EXCEPT ![e] = TRUE]
        /\ t.children = s.children /\ t.parent = s.parent /\ t.state = s.state
        /\ t.active = s.active /\ t.phase = s.phase /\ t.pending = s.pending
        /\ t.registered = s.registered /\ t.void = s.void /\ t.held = s.held
        /\ t.entered = s.entered /\ t.finals = s.finals
    BY <1>0, <1>1 DEF TimelineState
  <1>4. /\ t.when[e] # NONE /\ t.scheduled[e] /\ Live(t, e)
        /\ \A f \in Element \ {e} : /\ t.when[f] = s.when[f]
                                    /\ t.scheduled[f] = s.scheduled[f]
                                    /\ Live(t, f) <=> Live(s, f)
    BY <1>0, <1>3 DEF TimelineState, Live
  <1>5. LinksAgree(t)
    <2>1. \A f \in Element : Live(t, f) <=> Live(s, f) \/ f = e
      BY <1>4
    <2>2. \A q \in Element : \A f \in s.children[q] :
             Live(t, q) /\ Live(t, f) /\ s.parent[f] = q
      <3> SUFFICES ASSUME NEW q \in Element, NEW f \in s.children[q]
                   PROVE  Live(t, q) /\ Live(t, f) /\ s.parent[f] = q
        OBVIOUS
      <3> QED BY <2>1, ChildIsLinked
    <2>3. \A f \in Element : Live(t, f) => f \in Roots \/ f \in s.children[Owner[f]]
      BY <2>1 DEF Sound, LinksAgree
    <2> QED BY <1>3, <2>2, <2>3 DEF Sound, LinksAgree
  <1>6. HeapWaits(t)
    BY <1>3, <1>4 DEF Sound, HeapWaits
  <1>7. CallsOnce(t)
    BY <1>3, <1>4 DEF Sound, CallsOnce
  <1> QED BY <1>2, <1>3, <1>4, <1>5, <1>6, <1>7 DEF Sound, t

-----------------------------------------------------------------------------
(* _run and _resume of each class                                          *)

\* What a handler that is to run an element finds
Called(s, e) ==
    /\ Sound(s) /\ Waiting(s, NONE) /\ e \in Element /\ Live(s, e)
    /\ s.active = e /\ s.when[e] = NONE /\ ~s.scheduled[e]

LEMMA ReturnCalledInv ==
    ASSUME NEW s, NEW e, Called(s, e), NEW result \in BOOLEAN, s.children[e] = {},
           Kind[e] = "finally" => s.state[e] # "finally"
    PROVE  IInv(Return(s, result))
  BY ReturnInv DEF Called

\* t differs from s in what elements note that have no call to make.
Noted(s, t) ==
    /\ t \in TimelineState
    /\ t.handle = s.handle /\ t.when = s.when /\ t.parent = s.parent
    /\ t.children = s.children /\ t.registered = s.registered /\ t.void = s.void
    /\ t.entered = s.entered /\ t.finals = s.finals /\ t.active = s.active
    /\ \A f \in Element : Kind[f] = "finally" => t.state[f] = s.state[f]

LEMMA NotedSound ==
    ASSUME NEW s, Sound(s), Waiting(s, NONE), NEW t, Noted(s, t)
    PROVE  Sound(t) /\ Waiting(t, NONE)
  <1>1. CallsOnce(t)
    BY DEF Noted, Sound, CallsOnce, Live
  <1>2. Sound(t)
    BY <1>1, NewStateSound DEF Noted
  <1>3. Waiting(t, NONE)
    BY DEF Noted, Waiting, Live
  <1> QED BY <1>2, <1>3

LEMMA NotedCalled ==
    ASSUME NEW s, NEW e, Called(s, e), NEW t, Noted(s, t), t.scheduled = s.scheduled
    PROVE  Called(t, e)
  BY NotedSound DEF Called, Noted, Live

\* A WithFinallyElement that begins, or that makes its call
LEMMA FinallyCalled ==
    ASSUME NEW s, NEW e, Called(s, e), Kind[e] = "finally"
    PROVE  LET begun == [s EXCEPT !.state[e] = "finally", !.entered[e] = @ + 1]
               done == [s EXCEPT !.state[e] = "init",
                                 !.finals[e] = IF s.state[e] = "finally" THEN @ + 1 ELSE @]
           IN  /\ s.state[e] # "finally" => Called(begun, e) /\ begun.children = s.children
               /\ Called(done, e) /\ done.children = s.children
               /\ done.state[e] # "finally"
  <1>0. s \in TimelineState /\ e \in Element /\ Live(s, e)
    BY DEF Called, Sound
  <1>a. /\ s.entered[e] = s.finals[e] + IF s.state[e] = "finally" THEN 1 ELSE 0
        /\ s.entered[e] \in Nat /\ s.finals[e] \in Nat
    BY <1>0 DEF Called, Sound, CallsOnce, TimelineState
  <1>1. ASSUME s.state[e] # "finally"
        PROVE  LET t == [s EXCEPT !.state[e] = "finally", !.entered[e] = @ + 1]
               IN  Called(t, e) /\ t.children = s.children
    <2> DEFINE st == [s.state EXCEPT ![e] = "finally"]
               en == [s.entered EXCEPT ![e] = s.entered[e] + 1]
               t == [s EXCEPT !.state = st, !.entered = en]
    <2>1. t = [s EXCEPT !.state[e] = "finally", !.entered[e] = @ + 1]
      OBVIOUS
    <2>2. /\ st \in [Element -> {"init", "work", "cleanup", "slept", "finally"}]
          /\ en \in [Element -> Nat]
          /\ st[e] = "finally" /\ en[e] = s.entered[e] + 1
          /\ \A f \in Element \ {e} : st[f] = s.state[f] /\ en[f] = s.entered[f]
      BY <1>0, <1>a DEF TimelineState
    <2> HIDE DEF st, en
    <2>3. /\ t \in TimelineState /\ t.state = st /\ t.entered = en /\ t.finals = s.finals
          /\ t.handle = s.handle /\ t.when = s.when /\ t.parent = s.parent
          /\ t.children = s.children /\ t.registered = s.registered /\ t.void = s.void
          /\ t.active = s.active /\ t.scheduled = s.scheduled
      BY <1>0, <2>2 DEF TimelineState
    <2> HIDE DEF t
    <2>4. CallsOnce(t)
      BY <1>0, <1>1, <1>a, <2>2, <2>3 DEF Called, Sound, CallsOnce, Live
    <2>5. Sound(t)
      BY <2>3, <2>4, NewStateSound DEF Called
    <2>6. Waiting(t, NONE)
      BY <2>3 DEF Called, Waiting, Live
    <2> QED BY <2>1, <2>3, <2>5, <2>6 DEF Called, Live
  <1>2. LET t == [s EXCEPT !.state[e] = "init",
                           !.finals[e] = IF s.state[e] = "finally" THEN @ + 1 ELSE @]
        IN  Called(t, e) /\ t.children = s.children /\ t.state[e] # "finally"
    <2> DEFINE st == [s.state EXCEPT ![e] = "init"]
               fi == [s.finals EXCEPT ![e] = IF s.state[e] = "finally"
                                             THEN s.finals[e] + 1 ELSE s.finals[e]]
               t == [s EXCEPT !.state = st, !.finals = fi]
    <2>1. t = [s EXCEPT !.state[e] = "init",
                        !.finals[e] = IF s.state[e] = "finally" THEN @ + 1 ELSE @]
      OBVIOUS
    <2>2. /\ st \in [Element -> {"init", "work", "cleanup", "slept", "finally"}]
          /\ fi \in [Element -> Nat]
          /\ st[e] = "init" /\ fi[e] = s.finals[e] + IF s.state[e] = "finally" THEN 1 ELSE 0
          /\ \A f \in Element \ {e} : st[f] = s.state[f] /\ fi[f] = s.finals[f]
      BY <1>0, <1>a DEF TimelineState
    <2> HIDE DEF st, fi
    <2>3. /\ t \in TimelineState /\ t.state = st /\ t.finals = fi /\ t.entered = s.entered
          /\ t.handle = s.handle /\ t.when = s.when /\ t.parent = s.parent
          /\ t.children = s.children /\ t.registered = s.registered /\ t.void = s.void
          /\ t.active = s.active /\ t.scheduled = s.scheduled
      BY <1>0, <2>2 DEF TimelineState
    <2> HIDE DEF t
    <2>4. CallsOnce(t)
      BY <1>0, <1>a, <2>2, <2>3 DEF Called, Sound, CallsOnce, Live
    <2>5. Sound(t)
      BY <2>3, <2>4, NewStateSound DEF Called
    <2>6. Waiting(t, NONE)
      BY <2>3 DEF Called, Waiting, Live
    <2> QED BY <2>1, <2>2, <2>3, <2>5, <2>6 DEF Called, Live
  <1> QED BY <1>1, <1>2

\* SleepElement._run, SoftSleepElement._run
LEMMA RunSleepInv ==
    ASSUME NEW s, NEW e, Called(s, e), s.children[e] = {}, Kind[e] # "finally"
    PROVE  IInv(RunSleep(s, e))
  <1>0. s \in TimelineState /\ e \in Element
    BY DEF Called, Sound
  <1>1. CASE s.softStopped[e]
    BY <1>1, ReturnCalledInv DEF RunSleep
  <1>2. CASE ~s.softStopped[e] /\ s.state[e] = "init"
    <2> DEFINE a == Schedule(s, e, Delay[e])
               t == [a EXCEPT !.state[e] = "slept"]
    <2>1. Delay[e] \in 0 .. MaxDelay
      BY <1>0, TimelineAssumption
    <2>2. /\ Sound(a) /\ a.when[e] # NONE /\ a.scheduled[e] /\ Live(a, e)
          /\ \A f \in Element \ {e} : a.when[f] = s.when[f] /\ (Live(a, f) <=> Live(s, f))
          /\ a.children = s.children /\ a.active = s.active
      BY <1>0, <2>1, ScheduleDoes DEF Called
    <2> HIDE DEF a
    <2>3. Waiting(a, NONE)
      BY <2>2 DEF Called, Waiting
    <2>a. a \in TimelineState
      BY <2>2 DEF Sound
    <2>b. t = [a EXCEPT !.state = [a.state EXCEPT ![e] = "slept"]]
      OBVIOUS
    <2> HIDE DEF t
    <2>4. Noted(a, t) /\ t.scheduled = a.scheduled
      <3> DEFINE st == [a.state EXCEPT ![e] = "slept"]
      <3>1. /\ st \in [Element -> {"init", "work", "cleanup", "slept", "finally"}]
            /\ \A f \in Element \ {e} : st[f] = a.state[f]
        BY <1>0, <2>a DEF TimelineState
      <3>2. t = [a EXCEPT !.state = st]
        BY <2>b
      <3> HIDE DEF st
      <3>3. t \in TimelineState /\ t.state = st
        BY <2>a, <3>1, <3>2 DEF TimelineState
      <3>4. /\ t.handle = a.handle /\ t.when = a.when /\ t.parent = a.parent
            /\ t.children = a.children /\ t.registered = a.registered /\ t.void = a.void
        BY <2>a, <3>2 DEF TimelineState
      <3>5. /\ t.entered = a.entered /\ t.finals = a.finals /\ t.active = a.active
            /\ t.scheduled = a.scheduled
        BY <2>a, <3>2 DEF TimelineState
      <3> QED BY <1>0, <3>1, <3>3, <3>4, <3>5 DEF Noted
    <2>5. Sound(t) /\ Waiting(t, NONE)
      BY <2>2, <2>3, <2>4, NotedSound
    <2>6. t.active = e /\ t.scheduled[e] /\ t.when[e] # NONE /\ Live(t, e)
      BY <2>2, <2>4 DEF Noted, Called, Live
    <2> HIDE DEF t
    <2>7. IInv(Return(t, TRUE))
      BY <1>0, <2>5, <2>6, ReturnInv
    <2> QED BY <1>2, <2>7 DEF RunSleep, t, a
  <1>3. CASE ~s.softStopped[e] /\ s.state[e] # "init"
    <2> DEFINE t == [s EXCEPT !.state[e] = "init"]
    <2>1. Noted(s, t) /\ t.scheduled = s.scheduled
      BY <1>0 DEF Noted, TimelineState
    <2>2. Called(t, e) /\ t.children[e] = {}
      BY <2>1, NotedCalled DEF Noted
    <2> HIDE DEF t
    <2>3. IInv(Return(t, TRUE))
      BY <2>2, ReturnCalledInv
    <2> QED BY <1>3, <2>3 DEF RunSleep, t
  <1> QED BY <1>1, <1>2, <1>3

\* CriticalSectionElement._run
LEMMA RunCriticalInv ==
    ASSUME NEW s, NEW e, Called(s, e), s.children[e] = {}, Kind[e] = "critical"
    PROVE  IInv(RunCritical(s, e))
  <1> DEFINE t == [s EXCEPT !.state[e] = "work"]
  <1>0. s \in TimelineState /\ e \in Element
    BY DEF Called, Sound
  <1>1. Noted(s, t) /\ t.scheduled = s.scheduled
    BY <1>0 DEF Noted, TimelineState
  <1>2. Called(t, e) /\ t.children[e] = {}
    BY <1>1, NotedCalled DEF Noted
  <1>3. Parts[e][1] \in Component(e)
    BY <1>0, PartsOfKinds DEF Parents
  <1> HIDE DEF t
  <1>4. IInv(RunChild(t, e, Parts[e][1]))
    BY <1>2, <1>3, RunChildInv DEF Called
  <1> QED BY <1>4 DEF RunCritical, t

\* WithFinallyElement._run
LEMMA RunFinallyInv ==
    ASSUME NEW s, NEW e, Called(s, e), s.children[e] = {}, Kind[e] = "finally",
           s.state[e] # "finally"
    PROVE  IInv(RunFinally(s, e))
  <1> DEFINE t == [s EXCEPT !.state[e] = "finally", !.entered[e] = @ + 1]
  <1>1. Called(t, e) /\ t.children[e] = {}
    BY FinallyCalled
  <1>2. Parts[e][1] \in Component(e)
    BY PartsOfKinds DEF Parents, Called
  <1> HIDE DEF t
  <1>3. IInv(RunChild(t, e, Parts[e][1]))
    BY <1>1, <1>2, RunChildInv DEF Called
  <1> QED BY <1>3 DEF RunFinally, t

\* What runs its one child
LEMMA RunPartInv ==
    ASSUME NEW s, NEW e, Called(s, e), s.children[e] = {}, Kind[e] \in {"mustrun", "repeat"}
    PROVE  IInv(RunChild(s, e, Parts[e][1]))
  <1>1. Parts[e][1] \in Component(e)
    BY PartsOfKinds DEF Parents, Called
  <1> QED BY <1>1, RunChildInv DEF Called

\* AllElement._run
LEMMA RunAllInv ==
    ASSUME NEW s, NEW e, Called(s, e), s.children[e] = {}, Kind[e] = "all"
    PROVE  IInv(RunAll(s, e))
  <1> DEFINE n == [s EXCEPT !.saved[e] = TRUE]
             cs == Component(e)
             a == Adopted(n, e, cs)
             wh == [c \in Element |-> IF c \in cs THEN 0 ELSE a.when[c]]
             sc == [a.scheduled EXCEPT ![e] = cs # {}]
             t == [a EXCEPT !.when = wh, !.scheduled = sc]
  <1>0. s \in TimelineState /\ e \in Element
    BY DEF Called, Sound
  <1>1. Noted(s, n) /\ n.scheduled = s.scheduled
    BY <1>0 DEF Noted, TimelineState
  <1>2. Called(n, e) /\ n.children[e] = {}
    BY <1>1, NotedCalled DEF Noted
  <1>3. RunAll(s, e) = Return(t, TRUE)
    BY DEF RunAll
  <1> HIDE DEF n
  <1>4. Adopts(a, e, cs)
    BY <1>2, AdoptedSound DEF Called
  <1>5. a.active = e /\ a.when[e] = NONE /\ Live(a, e)
    BY <1>0, <1>2, AdoptedDoes, PartsOfKinds DEF Called, Sound
  <1> HIDE DEF a, cs
  <1>6. a \in TimelineState
    BY <1>4 DEF Adopts, Sound
  <1>7. /\ wh \in [Element -> 0 .. MaxDelay \cup {NONE}] /\ sc \in [Element -> BOOLEAN]
        /\ \A c \in Element : wh[c] = IF c \in cs THEN 0 ELSE a.when[c]
        /\ sc[e] <=> cs # {}
    <2>1. 0 \in 0 .. MaxDelay
      BY TimelineAssumption
    <2>2. wh \in [Element -> 0 .. MaxDelay \cup {NONE}]
      BY <1>6, <2>1 DEF TimelineState
    <2>3. \A b \in BOOLEAN : LET w == [a.scheduled EXCEPT ![e] = b]
                             IN  w \in [Element -> BOOLEAN] /\ w[e] = b
      BY <1>0, <1>6 DEF TimelineState
    <2>4. (cs # {}) \in BOOLEAN
      OBVIOUS
    <2>5. sc \in [Element -> BOOLEAN] /\ (sc[e] <=> cs # {})
      BY <2>3, <2>4, Zenon
    <2> QED BY <2>2, <2>5
  <1> HIDE DEF wh, sc
  <1>8. /\ t \in TimelineState /\ t.when = wh /\ t.scheduled = sc /\ t.active = e
        /\ t.handle = a.handle /\ t.parent = a.parent /\ t.children = a.children
        /\ t.state = a.state /\ t.entered = a.entered /\ t.finals = a.finals
        /\ t.registered = a.registered /\ t.void = a.void
    <2>1. t.when = wh /\ t.scheduled = sc
      BY <1>6 DEF TimelineState
    <2>2. t.active = a.active /\ t.handle = a.handle /\ t.parent = a.parent
      BY <1>6 DEF TimelineState
    <2>3. t.children = a.children /\ t.state = a.state /\ t.entered = a.entered
      BY <1>6 DEF TimelineState
    <2>4. t.finals = a.finals /\ t.registered = a.registered /\ t.void = a.void
      BY <1>6 DEF TimelineState
    <2>5. t \in TimelineState
      BY <1>6, <1>7 DEF TimelineState
    <2> QED BY <1>5, <2>1, <2>2, <2>3, <2>4, <2>5
  <1> HIDE DEF t
  <1>9. HeapWaits(t)
    BY <1>4, <1>7, <1>8 DEF Adopts, Sound, HeapWaits, Live
  <1>10. CallsOnce(t)
    BY <1>4, <1>7, <1>8 DEF Adopts, Sound, CallsOnce, Live
  <1>11. LinksAgree(t)
    BY <1>4, <1>8 DEF Adopts, Sound, LinksAgree, Live
  <1>12. Sound(t)
    BY <1>4, <1>8, <1>9, <1>10, <1>11 DEF Adopts, Sound
  <1>13. Waiting(t, NONE)
    <2> SUFFICES ASSUME NEW f \in Element, Live(t, f), f # e
                 PROVE  t.when[f] # NONE \/ t.children[f] # {} \/ f \in Roots \cap Calling
      BY <1>8 DEF Waiting
    <2>1. CASE f \in cs
      BY <2>1, <1>7, <1>8, TimelineAssumption
    <2>2. CASE f \notin cs
      BY <2>2, <1>4, <1>7, <1>8 DEF Adopts, Live
    <2> QED BY <2>1, <2>2
  <1>14. /\ t.scheduled[e] => t.children[e] # {}
         /\ ~t.scheduled[e] => t.children[e] = {} /\ t.when[e] = NONE
    BY <1>0, <1>4, <1>5, <1>7, <1>8 DEF Adopts
  <1>15. Live(t, e)
    BY <1>5, <1>8 DEF Live
  <1>16. IInv(Return(t, TRUE))
    BY <1>0, <1>8, <1>12, <1>13, <1>14, <1>15, ReturnInv
  <1> QED BY <1>3, <1>16

\* CriticalSectionElement._resume
LEMMA ResumeCriticalInv ==
    ASSUME NEW s, NEW e, Called(s, e), s.children[e] = {}, Kind[e] = "critical"
    PROVE  IInv(ResumeCritical(s, e))
  <1>0. s \in TimelineState /\ e \in Element
    BY DEF Called, Sound
  <1>1. CASE s.state[e] = "work"
    <2> DEFINE t == [s EXCEPT !.state[e] = "cleanup", !.saved[e] = s.result]
    <2>1. t = [s EXCEPT !.state = [s.state EXCEPT ![e] = "cleanup"],
                        !.saved = [s.saved EXCEPT ![e] = s.result]]
      OBVIOUS
    <2> HIDE DEF t
    <2>2. Noted(s, t) /\ t.scheduled = s.scheduled
      BY <1>0, <2>1 DEF Noted, TimelineState
    <2>3. Called(t, e) /\ t.children[e] = {}
      BY <2>2, NotedCalled DEF Noted
    <2>4. Parts[e][2] \in Component(e)
      BY <1>0, PartsOfKinds
    <2>5. IInv(RunChild(t, e, Parts[e][2]))
      BY <2>3, <2>4, RunChildInv DEF Called
    <2> QED BY <1>1, <2>5 DEF ResumeCritical, t
  <1>2. CASE s.state[e] # "work"
    <2>1. (s.saved[e] /\ s.result) \in BOOLEAN
      OBVIOUS
    <2>2. IInv(Return(s, s.saved[e] /\ s.result))
      BY <2>1, ReturnCalledInv
    <2> QED BY <1>2, <2>2 DEF ResumeCritical
  <1> QED BY <1>1, <1>2

\* WithFinallyElement._resume
LEMMA ResumeFinallyInv ==
    ASSUME NEW s, NEW e, Called(s, e), s.children[e] = {}, Kind[e] = "finally"
    PROVE  IInv(ResumeFinally(s, e))
  <1> DEFINE t == [s EXCEPT !.state[e] = "init",
                            !.finals[e] = IF s.state[e] = "finally" THEN @ + 1 ELSE @]
  <1>1. Called(t, e) /\ t.children[e] = {} /\ t.state[e] # "finally"
    BY FinallyCalled
  <1>2. s.result \in BOOLEAN
    BY DEF Called, Sound, TimelineState
  <1> HIDE DEF t
  <1>3. IInv(Return(t, s.result))
    BY <1>1, <1>2, ReturnCalledInv
  <1> QED BY <1>3 DEF ResumeFinally, t

\* RepeatElement._resume
LEMMA ResumeRepeatInv ==
    ASSUME NEW s, NEW e, Called(s, e), s.children[e] = {}, Kind[e] = "repeat"
    PROVE  IInv(ResumeRepeat(s, e))
  <1>1. IInv(RunChild(s, e, Parts[e][1]))
    BY RunPartInv
  <1>2. IInv(Return(s, FALSE))
    BY ReturnCalledInv
  <1> QED BY <1>1, <1>2 DEF ResumeRepeat

\* AllElement._resume
LEMMA ResumeAllInv ==
    ASSUME NEW s, NEW e, Called(s, e), Kind[e] = "all"
    PROVE  IInv(ResumeAll(s, e))
  <1>0. s \in TimelineState /\ e \in Element
    BY DEF Called, Sound
  <1> DEFINE sa == [s.saved EXCEPT ![e] = s.saved[e] /\ s.result]
             sc == [s.scheduled EXCEPT ![e] = s.children[e] # {}]
             t == [s EXCEPT !.saved = sa, !.scheduled = sc]
  <1>1. ResumeAll(s, e) = Return(t, t.saved[e])
    BY DEF ResumeAll
  <1>2. /\ sa \in [Element -> BOOLEAN] /\ sc \in [Element -> BOOLEAN]
        /\ sc[e] <=> s.children[e] # {}
    <2>1. \A b \in BOOLEAN : LET w == [s.scheduled EXCEPT ![e] = b]
                             IN  w \in [Element -> BOOLEAN] /\ w[e] = b
      BY <1>0 DEF TimelineState
    <2>2. (s.children[e] # {}) \in BOOLEAN
      OBVIOUS
    <2>3. sc \in [Element -> BOOLEAN] /\ (sc[e] <=> s.children[e] # {})
      BY <2>1, <2>2, Zenon
    <2>4. \A b \in BOOLEAN : [s.saved EXCEPT ![e] = b] \in [Element -> BOOLEAN]
      BY <1>0 DEF TimelineState
    <2>5. (s.saved[e] /\ s.result) \in BOOLEAN
      OBVIOUS
    <2>6. sa \in [Element -> BOOLEAN]
      BY <2>4, <2>5, Zenon
    <2> QED BY <2>3, <2>6
  <1> HIDE DEF sa, sc
  <1>3. /\ t \in TimelineState /\ t.saved = sa /\ t.scheduled = sc
        /\ t.handle = s.handle /\ t.when = s.when /\ t.parent = s.parent
        /\ t.children = s.children /\ t.registered = s.registered /\ t.void = s.void
        /\ t.entered = s.entered /\ t.finals = s.finals /\ t.active = s.active
        /\ t.state = s.state
    BY <1>0, <1>2 DEF TimelineState
  <1> HIDE DEF t
  <1>4. Noted(s, t)
    BY <1>3 DEF Noted
  <1>5. Sound(t) /\ Waiting(t, NONE)
    BY <1>4, NotedSound DEF Called
  <1>6. /\ t.scheduled[e] => t.children[e] # {}
        /\ ~t.scheduled[e] => t.children[e] = {} /\ t.when[e] = NONE
        /\ t.active = e /\ Live(t, e) /\ t.saved[e] \in BOOLEAN
    BY <1>0, <1>2, <1>3 DEF Called, Live
  <1>7. IInv(Return(t, t.saved[e]))
    BY <1>0, <1>5, <1>6, ReturnInv
  <1> QED BY <1>1, <1>7

\* An alarm looks up its handle; what is no alarm calls at once.
LEMMA RunCallbackInv ==
    ASSUME NEW s, NEW e, Called(s, e), e \in Calling
    PROVE  IInv(RunCallback(s, e))
  <1>0. s \in TimelineState /\ e \in Element
    BY DEF Called, Sound
  <1>1. CASE e \in Alarms \ s.registered
    BY <1>1, RaiseInv DEF Called, RunCallback
  <1>2. CASE e \notin Alarms \ s.registered
    <2> DEFINE t == [s EXCEPT !.phase = "callback"]
    <2>1. /\ t \in TimelineState
          /\ t.handle = s.handle /\ t.when = s.when /\ t.parent = s.parent
          /\ t.children = s.children /\ t.registered = s.registered /\ t.void = s.void
          /\ t.entered = s.entered /\ t.finals = s.finals /\ t.active = s.active
          /\ t.state = s.state /\ t.scheduled = s.scheduled /\ t.phase = "callback"
      BY <1>0 DEF TimelineState
    <2>2. RunCallback(s, e) = t
      BY <1>2 DEF RunCallback
    <2> HIDE DEF t
    <2>3. Noted(s, t)
      BY <2>1 DEF Noted
    <2>4. Sound(t) /\ Waiting(t, NONE)
      BY <2>3, NotedSound DEF Called
    <2>5. AtWork(t)
      BY <1>0, <2>1, TimelineAssumption DEF AtWork, Called, Live
    <2> QED BY <2>2, <2>4, <2>5 DEF IInv
  <1> QED BY <1>1, <1>2

\* _run of each class
LEMMA RunElementInv ==
    ASSUME NEW s, NEW e, Called(s, e), s.children[e] = {},
           Kind[e] = "finally" => s.state[e] # "finally"
    PROVE  IInv(RunElement(s, e))
  <1>0. /\ e \in Element
        /\ Kind[e] \in {"function", "sleep", "softsleep", "critical", "finally",
                        "mustrun", "repeat", "all", "alarm", "repeating"}
    BY TimelineAssumption DEF Called
  <1>1. CASE Kind[e] \in {"sleep", "softsleep"}
    <2>1. RunElement(s, e) = RunSleep(s, e)
      BY <1>0, <1>1 DEF RunElement, Calling, Alarms
    <2> QED BY <1>1, <2>1, RunSleepInv
  <1>2. CASE Kind[e] = "critical"
    BY <1>0, <1>2, RunCriticalInv DEF RunElement, Calling, Alarms
  <1>3. CASE Kind[e] = "finally"
    BY <1>0, <1>3, RunFinallyInv DEF RunElement, Calling, Alarms
  <1>4. CASE Kind[e] \in {"mustrun", "repeat"}
    <2>1. RunElement(s, e) = RunChild(s, e, Parts[e][1])
      BY <1>0, <1>4 DEF RunElement, Calling, Alarms
    <2> QED BY <1>4, <2>1, RunPartInv
  <1>5. CASE Kind[e] = "all"
    BY <1>0, <1>5, RunAllInv DEF RunElement, Calling, Alarms
  <1>6. CASE Kind[e] \in {"function", "alarm", "repeating"}
    <2>1. e \in Calling
      BY <1>0, <1>6 DEF Calling, Alarms
    <2>2. RunElement(s, e) = RunCallback(s, e)
      BY <1>6, <2>1 DEF RunElement
    <2> QED BY <2>1, <2>2, RunCallbackInv
  <1> QED BY <1>0, <1>1, <1>2, <1>3, <1>4, <1>5, <1>6

\* _resume of each class
LEMMA ResumeElementInv ==
    ASSUME NEW s, NEW e, Called(s, e), Kind[e] \in Parents,
           Kind[e] # "all" => s.children[e] = {}
    PROVE  IInv(ResumeElement(s, e))
  <1>0. s.result \in BOOLEAN
    BY DEF Called, Sound, TimelineState
  <1>1. CASE Kind[e] = "critical"
    BY <1>1, ResumeCriticalInv DEF ResumeElement
  <1>2. CASE Kind[e] = "finally"
    BY <1>2, ResumeFinallyInv DEF ResumeElement
  <1>3. CASE Kind[e] = "mustrun"
    BY <1>0, <1>3, ReturnCalledInv DEF ResumeElement
  <1>4. CASE Kind[e] = "repeat"
    BY <1>4, ResumeRepeatInv DEF ResumeElement
  <1>5. CASE Kind[e] = "all"
    BY <1>5, ResumeAllInv DEF ResumeElement
  <1> QED BY <1>1, <1>2, <1>3, <1>4, <1>5 DEF Parents

-----------------------------------------------------------------------------
(* Alarms                                                                  *)

\* t differs from s in nothing that the trees and simulate depend on.
SameWork(s, t) ==
    /\ t \in TimelineState
    /\ t.handle = s.handle /\ t.when = s.when /\ t.parent = s.parent
    /\ t.children = s.children /\ t.state = s.state /\ t.scheduled = s.scheduled
    /\ t.entered = s.entered /\ t.finals = s.finals
    /\ t.active = s.active /\ t.phase = s.phase

LEMMA SameWorkInv ==
    ASSUME NEW s, IInv(s), NEW t, SameWork(s, t), t.registered \cap t.void = {}
    PROVE  IInv(t)
  <1>1. Sound(t)
    BY DEF IInv, SameWork, Sound, LinksAgree, HeapWaits, CallsOnce, Live
  <1>2. Waiting(t, NONE) /\ AtWork(t)
    BY DEF IInv, SameWork, Waiting, AtWork, Live
  <1> QED BY <1>1, <1>2 DEF IInv

\* The history of an alarm that is void, and its handle
LEMMA UnregisterInv ==
    ASSUME NEW s, IInv(s), NEW a \in Alarms
    PROVE  LET t == Unregister(s, a)
               v == [t EXCEPT !.void = @ \cup {a}]
               d == [s EXCEPT !.held = @ \ {a}]
           IN  /\ IInv(t) /\ SameWork(s, t)
               /\ IInv(v) /\ SameWork(s, v)
               /\ IInv(d) /\ SameWork(s, d)
  <1> DEFINE t == Unregister(s, a)
             v == [t EXCEPT !.void = t.void \cup {a}]
             d == [s EXCEPT !.held = s.held \ {a}]
  <1>0. s \in TimelineState /\ s.registered \cap s.void = {}
    BY DEF IInv, Sound
  <1>1. t = [s EXCEPT !.registered = s.registered \ {a}]
    BY DEF Unregister
  <1> HIDE DEF t
  <1>2. /\ SameWork(s, t) /\ t.registered = s.registered \ {a} /\ t.void = s.void
    BY <1>0, <1>1 DEF SameWork, TimelineState
  <1>3. IInv(t)
    BY <1>0, <1>2, SameWorkInv
  <1>4. /\ v \in TimelineState /\ v.registered = t.registered /\ v.void = t.void \cup {a}
    BY <1>2 DEF SameWork, TimelineState
  <1>5. SameWork(s, v)
    BY <1>2, <1>4 DEF SameWork, TimelineState
  <1>6. IInv(v)
    BY <1>0, <1>2, <1>4, <1>5, SameWorkInv
  <1>7. SameWork(s, d) /\ d.registered = s.registered /\ d.void = s.void
    BY <1>0 DEF SameWork, TimelineState
  <1>8. IInv(d)
    BY <1>0, <1>7, SameWorkInv
  <1> QED BY <1>2, <1>3, <1>5, <1>6, <1>7, <1>8 DEF t

\* on_alarm_handle_collected
LEMMA CollectedInv ==
    ASSUME NEW s, IInv(s), NEW a \in Alarms PROVE IInv(Collected(s, a))
  <1> DEFINE v == [Unregister(s, a) EXCEPT !.void = @ \cup {a}]
  <1>1. IInv(v)
    BY UnregisterInv
  <1>2. a \in Element
    BY DEF Alarms
  <1> HIDE DEF v
  <1>3. IInv(HardStop(v, a))
    BY <1>1, <1>2, HardStopInv
  <1> QED BY <1>3 DEF Collected, v

\* AlarmHandle.cancel
LEMMA CancelInv ==
    ASSUME NEW s, IInv(s), NEW a \in Alarms, s.phase \in {"idle", "callback"}
    PROVE  IInv(Cancel(s, a))
  <1> DEFINE v == [Unregister(s, a) EXCEPT !.void = @ \cup {a}]
  <1>0. /\ a \in Element /\ a \in Calling /\ a # NONE
    BY TimelineAssumption DEF Alarms, Calling
  <1>1. IInv(v) /\ SameWork(s, v)
    BY UnregisterInv
  <1>2. Cancel(s, a) =
          IF s.active # a THEN HardStop(v, a)
          ELSE IF Live(s, a) THEN [v EXCEPT !.handle[a] = "cleared", !.scheduled[a] = FALSE]
          ELSE Raise(v)
    BY DEF Cancel
  <1> HIDE DEF v
  <1>3. CASE s.active # a
    BY <1>0, <1>1, <1>2, <1>3, HardStopInv
  <1>4. CASE s.active = a /\ Live(s, a)
    <2> DEFINE t == [v EXCEPT !.handle[a] = "cleared", !.scheduled[a] = FALSE]
    <2>0. /\ v \in TimelineState /\ v.active = a /\ v.phase = "callback"
          /\ Sound(v) /\ Waiting(v, NONE) /\ AtWork(v)
      BY <1>0, <1>1, <1>4 DEF IInv, SameWork, AtWork
    <2>1. t = [v EXCEPT !.handle = [v.handle EXCEPT ![a] = "cleared"],
                        !.scheduled = [v.scheduled EXCEPT ![a] = FALSE]]
      OBVIOUS
    <2> HIDE DEF t
    <2>2. t \in TimelineState
      <3> DEFINE h == [v.handle EXCEPT ![a] = "cleared"]
                 b == [v.scheduled EXCEPT ![a] = FALSE]
      <3>1. h \in [Element -> {"none", "live", "cleared"}]
        BY <2>0, <1>0 DEF TimelineState
      <3>2. b \in [Element -> BOOLEAN]
        BY <2>0, <1>0 DEF TimelineState
      <3>3. t = [v EXCEPT !.handle = h, !.scheduled = b]
        BY <2>1
      <3> HIDE DEF h, b
      <3> QED BY <2>0, <3>1, <3>2, <3>3 DEF TimelineState
    <2>3. /\ t.handle = [v.handle EXCEPT ![a] = "cleared"]
          /\ t.scheduled = [v.scheduled EXCEPT ![a] = FALSE]
          /\ t.when = v.when /\ t.parent = v.parent /\ t.children = v.children
          /\ t.state = v.state /\ t.entered = v.entered /\ t.finals = v.finals
          /\ t.active = v.active /\ t.phase = v.phase
          /\ t.registered = v.registered /\ t.void = v.void
      BY <2>0, <2>1 DEF TimelineState
    <2>4. \A f \in Element : Live(t, f) <=> Live(v, f) /\ f # a
      BY <2>0, <2>3, <1>0 DEF TimelineState, Live
    <2>5. ~t.scheduled[a] /\ v.when[a] = NONE
      BY <2>0, <2>3, <1>0 DEF TimelineState, AtWork
    <2>6. v.children[a] = {} /\ \A q \in Element : a \notin v.children[q]
      <3>1. v.children[a] = {} /\ a \in Roots
        BY <1>0, <2>0, CallingIsLeaf
      <3> QED BY <3>1, <2>0, ChildIsLinked
    <2>7. LinksAgree(t)
      <3>1. \A q \in Element : \A f \in t.children[q] :
               Live(t, q) /\ Live(t, f) /\ t.parent[f] = q
        <4> SUFFICES ASSUME NEW q \in Element, NEW f \in v.children[q]
                     PROVE  Live(t, q) /\ Live(t, f) /\ v.parent[f] = q
          BY <2>3
        <4>1. f \in Element /\ Live(v, f) /\ Live(v, q) /\ v.parent[f] = q
          BY <2>0, ChildIsLinked
        <4>2. f # a /\ q # a
          BY <2>6
        <4> QED BY <4>1, <4>2, <2>4
      <3>2. \A f \in Element : Live(t, f) => f \in Roots \/ f \in t.children[Owner[f]]
        BY <2>0, <2>3, <2>4 DEF Sound, LinksAgree
      <3> QED BY <2>0, <2>3, <3>1, <3>2 DEF Sound, LinksAgree
    <2>8. HeapWaits(t)
      BY <2>0, <2>3, <2>4, <2>5 DEF Sound, HeapWaits
    <2>9. CallsOnce(t)
      BY <2>0, <2>3, <2>4, <1>0 DEF Sound, CallsOnce, Alarms
    <2>10. Sound(t)
      BY <2>0, <2>2, <2>3, <2>7, <2>8, <2>9 DEF Sound
    <2>11. Waiting(t, NONE)
      BY <2>0, <2>3, <2>4 DEF Waiting
    <2>12. AtWork(t)
      BY <2>0, <2>3, <2>5, <1>0 DEF AtWork
    <2> QED BY <1>2, <1>4, <2>10, <2>11, <2>12 DEF IInv, t
  <1>5. CASE s.active = a /\ ~Live(s, a)
    <2>1. v.active = a /\ Sound(v) /\ Waiting(v, NONE)
      BY <1>1, <1>5 DEF IInv, SameWork
    <2>2. IInv(Raise(v))
      BY <1>0, <2>1, RaiseInv
    <2> QED BY <1>2, <1>5, <2>2
  <1> QED BY <1>3, <1>4, <1>5

\* AlarmElement._run and RepeatingAlarmElement._run after the callback: an alarm that
\* repeats is in the heap again.
LEMMA AlarmCalledDoes ==
    ASSUME NEW s, IInv(s), NEW a \in Alarms, s.active = a, s.phase = "callback"
    PROVE  LET t == AlarmCalled(s, a) IN
           /\ Sound(t) /\ Waiting(t, NONE) /\ t.active = a
           /\ t.scheduled[a] => t.when[a] # NONE
           /\ ~t.scheduled[a] => t.children[a] = {} /\ t.when[a] = NONE
  <1> DEFINE freed == IF a \in s.held THEN s ELSE Collected(s, a)
             t == AlarmCalled(s, a)
             v == [Unregister(s, a) EXCEPT !.void = @ \cup {a}]
  <1>0. /\ a \in Element /\ a \in Calling /\ a # NONE
        /\ Kind[a] # "finally" /\ a \in Roots
    BY TimelineAssumption DEF Alarms, Calling
  <1>1. IInv(freed)
    BY CollectedInv
  <1>2. freed.active = a /\ freed.phase = "callback"
    <2>1. IInv(v) /\ SameWork(s, v)
      BY UnregisterInv
    <2>2. Collected(s, a) = IF a \in s.registered THEN HardStop(v, a) ELSE s
      BY DEF Collected
    <2> HIDE DEF v
    <2>3. v \in TimelineState /\ Sound(v) /\ v.active = a /\ v.phase = "callback"
      BY <2>1 DEF IInv, Sound, SameWork
    <2>4. HardStop(v, a).active = a /\ HardStop(v, a).phase = "callback"
      <3> DEFINE u == HardStop(v, a)
      <3>1. u = v \/ u = [v EXCEPT !.pending = TRUE] \/ Stopped(v, u, Tree(v, a))
        BY <1>0, <2>3, HardStopDoes
      <3> HIDE DEF u
      <3>2. u = [v EXCEPT !.pending = TRUE] => u.active = a /\ u.phase = "callback"
        BY <2>3 DEF TimelineState
      <3>3. u.active = a /\ u.phase = "callback"
        BY <2>3, <3>1, <3>2 DEF Stopped
      <3> QED BY <3>3 DEF u
    <2> QED BY <2>2, <2>4
  <1>3. t = IF Kind[a] = "alarm" THEN Unregister(freed, a)
            ELSE IF Live(freed, a) THEN Schedule(freed, a, Delay[a]) ELSE freed
    BY DEF AlarmCalled
  <1> HIDE DEF freed, t
  <1>4. ASSUME NEW u, IInv(u), u.active = a, u.phase = "callback"
        PROVE  /\ Sound(u) /\ Waiting(u, NONE) /\ ~u.scheduled[a]
               /\ u.children[a] = {} /\ u.when[a] = NONE
    <2>1. Sound(u) /\ Waiting(u, NONE) /\ ~u.scheduled[a] /\ u.when[a] = NONE
      BY <1>4, <1>0 DEF IInv, AtWork
    <2> QED BY <2>1, <1>0, CallingIsLeaf
  <1>5. CASE Kind[a] = "alarm"
    <2>1. IInv(t) /\ t.active = a /\ t.phase = "callback"
      BY <1>1, <1>2, <1>3, <1>5, UnregisterInv DEF SameWork
    <2> QED BY <2>1, <1>4 DEF t
  <1>6. CASE Kind[a] # "alarm" /\ ~Live(freed, a)
    <2>1. IInv(t) /\ t.active = a /\ t.phase = "callback"
      BY <1>1, <1>2, <1>3, <1>6
    <2> QED BY <2>1, <1>4 DEF t
  <1>7. CASE Kind[a] # "alarm" /\ Live(freed, a)
    <2>1. t = Schedule(freed, a, Delay[a])
      BY <1>3, <1>7
    <2>2. Delay[a] \in 0 .. MaxDelay
      BY <1>0, TimelineAssumption
    <2>3. /\ Sound(freed) /\ Waiting(freed, NONE) /\ freed.children[a] = {}
      BY <1>1, <1>2, <1>4
    <2>4. /\ Sound(t) /\ t.when[a] # NONE /\ t.scheduled[a]
          /\ \A f \in Element \ {a} : t.when[f] = freed.when[f] /\ (Live(t, f) <=> Live(freed, f))
          /\ t.children = freed.children /\ t.active = freed.active
      BY <1>0, <1>7, <2>1, <2>2, <2>3, ScheduleDoes
    <2>5. Waiting(t, NONE)
      BY <2>3, <2>4 DEF Waiting
    <2> QED BY <1>2, <2>4, <2>5 DEF t
  <1> QED BY <1>5, <1>6, <1>7

-----------------------------------------------------------------------------
(* What code does to the timeline                                          *)

\* An element without a handle is put into the heap while simulate is elsewhere.
LEMMA NewInHeap ==
    ASSUME NEW s, IInv(s), s.phase \in {"idle", "callback"},
           NEW e \in Roots, ~Live(s, e), s.active # e, NEW d \in 0 .. MaxDelay
    PROVE  IInv(Schedule(s, e, d))
  <1> DEFINE t == Schedule(s, e, d)
  <1>0. Sound(s) /\ Waiting(s, NONE) /\ AtWork(s) /\ e \in Element /\ s \in TimelineState
    BY DEF IInv, Sound, Roots
  <1>1. s.children[e] = {}
    BY <1>0, ChildIsLinked
  <1>2. Kind[e] = "finally" => s.state[e] # "finally"
    BY <1>0 DEF Sound, CallsOnce
  <1>3. /\ Sound(t)
        /\ t.when[e] # NONE
        /\ \A f \in Element \ {e} : /\ t.when[f] = s.when[f]
                                    /\ t.scheduled[f] = s.scheduled[f]
                                    /\ Live(t, f) <=> Live(s, f)
        /\ t.children = s.children /\ t.state = s.state
        /\ t.active = s.active /\ t.phase = s.phase
    BY <1>0, <1>1, <1>2, ScheduleDoes
  <1> HIDE DEF t
  <1>4. Waiting(t, NONE)
    BY <1>0, <1>3 DEF Waiting
  <1>5. s.active # NONE => s.active \in Element \ {e}
    BY <1>0 DEF TimelineState
  <1>6. AtWork(t)
    BY <1>0, <1>3, <1>5 DEF AtWork
  <1> QED BY <1>3, <1>4, <1>6 DEF IInv, t

LEMMA AddElementInv ==
    ASSUME IInv(tl), NEW e \in Element, NEW when \in 0 .. MaxDelay, AddElement(e, when)
    PROVE  IInv(tl')
  <1> DEFINE t == Schedule(tl, e, when)
  <1>1. /\ tl.phase \in {"idle", "callback"} /\ e \in Roots /\ e \notin Alarms
        /\ ~Live(tl, e) /\ tl.runs[e] < MaxRuns
        /\ tl' = [t EXCEPT !.runs[e] = @ + 1]
    BY DEF AddElement, MayAct
  <1>2. tl.active # e
    BY <1>1, TimelineAssumption DEF IInv, AtWork
  <1>3. IInv(t)
    BY <1>1, <1>2, NewInHeap
  <1>4. t.runs = tl.runs
    BY DEF Schedule, IInv, Sound, TimelineState
  <1> HIDE DEF t
  <1>5. t \in TimelineState /\ t.registered \cap t.void = {}
    BY <1>3 DEF IInv, Sound
  <1> DEFINE r == [t.runs EXCEPT ![e] = t.runs[e] + 1]
  <1>6. r \in [Element -> 0 .. MaxRuns]
    BY <1>1, <1>4, <1>5, TimelineAssumption, SMTT(30) DEF TimelineState
  <1>7. tl' = [t EXCEPT !.runs = r]
    BY <1>1
  <1> HIDE DEF r
  <1>8. SameWork(t, tl') /\ tl'.registered = t.registered /\ tl'.void = t.void
    BY <1>5, <1>6, <1>7 DEF SameWork, TimelineState
  <1> QED BY <1>3, <1>5, <1>8, SameWorkInv

LEMMA AddAlarmInv ==
    ASSUME IInv(tl), NEW a \in Alarms, NEW when \in 0 .. MaxDelay, AddAlarm(a, when)
    PROVE  IInv(tl')
  <1> DEFINE t == Schedule(tl, a, when)
  <1>1. /\ tl.phase \in {"idle", "callback"}
        /\ ~Live(tl, a) /\ tl.runs[a] < MaxRuns /\ tl.active # a
        /\ tl' = [t EXCEPT !.runs[a] = @ + 1, !.registered = @ \cup {a},
                           !.held = @ \cup {a}, !.void = @ \ {a}]
    BY DEF AddAlarm, MayAct
  <1>2. a \in Roots /\ a \in Element
    BY TimelineAssumption DEF Alarms
  <1>3. IInv(t)
    BY <1>1, <1>2, NewInHeap
  <1>4. t.runs = tl.runs
    BY DEF Schedule, IInv, Sound, TimelineState
  <1> HIDE DEF t
  <1>5. t \in TimelineState /\ t.registered \cap t.void = {}
    BY <1>3 DEF IInv, Sound
  <1> DEFINE r == [t.runs EXCEPT ![a] = t.runs[a] + 1]
  <1>6. r \in [Element -> 0 .. MaxRuns]
    <2>1. MaxRuns \in Nat /\ t.runs \in [Element -> 0 .. MaxRuns]
      BY <1>5, TimelineAssumption DEF TimelineState
    <2>2. t.runs[a] + 1 \in 0 .. MaxRuns
      BY <1>1, <1>2, <1>4, <2>1
    <2> QED BY <2>1, <2>2
  <1>7. tl' = [t EXCEPT !.runs = r, !.registered = t.registered \cup {a},
                        !.held = t.held \cup {a}, !.void = t.void \ {a}]
    BY <1>1
  <1> HIDE DEF r
  <1>8. /\ SameWork(t, tl')
        /\ tl'.registered = t.registered \cup {a} /\ tl'.void = t.void \ {a}
    <2>1. /\ t.registered \cup {a} \in SUBSET Alarms
          /\ t.held \cup {a} \in SUBSET Alarms /\ t.void \ {a} \in SUBSET Alarms
      BY <1>1, <1>5 DEF TimelineState
    <2>2. tl' \in TimelineState
      BY <1>5, <1>6, <1>7, <2>1 DEF TimelineState
    <2>3. tl'.registered = t.registered \cup {a} /\ tl'.void = t.void \ {a}
      BY <1>5, <1>7 DEF TimelineState
    <2>4. \A x, y, z, w : LET u == [t EXCEPT !.runs = x, !.registered = y, !.held = z,
                                              !.void = w]
                           IN  SameWork(t, u) <=> u \in TimelineState
      BY <1>5 DEF SameWork, TimelineState
    <2> QED BY <1>7, <2>2, <2>3, <2>4
  <1>9. tl'.registered \cap tl'.void = {}
    BY <1>5, <1>8
  <1> QED BY <1>3, <1>8, <1>9, SameWorkInv

\* soft_stop wakes what sleeps, and that is in the heap already.
LEMMA SoftStopInv ==
    ASSUME NEW s, IInv(s), s.phase \in {"idle", "callback"}, NEW e \in Element
    PROVE  IInv(SoftStop(s, e))
  <1> DEFINE stopped == {f \in Softened(s, e) : Kind[f] \in {"sleep", "softsleep", "repeat"}}
             so == [f \in Element |-> s.softStopped[f] \/ f \in stopped]
             wh == [f \in Element |->
                      IF f \in stopped /\ Kind[f] = "softsleep" /\ ~s.softStopped[f]
                      THEN 0 ELSE s.when[f]]
             t == SoftStop(s, e)
  <1>0. s \in TimelineState /\ Sound(s) /\ Waiting(s, NONE) /\ AtWork(s)
    BY DEF IInv, Sound
  <1>1. t = [s EXCEPT !.softStopped = so, !.when = wh]
    BY DEF SoftStop
  <1>2. \A f \in stopped : Live(s, f) /\ f \in Element
    BY DEF Softened
  <1>3. /\ so \in [Element -> BOOLEAN]
        /\ wh \in [Element -> 0 .. MaxDelay \cup {NONE}]
    <2>1. 0 \in 0 .. MaxDelay
      BY TimelineAssumption
    <2> QED BY <1>0, <2>1 DEF TimelineState
  <1>4. \A f \in Element : wh[f] # NONE <=> s.when[f] # NONE
    <2> SUFFICES ASSUME NEW f \in Element PROVE wh[f] # NONE <=> s.when[f] # NONE
      OBVIOUS
    <2>1. CASE f \in stopped /\ Kind[f] = "softsleep" /\ ~s.softStopped[f]
      <3>1. Kind[f] \notin Parents /\ f \notin Calling /\ f # NONE
        BY <2>1, TimelineAssumption DEF Parents, Calling, Alarms
      <3>2. s.children[f] = {}
        BY <3>1, <1>0, PartsOfKinds, ChildIsLinked
      <3>3. s.active # f
        BY <1>0, <3>1 DEF AtWork
      <3>4. s.when[f] # NONE
        BY <2>1, <3>1, <3>2, <3>3, <1>0, <1>2 DEF Waiting
      <3>5. wh[f] = 0
        BY <2>1
      <3> QED BY <3>4, <3>5, TimelineAssumption
    <2>2. CASE ~(f \in stopped /\ Kind[f] = "softsleep" /\ ~s.softStopped[f])
      BY <2>2
    <2> QED BY <2>1, <2>2
  <1> HIDE DEF t, so, wh, stopped
  <1>5. /\ t \in TimelineState /\ t.when = wh
        /\ t.handle = s.handle /\ t.parent = s.parent
        /\ t.children = s.children /\ t.state = s.state /\ t.scheduled = s.scheduled
        /\ t.entered = s.entered /\ t.finals = s.finals
        /\ t.active = s.active /\ t.phase = s.phase
        /\ t.registered = s.registered /\ t.void = s.void
    BY <1>0, <1>1, <1>3 DEF TimelineState
  <1>6. HeapWaits(t) /\ CallsOnce(t) /\ LinksAgree(t)
    BY <1>0, <1>4, <1>5 DEF Sound, HeapWaits, CallsOnce, LinksAgree, Live
  <1>7. Waiting(t, NONE)
    BY <1>0, <1>4, <1>5 DEF Waiting, Live
  <1>8. s.active # NONE => s.active \in Element
    BY <1>0 DEF TimelineState
  <1>9. AtWork(t)
    BY <1>0, <1>4, <1>5, <1>8 DEF AtWork, Live
  <1> QED BY <1>0, <1>5, <1>6, <1>7, <1>9 DEF IInv, Sound, t

LEMMA CodeInv == ASSUME IInv(tl), Code PROVE IInv(tl')
  <1>0. /\ Alarms \subseteq Element
        /\ \A a \in Alarms : a # NONE
    BY TimelineAssumption DEF Alarms
  <1>1. ASSUME NEW e \in Element, TriggerHardStop(e) PROVE IInv(tl')
    BY <1>1, HardStopInv DEF TriggerHardStop
  <1>2. ASSUME NEW e \in Element, TriggerSoftStop(e) PROVE IInv(tl')
    BY <1>2, SoftStopInv DEF TriggerSoftStop, MayAct
  <1>3. ASSUME NEW e \in Element, NEW when \in 0 .. MaxDelay, AddElement(e, when)
        PROVE  IInv(tl')
    BY <1>3, AddElementInv
  <1>4. ASSUME NEW a \in Alarms, CancelAlarm(a) PROVE IInv(tl')
    BY <1>4, CancelInv DEF CancelAlarm, MayAct
  <1>5. ASSUME NEW a \in Alarms, DropHandle(a) PROVE IInv(tl')
    <2> DEFINE d == [tl EXCEPT !.held = @ \ {a}]
    <2>1. IInv(d)
      BY UnregisterInv
    <2>2. tl' = IF tl.active = a THEN d ELSE Collected(d, a)
      BY <1>5 DEF DropHandle, Drop
    <2> HIDE DEF d
    <2> QED BY <2>1, <2>2, CollectedInv
  <1>6. ASSUME NEW a \in Alarms, LoseOwner(a) PROVE IInv(tl')
    BY <1>6, CancelInv DEF LoseOwner, OwnerDies, MayAct
  <1>7. ASSUME NEW a \in Alarms, NEW when \in 0 .. MaxDelay, AddAlarm(a, when)
        PROVE  IInv(tl')
    BY <1>7, AddAlarmInv
  <1> QED BY <1>1, <1>2, <1>3, <1>4, <1>5, <1>6, <1>7 DEF Code

-----------------------------------------------------------------------------
(* simulate                                                                *)

\* t is s with another phase, where simulate is at nothing.
LEMMA AtNothingInv ==
    ASSUME NEW s, IInv(s), s.phase \in {"idle", "pick"}, NEW t \in TimelineState,
           t.handle = s.handle, t.when = s.when, t.parent = s.parent,
           t.children = s.children, t.state = s.state, t.entered = s.entered,
           t.finals = s.finals, t.registered = s.registered, t.void = s.void,
           t.active = s.active, t.phase \in {"idle", "pick"}
    PROVE  IInv(t)
  <1>1. Sound(t)
    BY SameTreesSound DEF IInv
  <1>2. s.active = NONE
    BY DEF IInv, AtWork
  <1>3. Waiting(t, NONE) /\ AtWork(t)
    BY <1>2 DEF IInv, Waiting, AtWork, Live
  <1> QED BY <1>1, <1>3 DEF IInv

LEMMA SimulateInv == ASSUME IInv(tl), Simulate PROVE IInv(tl')
  <1>0. tl \in TimelineState /\ MaxAdvance \in Nat
    BY TimelineAssumption DEF IInv, Sound
  <1>1. tl.due \in 0 .. MaxAdvance
    BY <1>0 DEF TimelineState
  <1>2. PICK advance \in (IF tl.due = 0 THEN 1 ELSE 0) .. MaxAdvance - tl.due :
           tl' = [tl EXCEPT !.phase = "pick", !.due = tl.due + advance, !.worked = FALSE]
    BY DEF Simulate
  <1>3. tl.due + advance \in 0 .. MaxAdvance
    BY <1>0, <1>1
  <1>4. tl' \in TimelineState
    BY <1>0, <1>2, <1>3 DEF TimelineState
  <1>5. /\ tl'.handle = tl.handle /\ tl'.when = tl.when /\ tl'.parent = tl.parent
        /\ tl'.children = tl.children /\ tl'.state = tl.state /\ tl'.entered = tl.entered
        /\ tl'.finals = tl.finals /\ tl'.registered = tl.registered /\ tl'.void = tl.void
        /\ tl'.active = tl.active /\ tl'.phase = "pick"
    BY <1>0, <1>2 DEF TimelineState
  <1> QED BY <1>4, <1>5, AtNothingInv DEF Simulate

LEMMA ExitEarlyInv == ASSUME IInv(tl), ExitEarly PROVE IInv(tl')
  <1>0. tl \in TimelineState /\ tl' = [tl EXCEPT !.phase = "idle"]
    BY DEF IInv, Sound, ExitEarly
  <1>1. tl' \in TimelineState
    BY <1>0 DEF TimelineState
  <1>2. /\ tl'.handle = tl.handle /\ tl'.when = tl.when /\ tl'.parent = tl.parent
        /\ tl'.children = tl.children /\ tl'.state = tl.state /\ tl'.entered = tl.entered
        /\ tl'.finals = tl.finals /\ tl'.registered = tl.registered /\ tl'.void = tl.void
        /\ tl'.active = tl.active /\ tl'.phase = "idle"
    BY <1>0 DEF TimelineState
  <1> QED BY <1>1, <1>2, AtNothingInv DEF ExitEarly

\* Time passes up to the first that is due at most.
LEMMA AdvancedInv ==
    ASSUME NEW s, IInv(s), NEW ticks \in 0 .. s.due,
           \A e \in Element : s.when[e] # NONE => ticks <= s.when[e]
    PROVE  LET t == Advanced(s, ticks) IN
           /\ IInv(t) /\ t.phase = s.phase /\ t.active = s.active
           /\ t.handle = s.handle /\ t.children = s.children /\ t.state = s.state
           /\ \A e \in Element : t.when[e] # NONE <=> s.when[e] # NONE
  <1> DEFINE wh == [e \in Element |-> IF s.when[e] = NONE THEN NONE ELSE s.when[e] - ticks]
             t == Advanced(s, ticks)
  <1>0. /\ s \in TimelineState /\ Sound(s) /\ Waiting(s, NONE) /\ AtWork(s)
        /\ MaxAdvance \in Nat /\ MaxDelay \in Nat /\ NONE \notin Nat
    BY TimelineAssumption DEF IInv, Sound
  <1>1. s.due \in 0 .. MaxAdvance
    BY <1>0 DEF TimelineState
  <1>2. t = [s EXCEPT !.due = s.due - ticks, !.when = wh]
    BY DEF Advanced
  <1>3. \A e \in Element : s.when[e] # NONE => s.when[e] - ticks \in 0 .. MaxDelay
    <2> SUFFICES ASSUME NEW e \in Element, s.when[e] # NONE
                 PROVE  s.when[e] - ticks \in 0 .. MaxDelay
      OBVIOUS
    <2>1. s.when[e] \in 0 .. MaxDelay
      BY <1>0 DEF TimelineState
    <2> QED BY <1>0, <1>1, <2>1
  <1>4. wh \in [Element -> 0 .. MaxDelay \cup {NONE}]
    BY <1>3
  <1>5. \A e \in Element : wh[e] # NONE <=> s.when[e] # NONE
    <2> SUFFICES ASSUME NEW e \in Element PROVE wh[e] # NONE <=> s.when[e] # NONE
      OBVIOUS
    <2>1. CASE s.when[e] = NONE
      BY <2>1
    <2>2. CASE s.when[e] # NONE
      <3>1. s.when[e] - ticks \in Nat
        BY <2>2, <1>3, <1>0
      <3> QED BY <3>1, <2>2, <1>0
    <2> QED BY <2>1, <2>2
  <1>6. s.due - ticks \in 0 .. MaxAdvance
    BY <1>0, <1>1
  <1> HIDE DEF wh, t
  <1>7. /\ t \in TimelineState /\ t.when = wh
        /\ t.handle = s.handle /\ t.parent = s.parent
        /\ t.children = s.children /\ t.state = s.state /\ t.scheduled = s.scheduled
        /\ t.entered = s.entered /\ t.finals = s.finals
        /\ t.active = s.active /\ t.phase = s.phase
        /\ t.registered = s.registered /\ t.void = s.void
    BY <1>0, <1>2, <1>4, <1>6 DEF TimelineState
  <1>8. HeapWaits(t) /\ CallsOnce(t) /\ LinksAgree(t)
    BY <1>0, <1>5, <1>7 DEF Sound, HeapWaits, CallsOnce, LinksAgree, Live
  <1>9. Waiting(t, NONE)
    BY <1>0, <1>5, <1>7 DEF Waiting, Live
  <1>10. s.active # NONE => s.active \in Element
    BY <1>0 DEF TimelineState
  <1>11. AtWork(t)
    BY <1>0, <1>5, <1>7, <1>10 DEF AtWork, Live
  <1>12. IInv(t)
    BY <1>0, <1>7, <1>8, <1>9, <1>11 DEF IInv, Sound
  <1> QED BY <1>5, <1>7, <1>12 DEF t

LEMMA FinishInv == ASSUME IInv(tl), Finish PROVE IInv(tl')
  <1> DEFINE a == Advanced(tl, tl.due)
  <1>0. /\ tl \in TimelineState /\ tl.due \in 0 .. MaxAdvance
        /\ MaxAdvance \in Nat /\ MaxDelay \in Nat
    BY TimelineAssumption DEF IInv, Sound, TimelineState
  <1>1. \A e \in Element : tl.when[e] # NONE => tl.due <= tl.when[e]
    <2> SUFFICES ASSUME NEW e \in Element, tl.when[e] # NONE PROVE tl.due <= tl.when[e]
      OBVIOUS
    <2>1. tl.when[e] \in 0 .. MaxDelay
      BY <1>0 DEF TimelineState
    <2>2. ~(tl.when[e] <= tl.due)
      BY DEF Finish, IsDue
    <2> QED BY <1>0, <2>1, <2>2
  <1>2. tl.due \in 0 .. tl.due
    BY <1>0
  <1>3. IInv(a) /\ a.phase = "pick"
    BY <1>1, <1>2, AdvancedInv DEF Finish
  <1>4. tl' = [a EXCEPT !.phase = "idle"]
    BY DEF Finish
  <1> HIDE DEF a
  <1>5. a \in TimelineState
    BY <1>3 DEF IInv, Sound
  <1>6. tl' \in TimelineState
    BY <1>4, <1>5 DEF TimelineState
  <1>7. /\ tl'.handle = a.handle /\ tl'.when = a.when /\ tl'.parent = a.parent
        /\ tl'.children = a.children /\ tl'.state = a.state /\ tl'.entered = a.entered
        /\ tl'.finals = a.finals /\ tl'.registered = a.registered /\ tl'.void = a.void
        /\ tl'.active = a.active /\ tl'.phase = "idle"
    BY <1>4, <1>5 DEF TimelineState
  <1> QED BY <1>3, <1>6, <1>7, AtNothingInv

\* The element that is picked is at its beginning.
LEMMA PickInv == ASSUME IInv(tl), NEW e \in Element, Pick(e) PROVE IInv(tl')
  <1> DEFINE a == Advanced(tl, tl.when[e])
             t == Activated(a, e)
  <1>0. /\ tl \in TimelineState /\ tl.due \in 0 .. MaxAdvance
        /\ MaxAdvance \in Nat /\ MaxDelay \in Nat
    BY TimelineAssumption DEF IInv, Sound, TimelineState
  <1>1. tl.phase = "pick" /\ tl.when[e] # NONE /\ tl.when[e] <= tl.due
    BY DEF Pick, IsDue
  <1>2. tl.when[e] \in 0 .. MaxDelay
    BY <1>0, <1>1 DEF TimelineState
  <1>3. tl.when[e] \in 0 .. tl.due
    BY <1>0, <1>1, <1>2
  <1>4. \A f \in Element : tl.when[f] # NONE => tl.when[e] <= tl.when[f]
    <2> SUFFICES ASSUME NEW f \in Element, tl.when[f] # NONE
                 PROVE  tl.when[e] <= tl.when[f]
      OBVIOUS
    <2>1. tl.when[f] \in 0 .. MaxDelay
      BY <1>0 DEF TimelineState
    <2>2. CASE tl.when[f] <= tl.due
      BY <2>2 DEF Pick, IsDue
    <2>3. CASE ~(tl.when[f] <= tl.due)
      BY <2>1, <2>3, <1>0, <1>1, <1>2
    <2> QED BY <2>2, <2>3
  <1>5. /\ Live(tl, e) /\ tl.children[e] = {}
        /\ Kind[e] = "finally" => tl.state[e] # "finally"
        /\ tl.active = NONE
    BY <1>1 DEF IInv, Sound, HeapWaits, CallsOnce, AtWork
  <1>6. /\ IInv(a) /\ a.active = NONE
        /\ a.handle = tl.handle /\ a.children = tl.children /\ a.state = tl.state
    BY <1>3, <1>4, <1>5, AdvancedInv
  <1>7. tl' = [t EXCEPT !.phase = "run", !.worked = TRUE]
    BY DEF Pick
  <1> HIDE DEF a
  <1>8. /\ Sound(t) /\ Waiting(t, NONE) /\ t.active = e /\ t.when[e] = NONE
        /\ t.handle = a.handle /\ t.children = a.children /\ t.state = a.state
    BY <1>5, <1>6, ActivatedDoes DEF IInv, Live
  <1> HIDE DEF t
  <1>9. t \in TimelineState
    BY <1>8 DEF Sound
  <1>10. tl' \in TimelineState
    BY <1>7, <1>9 DEF TimelineState
  <1>11. /\ tl'.handle = t.handle /\ tl'.when = t.when /\ tl'.parent = t.parent
         /\ tl'.children = t.children /\ tl'.state = t.state /\ tl'.entered = t.entered
         /\ tl'.finals = t.finals /\ tl'.registered = t.registered /\ tl'.void = t.void
         /\ tl'.active = e /\ tl'.phase = "run"
    BY <1>7, <1>8, <1>9 DEF TimelineState
  <1>12. Sound(tl')
    BY <1>8, <1>10, <1>11, SameTreesSound
  <1>13. Waiting(tl', NONE)
    BY <1>8, <1>11 DEF Waiting, Live
  <1>14. AtWork(tl')
    BY <1>5, <1>6, <1>8, <1>11, TimelineAssumption DEF AtWork, Live
  <1> QED BY <1>12, <1>13, <1>14 DEF IInv

LEMMA RunInv == ASSUME IInv(tl), Run PROVE IInv(tl')
  <1> DEFINE e == tl.active
             t == Activated(tl, e)
  <1>1. /\ Sound(tl) /\ Waiting(tl, NONE) /\ e \in Element
        /\ Live(tl, e) /\ tl.children[e] = {}
        /\ Kind[e] = "finally" => tl.state[e] # "finally"
    BY DEF IInv, Sound, AtWork, Run, TimelineState
  <1>2. /\ Sound(t) /\ Waiting(t, NONE) /\ t.active = e /\ t.when[e] = NONE
        /\ ~t.scheduled[e] /\ t.handle = tl.handle /\ t.children = tl.children
        /\ t.state = tl.state
    BY <1>1, ActivatedDoes
  <1>3. tl' = RunElement(t, e)
    BY DEF Run
  <1> HIDE DEF e, t
  <1>4. Called(t, e)
    BY <1>1, <1>2 DEF Called, Live
  <1> QED BY <1>1, <1>2, <1>3, <1>4, RunElementInv

LEMMA ResumeInv == ASSUME IInv(tl), Resume PROVE IInv(tl')
  <1> DEFINE e == tl.active
             t == Activated(tl, e)
  <1>1. /\ Sound(tl) /\ Waiting(tl, NONE) /\ e \in Element
        /\ Live(tl, e) /\ Kind[e] \in Parents
        /\ Kind[e] # "all" => tl.children[e] = {}
    BY DEF IInv, Sound, AtWork, Resume, TimelineState
  <1>2. /\ Sound(t) /\ Waiting(t, NONE) /\ t.active = e /\ t.when[e] = NONE
        /\ ~t.scheduled[e] /\ t.handle = tl.handle /\ t.children = tl.children
    BY <1>1, ActivatedDoes
  <1>3. tl' = ResumeElement(t, e)
    BY DEF Resume
  <1> HIDE DEF e, t
  <1>4. Called(t, e)
    BY <1>1, <1>2 DEF Called, Live
  <1> QED BY <1>1, <1>2, <1>3, <1>4, ResumeElementInv

LEMMA CallbackReturnsInv == ASSUME IInv(tl), CallbackReturns PROVE IInv(tl')
  <1> DEFINE e == tl.active
             called == IF e \in Alarms THEN AlarmCalled(tl, e) ELSE tl
  <1>1. PICK result \in BOOLEAN :
          tl' = IF called.pending THEN Raise(called) ELSE Return(called, result)
    BY DEF CallbackReturns
  <1>2. /\ Sound(tl) /\ Waiting(tl, NONE) /\ tl.phase = "callback"
        /\ e \in Calling /\ ~tl.scheduled[e] /\ (Live(tl, e) \/ e \in Alarms)
        /\ e # NONE /\ tl.when[e] = NONE
    BY DEF IInv, AtWork, CallbackReturns
  <1>3. e \in Element /\ tl.children[e] = {} /\ Kind[e] # "finally"
    BY <1>2, CallingIsLeaf DEF Parents
  <1>4. /\ Sound(called) /\ Waiting(called, NONE) /\ called.active = e
        /\ called.scheduled[e] => called.when[e] # NONE
        /\ ~called.scheduled[e] => called.children[e] = {} /\ called.when[e] = NONE
        /\ Live(called, e) \/ e \in Alarms
    <2>1. CASE e \in Alarms
      BY <1>2, <2>1, AlarmCalledDoes
    <2>2. CASE e \notin Alarms
      BY <1>2, <1>3, <2>2
    <2> QED BY <2>1, <2>2
  <1> HIDE DEF called, e
  <1>5. IInv(Raise(called))
    BY <1>2, <1>4, RaiseInv
  <1>6. IInv(Return(called, result))
    BY <1>3, <1>4, ReturnInv
  <1> QED BY <1>1, <1>5, <1>6

LEMMA CallbackRaisesInv == ASSUME IInv(tl), CallbackRaises PROVE IInv(tl')
  <1>1. /\ Sound(tl) /\ Waiting(tl, NONE) /\ tl.active \in Calling
        /\ Live(tl, tl.active) \/ tl.active \in Alarms
    BY DEF IInv, AtWork, CallbackRaises
  <1>2. IInv(Raise(tl))
    BY <1>1, RaiseInv
  <1>3. tl.active \in Alarms => IInv(Collected(Raise(tl), tl.active))
    BY <1>2, CollectedInv
  <1> QED BY <1>2, <1>3 DEF CallbackRaises

LEMMA InitInv == ASSUME Init PROVE IInv(tl)
  <1>0. /\ MaxDelay \in Nat /\ MaxRuns \in Nat /\ MaxAdvance \in Nat
        /\ NONE \notin Element
    BY TimelineAssumption
  <1>1. /\ tl.handle = Each("none") /\ tl.when = Each(NONE) /\ tl.parent = Each(NONE)
        /\ tl.children = Each({}) /\ tl.state = Each("init") /\ tl.phase = "idle"
        /\ tl.active = NONE /\ tl.registered = {} /\ tl.void = {}
        /\ tl.entered = Each(0) /\ tl.finals = Each(0)
    BY DEF Init
  <1>2. tl \in TimelineState
    <2>1. /\ Each("none") \in [Element -> {"none", "live", "cleared"}]
          /\ Each(NONE) \in [Element -> 0 .. MaxDelay \cup {NONE}]
          /\ Each(FALSE) \in [Element -> BOOLEAN] /\ Each(TRUE) \in [Element -> BOOLEAN]
          /\ Each(NONE) \in [Element -> Element \cup {NONE}]
          /\ Each({}) \in [Element -> SUBSET Element]
          /\ Each("init") \in [Element -> {"init", "work", "cleanup", "slept", "finally"}]
          /\ Each(0) \in [Element -> 0 .. MaxRuns] /\ Each(0) \in [Element -> Nat]
      BY <1>0 DEF Each
    <2>2. 0 \in 0 .. MaxAdvance
      BY <1>0
    <2> QED BY <2>1, <2>2 DEF Init, TimelineState
  <1>3. \A e \in Element : /\ tl.handle[e] = "none" /\ tl.when[e] = NONE
                           /\ tl.parent[e] = NONE /\ tl.children[e] = {}
                           /\ tl.state[e] = "init" /\ tl.entered[e] = 0 /\ tl.finals[e] = 0
    <2> SUFFICES ASSUME NEW e \in Element
                 PROVE  /\ tl.handle[e] = "none" /\ tl.when[e] = NONE
                        /\ tl.parent[e] = NONE /\ tl.children[e] = {}
                        /\ tl.state[e] = "init" /\ tl.entered[e] = 0 /\ tl.finals[e] = 0
      OBVIOUS
    <2>1. /\ Each("none")[e] = "none" /\ Each(NONE)[e] = NONE /\ Each({})[e] = {}
          /\ Each("init")[e] = "init" /\ Each(0)[e] = 0
      BY DEF Each
    <2> QED BY <1>1, <2>1
  <1>4. LinksAgree(tl) /\ HeapWaits(tl) /\ CallsOnce(tl)
    BY <1>3 DEF LinksAgree, HeapWaits, CallsOnce, Live
  <1>5. Waiting(tl, NONE) /\ AtWork(tl)
    BY <1>1, <1>3 DEF Waiting, AtWork, Live
  <1> QED BY <1>1, <1>2, <1>4, <1>5 DEF IInv, Sound

LEMMA NextInv == ASSUME IInv(tl), [Next]_tl PROVE IInv(tl')
  <1>1. CASE Code
    BY <1>1, CodeInv
  <1>2. CASE Simulate
    BY <1>2, SimulateInv
  <1>3. CASE Run
    BY <1>3, RunInv
  <1>4. CASE Resume
    BY <1>4, ResumeInv
  <1>5. CASE CallbackReturns
    BY <1>5, CallbackReturnsInv
  <1>6. CASE Finish
    BY <1>6, FinishInv
  <1>7. ASSUME NEW e \in Element, Pick(e) PROVE IInv(tl')
    BY <1>7, PickInv
  <1>8. CASE CallbackRaises
    BY <1>8, CallbackRaisesInv
  <1>9. CASE ExitEarly
    BY <1>9, ExitEarlyInv
  <1>10. CASE UNCHANGED tl
    BY <1>10
  <1> QED BY <1>1, <1>2, <1>3, <1>4, <1>5, <1>6, <1>7, <1>8, <1>9, <1>10 DEF Next, Loop

-----------------------------------------------------------------------------
(* Where a handler leaves simulate                                         *)

LEMMA HardStopPhase ==
    ASSUME NEW s \in TimelineState, NEW e \in Element PROVE HardStop(s, e).phase = s.phase
  <1>1. StopTree(s, e).phase = s.phase
    BY StopTreeDoes DEF Stopped
  <1>2. [s EXCEPT !.pending = TRUE].phase = s.phase
    BY DEF TimelineState
  <1> QED BY <1>1, <1>2 DEF HardStop

LEMMA RaisePhase ==
    ASSUME NEW s \in TimelineState, s.active \in Element PROVE Raise(s).phase = "pick"
  <1> DEFINE out == [s EXCEPT !.pending = FALSE, !.active = NONE, !.phase = "pick"]
  <1>1. out \in TimelineState /\ out.phase = "pick"
    BY DEF TimelineState
  <1>2. s.parent[s.active] \in Element \cup {NONE}
    BY DEF TimelineState
  <1>3. Raise(s) = IF s.parent[s.active] = NONE THEN out
                   ELSE HardStop(out, s.parent[s.active])
    BY DEF Raise
  <1> HIDE DEF out
  <1> QED BY <1>1, <1>2, <1>3, HardStopPhase

LEMMA ReturnPhase ==
    ASSUME NEW s, "phase" \in DOMAIN s, NEW result
    PROVE  Return(s, result).phase # "callback"
  BY DEF Return

LEMMA RunChildPhase ==
    ASSUME NEW s, "phase" \in DOMAIN s, NEW e, NEW child
    PROVE  RunChild(s, e, child).phase = "run"
  BY DEF RunChild, Adopted

\* Only RunCallback begins a call, of an alarm only when it is registered.
LEMMA RunElementPhase ==
    ASSUME NEW s, NEW e, Called(s, e), RunElement(s, e).phase = "callback"
    PROVE  e \notin Alarms \ s.registered
  <1>0. /\ e \in Element /\ s \in TimelineState /\ s.active = e /\ "phase" \in DOMAIN s
        /\ Kind[e] \in {"function", "sleep", "softsleep", "critical", "finally",
                        "mustrun", "repeat", "all", "alarm", "repeating"}
    BY TimelineAssumption DEF Called, Sound, TimelineState
  <1> SUFFICES ASSUME e \in Alarms \ s.registered PROVE FALSE
    OBVIOUS
  <1>1. e \in Calling /\ Kind[e] \in {"alarm", "repeating"}
    BY DEF Calling, Alarms
  <1>2. RunElement(s, e) = RunCallback(s, e)
    BY <1>1 DEF RunElement
  <1>3. RunCallback(s, e) = Raise(s)
    BY DEF RunCallback
  <1> QED BY <1>0, <1>2, <1>3, RaisePhase

LEMMA ResumeElementPhase ==
    ASSUME NEW s \in TimelineState, NEW e, Kind[e] \in Parents
    PROVE  ResumeElement(s, e).phase # "callback"
  <1>0. "phase" \in DOMAIN s
    BY DEF TimelineState
  <1>1. CASE Kind[e] = "critical"
    BY <1>0, <1>1, ReturnPhase, RunChildPhase DEF ResumeElement, ResumeCritical
  <1>2. CASE Kind[e] = "finally"
    BY <1>0, <1>2, ReturnPhase DEF ResumeElement, ResumeFinally
  <1>3. CASE Kind[e] = "mustrun"
    BY <1>0, <1>3, ReturnPhase DEF ResumeElement
  <1>4. CASE Kind[e] = "repeat"
    BY <1>0, <1>4, ReturnPhase, RunChildPhase DEF ResumeElement, ResumeRepeat
  <1>5. CASE Kind[e] = "all"
    BY <1>0, <1>5, ReturnPhase DEF ResumeElement, ResumeAll
  <1> QED BY <1>1, <1>2, <1>3, <1>4, <1>5 DEF Parents

\* What code does leaves simulate where it is, or, when an alarm that cancels itself
\* raises, leaves the call.
LEMMA CodePhase ==
    ASSUME IInv(tl), Code, tl.phase # "callback" PROVE tl'.phase # "callback"
  <1>0. /\ tl \in TimelineState /\ tl.phase = "idle" /\ tl.active = NONE
        /\ "phase" \in DOMAIN tl
    <2>1. tl.phase = "idle"
      BY DEF Code, TriggerHardStop, TriggerSoftStop, AddElement, CancelAlarm, DropHandle,
             LoseOwner, AddAlarm, MayAct
    <2> QED BY <2>1 DEF IInv, Sound, AtWork, TimelineState
  <1>a. \A a \in Alarms : a \in Element /\ a # NONE
    BY TimelineAssumption DEF Alarms
  <1>b. ASSUME NEW s, IInv(s), s.phase = "idle", NEW a \in Alarms
        PROVE  LET v == [Unregister(s, a) EXCEPT !.void = @ \cup {a}]
               IN  /\ v \in TimelineState /\ v.phase = "idle" /\ v.active = s.active
                   /\ HardStop(v, a).phase = "idle" /\ Collected(s, a).phase = "idle"
    <2> DEFINE v == [Unregister(s, a) EXCEPT !.void = @ \cup {a}]
    <2>1. SameWork(s, v)
      BY <1>b, UnregisterInv
    <2>2. Collected(s, a) = IF a \in s.registered THEN HardStop(v, a) ELSE s
      BY DEF Collected
    <2> HIDE DEF v
    <2>3. v \in TimelineState /\ v.phase = "idle" /\ v.active = s.active
      BY <1>b, <2>1 DEF SameWork
    <2> QED BY <1>a, <1>b, <2>2, <2>3, HardStopPhase DEF v
  <1>1. ASSUME NEW e \in Element, TriggerHardStop(e) PROVE tl'.phase = "idle"
    BY <1>0, <1>1, HardStopPhase DEF TriggerHardStop
  <1>2. ASSUME NEW e \in Element, TriggerSoftStop(e) PROVE tl'.phase = "idle"
    BY <1>0, <1>2 DEF TriggerSoftStop, SoftStop
  <1>3. ASSUME NEW e \in Element, NEW when \in 0 .. MaxDelay, AddElement(e, when)
        PROVE  tl'.phase = "idle"
    BY <1>0, <1>3 DEF AddElement, Schedule
  <1>4. ASSUME NEW a \in Alarms, Cancel(tl, a) = tl' PROVE tl'.phase = "idle"
    BY <1>0, <1>a, <1>b, <1>4 DEF Cancel
  <1>5. ASSUME NEW a \in Alarms, DropHandle(a) PROVE tl'.phase = "idle"
    <2> DEFINE d == [tl EXCEPT !.held = @ \ {a}]
    <2>1. IInv(d) /\ SameWork(tl, d)
      BY UnregisterInv
    <2>2. tl' = IF tl.active = a THEN d ELSE Collected(d, a)
      BY <1>5 DEF DropHandle, Drop
    <2> HIDE DEF d
    <2>3. d.phase = "idle"
      BY <1>0, <2>1 DEF SameWork
    <2> QED BY <1>b, <2>1, <2>2, <2>3
  <1>6. ASSUME NEW a \in Alarms, CancelAlarm(a) PROVE tl'.phase = "idle"
    BY <1>4, <1>6 DEF CancelAlarm
  <1>7. ASSUME NEW a \in Alarms, LoseOwner(a) PROVE tl'.phase = "idle"
    BY <1>0, <1>4, <1>7 DEF LoseOwner, OwnerDies
  <1>8. ASSUME NEW a \in Alarms, NEW when \in 0 .. MaxDelay, AddAlarm(a, when)
        PROVE  tl'.phase = "idle"
    BY <1>0, <1>8 DEF AddAlarm, Schedule
  <1> QED BY <1>1, <1>2, <1>3, <1>5, <1>6, <1>7, <1>8 DEF Code

-----------------------------------------------------------------------------
(* Theorems                                                                *)

THEOREM InvariantHolds == Spec => []IInv(tl)
  <1>1. Init => IInv(tl)
    BY InitInv
  <1>2. IInv(tl) /\ [Next]_tl => IInv(tl)'
    BY NextInv
  <1> QED BY <1>1, <1>2, PTL DEF Spec

\* The timeline keeps its types: no delay is negative, and what simulate resumes is
\* an element.
THEOREM TimelineTypeCorrect == Spec => []TypeOK
  <1>1. IInv(tl) => TypeOK
    BY DEF IInv, Sound, TypeOK
  <1> QED BY <1>1, InvariantHolds, PTL

\* No element waits for ever, and none returns to a parent that is gone, whatever is
\* stopped, cancelled, collected or raised, by whom, and in whatever order.
THEOREM EveryWaitStaysWoken == Spec => []EveryWaitIsWoken
  <1>1. ASSUME IInv(tl) PROVE EveryWaitIsWoken
    <2> SUFFICES ASSUME NEW e \in Element, Live(tl, e)
                 PROVE  /\ \/ tl.when[e] # NONE \/ tl.active = e
                           \/ \E c \in tl.children[e] : Live(tl, c) /\ tl.parent[c] = e
                           \/ e \in Roots /\ e \in Calling
                        /\ tl.parent[e] # NONE => Live(tl, tl.parent[e])
                                                  /\ e \in tl.children[tl.parent[e]]
      BY DEF EveryWaitIsWoken
    <2>0. Sound(tl) /\ Waiting(tl, NONE)
      BY <1>1 DEF IInv
    <2>1. tl.when[e] # NONE \/ tl.active = e \/ tl.children[e] # {} \/ e \in Roots \cap Calling
      BY <2>0, TimelineAssumption DEF Waiting
    <2>2. \A c \in tl.children[e] : Live(tl, c) /\ tl.parent[c] = e
      BY <2>0, ChildIsLinked
    <2>3. ASSUME tl.parent[e] # NONE
          PROVE  Live(tl, tl.parent[e]) /\ e \in tl.children[tl.parent[e]]
      <3>1. tl.parent[e] \in Element /\ e \in tl.children[tl.parent[e]]
        BY <2>0, <2>3, ParentIsLinked
      <3> QED BY <2>0, <3>1, ChildIsLinked
    <2> QED BY <2>1, <2>2, <2>3
  <1> QED BY <1>1, InvariantHolds, PTL

\* What is to be called finally is called once for each time its element is entered.
THEOREM FinallyStaysOnce == Spec => []FinallyOnce
  <1>1. IInv(tl) => FinallyOnce
    BY DEF IInv, Sound, CallsOnce, FinallyOnce
  <1> QED BY <1>1, InvariantHolds, PTL

\* An alarm that is void never calls back.
THEOREM VoidAlarmsStaySilent == Spec => VoidAlarmsAreSilent
  <1>1. ASSUME IInv(tl), [Next]_tl
        PROVE  [tl'.phase = "callback" /\ tl.phase # "callback" => tl.active \notin tl.void]_tl
    <2> SUFFICES ASSUME Next, tl'.phase = "callback", tl.phase # "callback"
                 PROVE  tl.active \notin tl.void
      BY <1>1
    <2>0. /\ tl \in TimelineState /\ tl.registered \cap tl.void = {} /\ "phase" \in DOMAIN tl
          /\ tl.void \subseteq Alarms
      BY <1>1 DEF IInv, Sound, TimelineState
    <2>1. CASE Code
      BY <1>1, <2>1, CodePhase
    <2>2. CASE Simulate
      BY <2>0, <2>2 DEF Simulate
    <2>3. CASE Run
      <3> DEFINE e == tl.active
                 t == Activated(tl, e)
      <3>1. e \in Element /\ Live(tl, e) /\ Sound(tl) /\ Waiting(tl, NONE)
        BY <1>1, <2>3 DEF IInv, AtWork, Run, Sound, TimelineState
      <3>2. /\ Sound(t) /\ Waiting(t, NONE) /\ t.active = e /\ t.when[e] = NONE
            /\ ~t.scheduled[e] /\ t.handle = tl.handle
        BY <3>1, ActivatedDoes
      <3>3. t.registered = tl.registered
        BY <2>0 DEF Activated, TimelineState
      <3>4. tl' = RunElement(t, e)
        BY <2>3 DEF Run
      <3> HIDE DEF e, t
      <3>5. Called(t, e)
        BY <3>1, <3>2 DEF Called, Live
      <3>6. e \notin Alarms \ tl.registered
        BY <3>3, <3>4, <3>5, RunElementPhase
      <3> QED BY <2>0, <3>6 DEF e
    <2>4. CASE Resume
      <3> DEFINE e == tl.active
                 t == Activated(tl, e)
      <3>1. /\ e \in Element /\ Live(tl, e) /\ Sound(tl) /\ Waiting(tl, NONE)
            /\ Kind[e] \in Parents
        BY <1>1, <2>4 DEF IInv, AtWork, Resume, Sound, TimelineState
      <3>2. Sound(t)
        BY <3>1, ActivatedDoes
      <3>3. tl' = ResumeElement(t, e)
        BY <2>4 DEF Resume
      <3> HIDE DEF e, t
      <3> QED BY <3>1, <3>2, <3>3, ResumeElementPhase DEF Sound
    <2>5. CASE CallbackReturns \/ CallbackRaises
      BY <2>5 DEF CallbackReturns, CallbackRaises
    <2>6. CASE Finish
      BY <2>0, <2>6 DEF Finish, Advanced
    <2>7. ASSUME NEW e \in Element, Pick(e) PROVE FALSE
      BY <2>0, <2>7 DEF Pick, Activated, Advanced
    <2>8. CASE ExitEarly
      BY <2>0, <2>8 DEF ExitEarly
    <2> QED BY <2>1, <2>2, <2>3, <2>4, <2>5, <2>6, <2>7, <2>8 DEF Next, Loop
  <1> QED BY <1>1, InvariantHolds, PTL DEF Spec, VoidAlarmsAreSilent

===============================================================================
