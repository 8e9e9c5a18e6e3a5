------------------------------ MODULE MCTimeline ------------------------------
(***************************************************************************)
(* A job that sleeps until it is stopped softly, beside a function, with a *)
(* cleanup that must run and a call that must be made, as interactions are *)
(* built; an alarm and a repeating alarm.                                  *)
(***************************************************************************)
EXTENDS Timeline, TLC

CONSTANTS job, critical, both, loop, nap, work, must, cleanup, once, tick

MCElement == {job, critical, both, loop, nap, work, must, cleanup, once, tick}
MCKind == job :> "finally" @@ critical :> "critical" @@ both :> "all" @@ loop :> "repeat"
          @@ nap :> "softsleep" @@ work :> "function" @@ must :> "mustrun"
          @@ cleanup :> "sleep" @@ once :> "alarm" @@ tick :> "repeating"
MCParts == [e \in MCElement |->
              CASE e = job -> <<critical>>
                [] e = critical -> <<both, must>>
                [] e = both -> <<loop, work>>
                [] e = loop -> <<nap>>
                [] e = must -> <<cleanup>>
                [] OTHER -> <<>>]
MCDelay == [e \in MCElement |-> IF e = nap THEN 2 ELSE 1]

-----------------------------------------------------------------------------
(* How _collect_element_tree finds a tree, step by step                    *)

RECURSIVE Root(_, _), Below(_, _)
Root(s, e) == IF s.parent[e] = NONE THEN e ELSE Root(s, s.parent[e])
Below(s, e) ==
    IF Live(s, e) THEN {e} \cup UNION {Below(s, c) : c \in s.children[e]} ELSE {}

\* Trees with any elements gone and any links broken
SomeTrees ==
    UNION {{[ handle |-> [e \in Element |-> IF e \in live THEN "live" ELSE "cleared"],
              parent |-> [e \in Element |-> IF e \in linked THEN Owner[e] ELSE NONE],
              children |-> [e \in Element |-> {c \in linked : Owner[c] = e}] ] :
             linked \in SUBSET {e \in live \ Roots : Owner[e] \in live}} :
           live \in SUBSET (Element \ {once, tick})}

\* A hard stop of any element of a tree stops all of it, and nothing of another: what
\* _collect_element_tree visits, up to a root and then down from it, is Tree.
ASSUME CollectsTheTree ==
    \A s \in SomeTrees : \A e \in Element :
        Live(s, e) => Below(s, Root(s, e)) = Tree(s, e)
=============================================================================
