------------------------------- MODULE MCCareer -------------------------------
(***************************************************************************)
(* A Sim with two careers. The shift of one runs past the end of the week; *)
(* one has a branch.                                                       *)
(***************************************************************************)
EXTENDS Career, TLC

CONSTANTS astronaut, chef, space, ranger, kitchen

MCCareer == {astronaut, chef}
MCTrack == {space, ranger, kitchen}
MCShift ==
    [c \in Career |-> IF c = chef THEN {[start |-> 3, end |-> 5]}
                                  ELSE {[start |-> 0, end |-> 1]}]
MCLateAfter == [c \in Career |-> 1]
MCStartTrack == [c \in Career |-> IF c = chef THEN kitchen ELSE space]
MCLevels == space :> 1 @@ ranger :> 1 @@ kitchen :> 2
MCDefault == {NONE}
MCBranches == kitchen :> {ranger} @@ space :> {} @@ ranger :> {}
=============================================================================
