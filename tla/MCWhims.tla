------------------------------ MODULE MCWhims ------------------------------
EXTENDS Whims

CONSTANTS chat, tease, joke, laugh, happy, sad

MCEmotion == [w \in WhimSet |-> IF w \in {joke, laugh} THEN happy ELSE NONE]

\* Jokes lead to a chat; laughing leads to more of it.
MCConnected ==
    [w \in WhimSet |-> IF w = joke THEN {chat} ELSE IF w = laugh THEN {laugh} ELSE {}]

\* A state with more sets at work is checked, and not gone on from.
ThreeSets == Cardinality(Triggered(whims) \cup whims.cooling \cup whims.realized) <= 3
=============================================================================
