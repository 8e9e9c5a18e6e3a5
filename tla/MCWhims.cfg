\* Two sets of whims for the happy and one slot for the others; at most three sets
\* are triggered, cool or have a whim realized at a time.
SPECIFICATION Spec
CONSTANTS
    chat = chat
    joke = joke
    laugh = laugh
    tease = tease
    happy = happy
    sad = sad
    NONE = NONE
    WhimSet = {chat, joke, laugh, tease}
    Mood = {happy, sad}
    Emotion <- MCEmotion
    Connected <- MCConnected
    Uncooled = {laugh, tease}
    Retested = {chat}
    Always = {joke}
    MAX_GOALS = 1
    MaxDelayed = 1
CONSTRAINT ThreeSets
INVARIANTS TypeOK SetsAccounted OnOfferIsReal
