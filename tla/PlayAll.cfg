\* Two passes over at most two stories.
CONSTANTS
    t1 = t1
    t2 = t2
    Pass = {t1, t2}
    MaxPlayer = 2
SPECIFICATION
    Spec
INVARIANTS
    TypeOK
    SoundHasOwner
    RestsReady
PROPERTY
    FallsSilent
    StoppedPassesEnd
\* A pass may wait for a signal that nobody sends.
CHECK_DEADLOCK FALSE
