\* Two cells, for the profile's list and the story screens.  A cell of the home
\* list is one of the profile's that never goes away: none is needed here.
CONSTANTS
    c1 = c1
    c2 = c2
    Parent = Parent
    Former = Former
    None = None
    HomeCell = {}
    LaterCell = {c1, c2}
SPECIFICATION
    Spec
INVARIANTS
    TypeOK
    IconTellsSound
    BarsAreDrawn
    StoryStaysOnItsScreen
PROPERTY
    SilenceClearsBars
\* A crash ends the behaviour.
CHECK_DEADLOCK FALSE
