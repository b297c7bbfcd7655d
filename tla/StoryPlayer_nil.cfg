\* One cell on the home list, one for the profile's list or the story screen.
CONSTANTS
    h1 = h1
    c1 = c1
    Parent = Parent
    Former = Former
    None = None
    HomeCell = {h1}
    LaterCell = {c1}
SPECIFICATION
    Spec
INVARIANT
    NeverUnwrapsNil
CHECK_DEADLOCK FALSE
