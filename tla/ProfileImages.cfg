\* One cell, one row of the user's own and one of another user, two loads.
CONSTANTS
    Me = Me
    other = other
    mine = mine
    theirs = theirs
    c1 = c1
    l1 = l1
    l2 = l2
    Edit = Edit
    Elsewhere = Elsewhere
    None = None
    Placeholder = Placeholder
    Blank = Blank
    Picked = Picked
    User = {Me, other}
    Row = {mine, theirs}
    Cell = {c1}
    Load = {l1, l2}
    creator <- MCCreator
    MaxUpload = 2
SPECIFICATION
    Spec
INVARIANTS
    TypeOK
    PatientCellsAreRight
    OwnCacheIsFresh
    PickIsSaved
PROPERTY
    NoViewStaysBlank
CHECK_DEADLOCK FALSE
