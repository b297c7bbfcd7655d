\* Two stories of the user and one of somebody else's.
CONSTANTS
    s1 = s1
    s2 = s2
    t1 = t1
    None = None
    Story = {s1, s2, t1}
    Own = {s1, s2}
    MaxCount = 1
SPECIFICATION
    Spec
INVARIANTS
    TypeOK
    ListIsOwnFeed
    OnlyOwnAreErased
    SteadyAlertIsRight
    SettledTableIsTheList
PROPERTY
    TableCatchesUp
CHECK_DEADLOCK FALSE
