\* A story, two replies, two devices; no faults.
CONSTANTS
    d1 = d1
    d2 = d2
    s1 = s1
    r1 = r1
    r2 = r2
    None = None
    Device = {d1, d2}
    Story = {s1}
    Reply = {r1, r2}
    MaxFaults = 0
SYMMETRY
    Symmetry
SPECIFICATION
    SafeSpec
INVARIANTS
    TypeOK
    AudioBeforeStory
    CounterIsEarned
    RowsFollowView
CHECK_DEADLOCK FALSE
