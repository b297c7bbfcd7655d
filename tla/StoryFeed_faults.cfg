\* A story and a reply, two devices, one connection lost or app killed.
CONSTANTS
    None = None
    d1 = d1
    d2 = d2
    s1 = s1
    r1 = r1
    Device = {d1, d2}
    Story = {s1}
    Reply = {r1}
    MaxFaults = 1
SPECIFICATION
    Spec
INVARIANTS
    SettledListsAgree
PROPERTY
    DeletionStands
    StoryReachesEveryone
    ImplementsBoard
CHECK_DEADLOCK FALSE
