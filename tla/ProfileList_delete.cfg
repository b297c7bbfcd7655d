\* Is the story that "Yes" deletes the one that was swiped?
CONSTANTS
    s1 = s1
    s2 = s2
    t1 = t1
    None = None
    Story = {s1, s2, t1}
    Own = {s1, s2}
    MaxCount = 1
SPECIFICATION
    Spec
INVARIANT
    OnlyAgreedAreErased
CHECK_DEADLOCK FALSE
