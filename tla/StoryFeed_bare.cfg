\* A story is deleted while another device's reply is being counted.
CONSTANTS
    None = None
    d1 = d1
    d2 = d2
    s1 = s1
    r1 = r1
    Device = {d1, d2}
    Story = {s1}
    Reply = {r1}
    MaxFaults = 0
SPECIFICATION
    SafeSpec
INVARIANT
    RowsHaveUniqueID
CHECK_DEADLOCK FALSE
