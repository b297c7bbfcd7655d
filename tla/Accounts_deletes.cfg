\* One device, whose user is hasty.
CONSTANTS
    None = None
    d1 = d1
    m1 = m1
    a1 = a1
    a2 = a2
    n1 = n1
    n2 = n2
    Device = {d1}
    Member = {m1}
    MemberName <- MCMemberName
    Name = {n1, n2}
    Attempt = {a1, a2}
    Resident = {d1}
    Hasty = {d1}
    MaxAsked = 1
    MaxLaunches = 1
SPECIFICATION
    Spec
INVARIANT
    DeletesAnonymousUser
