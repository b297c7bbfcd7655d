\* A patient user of a resident device and a hasty one who only registers.
CONSTANTS
    None = None
    d1 = d1
    d2 = d2
    m1 = m1
    a1 = a1
    a2 = a2
    n1 = n1
    n2 = n2
    Device = {d1, d2}
    Member = {m1}
    MemberName <- MCMemberName
    Name = {n1, n2}
    Attempt = {a1, a2}
    Resident = {d1}
    Hasty = {d2}
    MaxAsked = 1
    MaxLaunches = 1
SYMMETRY
    Symmetry
SPECIFICATION
    Spec
INVARIANTS
    TypeOK
    PatientUsersAreSafe
    AppShowsItsUser
    CachedIsRegistered
    UsernamesDiffer
