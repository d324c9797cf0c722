SPECIFICATION MCSpec
CONSTANTS
    c1 = c1
    c2 = c2
    b1 = b1
    b2 = b2
    e1 = e1
    role = role
    Channels = {c1, c2}
    Bindings = {b1, b2}
    Absent = Absent
    Events = {role, e1}
    RoleMode = role
    Unknown <- UnknownKeys
    Messages = {m1, m2}
    Changer = Changer
    None = None
    Workers = 3
    MaxChanges = 2
    MaxEdits = 1
INVARIANTS
    OneSessionPerKey
    BoundSessionStays
    
CHECK_DEADLOCK FALSE
