SPECIFICATION MSpec
CONSTANTS
    Client = {c1, c2}
    Node = {n1, n2}
    Server = {s1}
    None = None
    MaxNews = 2
    Area = {1, 2}
    Device = {1, 2, 3}
    Channel = {k1}
    MaxPages = 4
    MaxEdits = 2
    Handle = {h1, h2}
    Alarm = {a1, a2}
    Library <- MCLibrary
    Modes <- MCModes
SYMMETRY Symmetric
CHECK_DEADLOCK FALSE
INVARIANTS
    SessionsHeld
    ListsCurrent
    SteadyCoverage
    AlarmsHeld
