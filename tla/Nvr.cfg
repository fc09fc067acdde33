CONSTANTS
    None = None
    Channel = {c1, c2}
    Plate = {p1, p2, p3}
    Limit = 2
    MaxCalls = 2
    MaxOthers = 1
SPECIFICATION NvrSpec
SYMMETRY Symmetric
CHECK_DEADLOCK FALSE
INVARIANT ReadsTruthful
PROPERTIES VerifiedMeansWritten AlarmsStayArmed
