SPECIFICATION Spec
CONSTANTS
    Caller = {a, b}
    Channel = {ch1, ch2}
    Lacks = {"online_channels"}
    MaxCalls = 2
    MaxEdits = 1
    None = None
SYMMETRY Symmetric
INVARIANTS FrameIsOwn NothingLeftBehind
PROPERTIES OrphanInvalidates 
CHECK_DEADLOCK FALSE
