CONSTANTS
    None = None
    Manager = {m1, m2}
    Camera = {a, b}
    Ttl = 1
    MaxEntries = 2
    MaxTime = 2
    MaxOps = 2
SPECIFICATION Spec
SYMMETRY Symmetric
CHECK_DEADLOCK FALSE
INVARIANTS TimeoutRestored FullResolutionFirst
PROPERTIES NoLoginUnderDeadline UrlsAreCurrent
