CONSTANTS
    Threads = {t1, t2, t3}
    NoThread = NoThread
    Limit = 2
    Window = 2
    MaxClock = 5
SPECIFICATION Spec
SYMMETRY Symmetry
INVARIANT AtMostLimitPerWindow
INVARIANT DequeIsTheUnexpiredHistory
PROPERTY RefusedOnlyWhenSpent
