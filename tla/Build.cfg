CONSTANTS
    MinYear = 1
    MaxYear = 2
    Procs = {"job", "other"}
    FcsSeasons = {1}
    Starts <- StartsOfNote
    Alone = {1}
    MaxJobs = 2
    MaxPulls = 1
SPECIFICATION Spec
INVARIANTS
    GreenBuildIsWhole
    RedHasACause
    RefusedIsReported
    OpenedIsCurrent
CHECK_DEADLOCK FALSE
