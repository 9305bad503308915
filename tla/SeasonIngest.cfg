CONSTANTS
    regular = regular
    bowl = bowl
    home = home
    away = away
    None = None
    Runs = {r1, r2}
    Leagues = {"cfb", "nfl"}
    LastBatch = 2
    Games = {regular, bowl}
    Teams = {home, away}
    BatchOf <- MCBatchOf
    TeamsOf <- MCTeamsOf
    MaxVersion = 2
SPECIFICATION Spec
SYMMETRY Symmetry
INVARIANT LoggedBatchesAreWhole
INVARIANT FailedBatchesStoreNoGames
INVARIANT SuccessMeansStored
