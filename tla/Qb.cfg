SPECIFICATION QbSpec
CONSTANTS
    None = None
    EPA_PER_DROPBACK_MIN_DROPBACKS <- MCMinDropbacks
    QB_SCORE_MIN_DROPBACKS = 20
    QB_SCORE_PEAK_SEASONS = 2
    QB_SCORE_WEIGHTS <- MCWeights
    MAX_QB_CLAIMS = 5
    MARGIN_BANDS <- MCBands
    MEASURE_WINDOW = 6
    Players <- MCPlayers
    Builds <- MCBuilds
    Written <- MCWritten
    Palette <- MCPalette
    Styles <- MCStyles
    Closings <- MCClosings
    MaxTokens = 4
    Limits = {1, 2}
    ELO <- MCElo
    Lineages <- MCLineages
INVARIANTS
    QbFiguresAreTrue
    QbVerdictIsTheWinner
    QbFiguresReadAsTheirPlayer
    BoardsAreWhole
    LedgersTellOneStory
    CareerFollowsTheFranchise
CHECK_DEADLOCK FALSE
