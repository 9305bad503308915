SPECIFICATION GroundingSpec
CONSTANTS
    QUALITY_WIN_RANK_THRESHOLD = 2
    RELIABLE_CFB_VENUE_SINCE = 2008
    MAX_CLAIMS = 2
    MAX_GAME_SCORE_CLAIMS = 1
    Schedule <- MCSchedule
    Displayed = {1, 2, 3}
    Strengths <- MCStrengths
    Seasons = {2005, 2010}
    RateFrom = 4
    Palette <- MCPalette
    Tokens <- MCTokens
    MaxTokens = 4
    Written <- MCWritten
    Compared = {1, 2}
INVARIANTS
    ClaimsAreTrue
    LedgerInStep
    FiguresReadAsTheirTeam
CHECK_DEADLOCK FALSE
