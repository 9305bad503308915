CONSTANTS
    old = old
    new = new
    teamKey = teamKey
    qbKey = qbKey
    teamPrompt = teamPrompt
    qbPrompt = qbPrompt
    r1 = r1
    r2 = r2
    None = None
    Requests = {r1, r2}
    Processes = {old, new}
    Keys = {teamKey, qbKey}
    Prompts = {teamPrompt, qbPrompt}
    ProcessOf <- MCProcessOf
    PromptOf <- MCPromptOf
    ContestedIn <- MCContestedIn
    Limit = 1
    Window = 1
SPECIFICATION FairSpec
INVARIANT RowsAreWhatTheySay
INVARIANT CacheHitsAreTrue
INVARIANT RepliesExplainAnswer
PROPERTY FallbackNeverCached
PROPERTY KeepsPromise
PROPERTY EveryRequestAnswered
