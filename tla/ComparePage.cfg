SPECIFICATION FairSpec
CONSTANTS
    qb1 = qb1
    qb2 = qb2
    kicker = kicker
    QB = QB
    None = None
    Players = {qb1, qb2, kicker}
    GroupOf <- MCGroupOf
    Quarterbacks = QB
    Texts = {"jo", "ra"}
    Links <- MCLinks
    MaxAbandoned = 1
INVARIANTS OneRequest LoadingIsTrue GroupIsAskedFor
PROPERTIES CompareAsksAfresh LoadingEnds
