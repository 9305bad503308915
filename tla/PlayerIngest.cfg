CONSTANTS
    brady = brady
    twin = twin
    kicker = kicker
    i1 = i1
    i2 = i2
    Nobody = Nobody
    Persons = {brady, twin, kicker}
    Ids = {i1, i2}
    Mint <- MCMint
    LastSeason = 2
SPECIFICATION Spec
INVARIANT StatsBelongToTheirPlayers
INVARIANT SeasonIsItsLastBuild
PROPERTY RerunAtOnceIsIdentical
