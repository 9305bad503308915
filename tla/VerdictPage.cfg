CONSTANTS
    osu = osu
    mich = mich
    odd = odd
    bucks = bucks
    oddTeam = oddTeam
    None = None
    Subjects = {osu, mich, odd}
    Plain = {osu, mich}
    Teams = {bucks, oddTeam}
    PlainTeams = {bucks}
    MaxAsks = 4
SPECIFICATION FairSpec
INVARIANT OneLiveRequest
INVARIANT ReloadAsksTheSame
INVARIANT SavedTeamIsTheVisitors
PROPERTY KeepsPromise
PROPERTY LoadingEnds
