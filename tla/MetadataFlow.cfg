\* The publisher and a metadata provider; the song changes twice, processes die
\* twice, and a publication is dropped or a read misses.
CONSTANTS
    short = short
    long = long
    longCut = longCut
    Torn = Torn
    Empty = Empty
    None = None
    Publisher = p1
    Processes = {p1, p2}
    Titles <- MCTitles
    Cut <- MCCut
    SongBudget = 2
    DeathBudget = 2
    FaultBudget = 1
SPECIFICATION FairSpec
INVARIANTS FlowInv AgreedTitleStored
PROPERTIES ShownConverges
