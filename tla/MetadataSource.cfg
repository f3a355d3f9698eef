\* The song changes once, the panel is built twice, a scan fails or a shared
\* title is missed or a title torn once.
CONSTANTS
    None = None
    Songs = {s1, s2}
    Torn = Torn
    Places = {5, 7}
    RegionSize = 9
    ScanChunk = 4
    ChunkOverlap = 2
    HeadSize = 2
    Delay <- MCDelay
    FaultKinds = {"modules", "scan", "miss", "torn"}
    FaultBudget = 1
    SongBudget = 1
    PanelBudget = 2
SPECIFICATION Spec
INVARIANTS TypeOK SettledSampleOwn PanelFound TornTitleUntimed TimesInTime
