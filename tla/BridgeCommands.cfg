\* Two buttons with or without a song, while a window goes and comes back; a hook
\* or a post fails, or the panel is not found.
CONSTANTS
    None = None
    EchoTicks = 1
    TrustTicks = 2
    WindowBudget = 1
    Songs = {s1}
    CoveredSongs = {}
    Mixed = Mixed
    PollTicks = 1
    CoverTicks = 0
    RetryTicks = 1
    FaultKinds = {"hook", "panel", "completion"}
    FaultBudget = 1
    SongBudget = 0
    UserBudget = 0
    ButtonBudget = 2
SPECIFICATION FairSpec
INVARIANTS CommandsRunOnce QueuedCommandsHooked
PROPERTIES TrustedStatusStands StatusNotStuck
