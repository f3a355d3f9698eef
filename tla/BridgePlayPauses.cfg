\* Two buttons, nothing fails: the commands the player gets.
CONSTANTS
    None = None
    EchoTicks = 1
    TrustTicks = 3
    WindowBudget = 0
    Songs = {s1}
    CoveredSongs = {}
    Mixed = Mixed
    PollTicks = 2
    CoverTicks = 2
    RetryTicks = 1
    FaultKinds = {}
    FaultBudget = 0
    SongBudget = 1
    UserBudget = 0
    ButtonBudget = 2
SPECIFICATION Spec
PROPERTIES CommandsObeyed
