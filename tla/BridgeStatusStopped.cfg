\* One song, nothing fails: the status when the song is known after the audio.
CONSTANTS
    None = None
    EchoTicks = 1
    TrustTicks = 3
    WindowBudget = 0
    Songs = {s1}
    CoveredSongs = {}
    Mixed = Mixed
    PollTicks = 2
    CoverTicks = 2
    RetryTicks = 1
    FaultKinds = {}
    FaultBudget = 0
    SongBudget = 1
    UserBudget = 0
    ButtonBudget = 0
SPECIFICATION FairSpec
PROPERTIES StatusConverges
