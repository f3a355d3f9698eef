\* Songs, covers and the player change; a WinRT call fails anywhere in a poll, or
\* a publication, a read or the times are lost, or the audio session goes: what
\* is shown meanwhile and in the end.
CONSTANTS
    None = None
    EchoTicks = 1
    TrustTicks = 3
    WindowBudget = 0
    Songs = {s1, s2}
    CoveredSongs = {s1}
    Mixed = Mixed
    PollTicks = 1
    CoverTicks = 1
    RetryTicks = 1
    FaultKinds = {"lock", "miss", "time", "audio", "winrt"}
    FaultBudget = 1
    SongBudget = 2
    UserBudget = 1
    ButtonBudget = 0
SPECIFICATION FairSpec
INVARIANTS TypeOK TimelineUnderOwnSong CoverUnderOwnSong
PROPERTIES RememberedStatusShown DisplayConverges ProgressConverges
