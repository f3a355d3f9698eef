\* Three sessions start, stop and expire while they are looked through; every
\* call may fail.
CONSTANTS
    None = None
    Sessions = {p1, p2, p3}
    RetryTicks = 2
    RefreshTicks = 4
    FaultKinds = {"state", "create", "enumerate", "count", "skip"}
SPECIFICATION Spec
INVARIANTS TypeOK MusicNoticed
PROPERTIES PauseNotLost DiscoverySpaced
