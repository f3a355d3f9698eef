\* The host loads and frees the plugin, at most two calls fail.  The system
\* rests when the worker has ended or waits for a player that never comes.
SPECIFICATION FairSpec

CONSTANTS
    Paths <- MCPaths
    Exports = 3
    LoadBudget = 3
    FaultBudget = 2

INVARIANTS
    TypeOK
    PluginStaysWhole
    ClosedAfterEnd

PROPERTIES
    CloseEndsWorker
    LatePlayerServed

CHECK_DEADLOCK FALSE
